---------------------------- MODULE TypeGraphProofs ---------------------------
(* What holds of type graphs whatever the options are: the support sets,    *)
(* finite and bounded types, what unification keeps, what the getters find, *)
(* and that the analysis of a graph finds all access there is.              *)
EXTENDS TypeGraph, FiniteSetTheorems, WellFoundedInduction, TLAPS

-----------------------------------------------------------------------------
(* Naturals and functions that iterate                                     *)

\* A set of naturals that is not empty has a least element.
LEMMA Least ==
  ASSUME NEW T, T \subseteq Nat, T # {}
  PROVE  \E m \in T : \A k \in T : m <= k
<1>1. IsWellFoundedOn(OpToRel(<, Nat), Nat)
  BY NatLessThanWellFounded
<1>2. PICK x \in T : \A y \in T : ~ (<<y, x>> \in OpToRel(<, Nat))
  BY <1>1, WFMin
<1>3. \A y \in T : ~(y < x)
  BY <1>2 DEF OpToRel
<1> QED
  BY <1>3

\* A bounded one has a greatest element.
LEMMA Greatest ==
  ASSUME NEW T, T \subseteq Nat, T # {}, NEW n \in Nat, \A k \in T : k <= n
  PROVE  \E m \in T : \A k \in T : m >= k
<1> DEFINE U == {x \in Nat : n - x \in T}
<1>1. PICK k \in T : TRUE
  OBVIOUS
<1>2. U \subseteq Nat /\ n - k \in U
  BY <1>1
<1>3. PICK m \in U : \A x \in U : m <= x
  <2> HIDE DEF U
  <2> QED
    BY <1>2, Least
<1>4. n - m \in T /\ \A x \in T : n - x \in U
  BY <1>3
<1> QED
  BY <1>3, <1>4

\* What holds of 0 and of the successor of what it holds of holds up to n.
LEMMA Induction ==
  ASSUME NEW n \in Nat, NEW T, 0 \in T, \A i \in 1..n : i - 1 \in T => i \in T
  PROVE  0..n \subseteq T
<1> SUFFICES ASSUME NEW j \in 0..n, j \notin T PROVE FALSE
  OBVIOUS
<1> DEFINE U == (0..n) \ T
<1>0. U \subseteq Nat /\ U # {}
  OBVIOUS
<1>1. PICK m \in U : \A k \in U : m <= k
  <2> HIDE DEF U
  <2> QED
    BY <1>0, Least
<1>2. m \in 1..n /\ m - 1 \in T
  BY <1>1
<1> QED
  BY <1>1, <1>2

\* F takes A on in n steps.
Iterated(n, D, A, F) ==
  \E g \in [0..n -> D] : g[0] = A /\ \A i \in 1..n : g[i] = F[<<i, g[i - 1]>>]

\* So it is for functions of a step and a member of a set to that set.
LEMMA IterateExists ==
  ASSUME NEW n \in Nat, NEW D, NEW A \in D, NEW F \in [(1..n) \X D -> D]
  PROVE  Iterated(n, D, A, F)
<1> DEFINE Upto(k) == \E g \in [0..k -> D] : g[0] = A /\ \A i \in 1..k : g[i] = F[<<i, g[i - 1]>>]
           T == {k \in 0..n : Upto(k)}
<1>1. Upto(0)
  <2> DEFINE g == [i \in 0..0 |-> A]
  <2>1. g \in [0..0 -> D] /\ g[0] = A /\ \A i \in 1..0 : g[i] = F[<<i, g[i - 1]>>]
    OBVIOUS
  <2> QED
    BY <2>1
<1>2. ASSUME NEW k \in 1..n, Upto(k - 1)
      PROVE  Upto(k)
  <2>1. PICK g \in [0..(k - 1) -> D] : g[0] = A /\ \A i \in 1..(k - 1) : g[i] = F[<<i, g[i - 1]>>]
    BY <1>2
  <2> DEFINE last == F[<<k, g[k - 1]>>]
             h == [i \in 0..k |-> IF i = k THEN last ELSE g[i]]
  <2>2. last \in D
    <3>1. g[k - 1] \in D
      BY <2>1
    <3> QED
      BY <3>1
  <2>3. h \in [0..k -> D]
    BY <2>1, <2>2
  <2>4. h[0] = A /\ \A i \in 1..(k - 1) : h[i] = g[i] /\ h[i - 1] = g[i - 1]
    BY <2>1
  <2>5. h[k] = F[<<k, h[k - 1]>>]
    <3>1. h[k] = last
      OBVIOUS
    <3>2. h[k - 1] = g[k - 1]
      OBVIOUS
    <3> HIDE DEF h
    <3> QED
      BY <3>1, <3>2
  <2>6. \A i \in 1..k : h[i] = F[<<i, h[i - 1]>>]
    <3> HIDE DEF h
    <3> TAKE i \in 1..k
    <3>1. CASE i = k
      BY <2>5, <3>1
    <3>2. CASE i # k
      <4>1. i \in 1..(k - 1)
        BY <3>2
      <4> QED
        BY <2>1, <2>4, <4>1
    <3> QED
      BY <3>1, <3>2
  <2> HIDE DEF h
  <2> QED
    BY <2>3, <2>4, <2>6
<1> HIDE DEF Upto
<1>3. 0 \in T /\ \A i \in 1..n : i - 1 \in T => i \in T
  BY <1>1, <1>2
<1>4. Upto(n)
  <2>1. 0..n \subseteq T
    <3> HIDE DEF T
    <3> QED
      BY <1>3, Induction
  <2> QED
    BY <2>1
<1>5. PICK g \in [0..n -> D] : g[0] = A /\ \A i \in 1..n : g[i] = F[<<i, g[i - 1]>>]
  BY <1>4 DEF Upto
<1> QED
  BY <1>5 DEF Iterated

-----------------------------------------------------------------------------
(* What a relation leads to                                                *)

Image(E, S) == {e[2] : e \in {x \in E : x[1] \in S}}

Closed(E, S) == \A e \in E : e[1] \in S => e[2] \in S

\* R is what E leads to from A, A included.
Closure(E, A, R) ==
  A \subseteq R /\ Closed(E, R) /\ \A X : A \subseteq X /\ Closed(E, X) => R \subseteq X

\* A step of E from the sets of g to the next.
Growing(n, E, A, g) == g[0] = A /\ \A i \in 1..n : g[i] = g[i - 1] \cup Image(E, g[i - 1])

\* A part of a finite set is finite and not larger.
LEMMA Smaller ==
  ASSUME NEW V, IsFiniteSet(V), NEW S, S \subseteq V
  PROVE  /\ IsFiniteSet(S) /\ Cardinality(S) \in Nat /\ Cardinality(S) <= Cardinality(V)
         /\ Cardinality(S) = Cardinality(V) => S = V
<1>1. S \in SUBSET V
  OBVIOUS
<1>2. IsFiniteSet(S) /\ Cardinality(S) <= Cardinality(V) /\ (Cardinality(V) = Cardinality(S) => V = S)
  BY <1>1, FS_Subset
<1>3. Cardinality(S) \in Nat
  BY <1>2, FS_CardinalityType
<1> QED
  BY <1>2, <1>3

\* On n vertices, after n steps there is nothing new.
LEMMA Saturates ==
  ASSUME NEW n \in Nat, NEW E, E \subseteq (1..n) \X (1..n), NEW A, A \subseteq 1..n,
         NEW g \in [0..n -> SUBSET (1..n)], Growing(n, E, A, g)
  PROVE  Closure(E, A, g[n])
<1> DEFINE more_or_all(i) == Closed(E, g[i]) \/ Cardinality(g[i]) >= i + 1
<1>0. \A S \in SUBSET (1..n) : IsFiniteSet(S) /\ Cardinality(S) \in Nat /\ Cardinality(S) <= n
  <2> DEFINE V == 1..n
  <2>1. IsFiniteSet(V) /\ Cardinality(V) = n
    BY FS_Interval
  <2> SUFFICES ASSUME NEW S \in SUBSET V
               PROVE  IsFiniteSet(S) /\ Cardinality(S) \in Nat /\ Cardinality(S) <= n
    OBVIOUS
  <2> HIDE DEF V
  <2> QED
    BY <2>1, Smaller
<1>1. \A i \in 1..n : i - 1 \in 0..n /\ i \in 0..n
  OBVIOUS
<1>2. \A S \in SUBSET (1..n) : S \cup Image(E, S) = S <=> Closed(E, S)
  BY DEF Image, Closed
<1>3. more_or_all(0)
  <2>1. CASE A = {}
    BY <2>1 DEF Growing, Closed
  <2>2. CASE A # {}
    <3>1. Cardinality(A) \in Nat /\ Cardinality(A) # 0
      BY <1>0, <2>2, FS_EmptySet
    <3> QED
      BY <3>1 DEF Growing
  <2> QED
    BY <2>1, <2>2
<1>4. ASSUME NEW i \in 1..n, more_or_all(i - 1)
      PROVE  more_or_all(i)
  <2>1. g[i - 1] \in SUBSET (1..n) /\ g[i] \in SUBSET (1..n)
    BY <1>1
  <2>2. g[i] = g[i - 1] \cup Image(E, g[i - 1])
    BY DEF Growing
  <2>3. CASE Closed(E, g[i - 1])
    BY <1>2, <2>1, <2>2, <2>3
  <2>4. CASE ~Closed(E, g[i - 1])
    <3>1. g[i - 1] # g[i] /\ g[i - 1] \subseteq g[i]
      BY <1>2, <2>1, <2>2, <2>4
    <3>2. Cardinality(g[i - 1]) <= Cardinality(g[i]) /\ Cardinality(g[i - 1]) # Cardinality(g[i])
      BY <1>0, <2>1, <3>1, FS_Subset
    <3>3. Cardinality(g[i - 1]) >= i - 1 + 1
      BY <1>4, <2>4
    <3>4. Cardinality(g[i - 1]) \in Nat /\ Cardinality(g[i]) \in Nat
      BY <1>0, <2>1
    <3> QED
      BY <3>2, <3>3, <3>4
  <2> QED
    BY <2>3, <2>4
<1>5. more_or_all(n)
  <2> HIDE DEF more_or_all
  <2> DEFINE T == {i \in 0..n : more_or_all(i)}
  <2>1. 0 \in T /\ \A i \in 1..n : i - 1 \in T => i \in T
    BY <1>3, <1>4
  <2>2. 0..n \subseteq T
    <3> HIDE DEF T
    <3> QED
      BY <2>1, Induction
  <2> QED
    BY <2>2
<1>6. n \in 0..n /\ g[n] \in SUBSET (1..n)
  OBVIOUS
<1>7. Closed(E, g[n])
  <2>1. Cardinality(g[n]) \in Nat /\ Cardinality(g[n]) <= n
    BY <1>0, <1>6
  <2> QED
    BY <1>5, <2>1
<1>8. A \subseteq g[n]
  <2> DEFINE T == {i \in 0..n : A \subseteq g[i]}
  <2>1. 0 \in T /\ \A i \in 1..n : i - 1 \in T => i \in T
    BY <1>1 DEF Growing
  <2>2. 0..n \subseteq T
    <3> HIDE DEF T
    <3> QED
      BY <2>1, Induction
  <2> QED
    BY <2>2
<1>9. ASSUME NEW X, A \subseteq X, Closed(E, X)
      PROVE  g[n] \subseteq X
  <2> DEFINE T == {i \in 0..n : g[i] \subseteq X}
  <2>1. 0 \in T
    BY <1>9 DEF Growing
  <2>2. \A i \in 1..n : i - 1 \in T => i \in T
    BY <1>1, <1>9 DEF Growing, Image, Closed
  <2>3. 0..n \subseteq T
    <3> HIDE DEF T
    <3> QED
      BY <2>1, <2>2, Induction
  <2> QED
    BY <2>3
<1> QED
  BY <1>7, <1>8, <1>9 DEF Closure

LEMMA InImage ==
  ASSUME NEW V, NEW E, E \subseteq V \X V, NEW S, NEW w
  PROVE  w \in Image(E, S) <=> \E u \in S : <<u, w>> \in E
<1>1. ASSUME w \in Image(E, S)
      PROVE  \E u \in S : <<u, w>> \in E
  <2>1. PICK e \in E : e[1] \in S /\ w = e[2]
    BY <1>1 DEF Image
  <2>2. e = <<e[1], w>>
    BY <2>1
  <2> QED
    BY <2>1, <2>2
<1>2. ASSUME NEW u \in S, <<u, w>> \in E
      PROVE  w \in Image(E, S)
  <2>1. <<u, w>> \in {x \in E : x[1] \in S} /\ <<u, w>>[2] = w
    BY <1>2
  <2> QED
    BY <2>1 DEF Image
<1> QED
  BY <1>1, <1>2

\* There are such sets, and one function alone gives them.
LEMMA Balls ==
  ASSUME NEW n \in Nat, NEW E, E \subseteq (1..n) \X (1..n), NEW A, A \subseteq 1..n
  PROVE  \E g \in [0..n -> SUBSET (1..n)] : Growing(n, E, A, g) /\ Closure(E, A, g[n])
<1> DEFINE D == SUBSET (1..n)
           F == [p \in (1..n) \X D |-> p[2] \cup Image(E, p[2])]
<1>1. A \in D /\ F \in [(1..n) \X D -> D]
  BY DEF Image
<1>2. \A i \in 1..n : \A S \in D : F[<<i, S>>] = S \cup Image(E, S)
  OBVIOUS
<1> HIDE DEF D, F
<1>3. PICK g \in [0..n -> D] : g[0] = A /\ \A i \in 1..n : g[i] = F[<<i, g[i - 1]>>]
  <2>1. Iterated(n, D, A, F)
    BY <1>1, IterateExists
  <2> QED
    BY <2>1 DEF Iterated
<1>4. \A i \in 1..n : g[i - 1] \in D
  BY <1>3
<1>5. Growing(n, E, A, g)
  BY <1>2, <1>3, <1>4 DEF Growing
<1>6. g \in [0..n -> SUBSET (1..n)]
  BY <1>3 DEF D
<1> QED
  BY <1>5, <1>6, Saturates

LEMMA SameLast ==
  ASSUME NEW n \in Nat, NEW f, NEW g, f[0] = g[0],
         \A i \in 1..n : f[i - 1] = g[i - 1] => f[i] = g[i]
  PROVE  f[n] = g[n]
<1> DEFINE T == {i \in 0..n : f[i] = g[i]}
<1>1. 0 \in T /\ \A i \in 1..n : i - 1 \in T => i \in T
  OBVIOUS
<1>2. 0..n \subseteq T
  <2> HIDE DEF T
  <2> QED
    BY <1>1, Induction
<1> QED
  BY <1>2

-----------------------------------------------------------------------------
(* The invariant, but for what it says of nesting                          *)

Kinds == create_scalar \cup Containers

\* The types of the variables; before the seeds there is nothing.
Typed ==
  /\ phase \in {"seed", "split", "structs", "arrays", "pointers", "bitfields", "perms",
                "done", "fault"}
  /\ nsplits \in Nat /\ more \in BOOLEAN
  /\ type \in Seq(Kinds) /\ edges \subseteq Vertices \X Vertices /\ leafs \subseteq Vertices
  /\ phase = "seed" => type = <<>>
  /\ todo \subseteq pointers /\ (phase \notin {"pointers", "fault"} => todo = {})

\* Where edges lead: none from a scalar, none from a pointer that is yet to be
\* processed; from a container to a newer vertex or, once scalars are shared, to
\* any scalar.
Directed ==
  \A e \in edges :
    /\ type[e[1]].cat # "SCALAR"
    /\ e[1] \in pointers => phase \notin {"seed", "split", "structs", "arrays"} /\ e[1] \notin todo
    /\ e[1] \notin pointers => e[1] < e[2] \/ type[e[2]].cat = "SCALAR"
    /\ phase \in {"seed", "split"} => e[1] < e[2]

\* Vertices with one predecessor: all until scalars of structures are unified,
\* and then still the elements of arrays.
Unshared ==
  \A e, f \in edges :
    /\ e[2] = f[2]
    /\ phase \in {"seed", "split", "structs"} \/ (phase = "arrays" /\ e[1] \in arrays)
    => e = f

\* Arrays have one child, and so have the pointers that were processed.
Sons ==
  /\ \A v \in arrays : \E u \in Vertices : childs(v) = {u}
  /\ phase \in {"pointers", "bitfields", "perms", "done"} =>
       \A v \in pointers \ todo :
         \E u \in Vertices : childs(v) = {u} /\ (~more => u \notin pointers)

\* What choose_perms_idxs leaves.
Chosen ==
  phase = "done" =>
    /\ idxs # {} /\ \A v \in idxs : type[v] \in Integral
    /\ \A n \in ArrMin..ArrMax : perms[n] # {}
    /\ \A n \in 1..ArrMax : \A v \in perms[n] :
         type[v] = array(n) /\ \A u \in childs(v) : type[u] \in Integral

-----------------------------------------------------------------------------
(* What the operators of the model find                                    *)

\* The edges of what is stored in a type, those that lead to no pointer, and
\* those to predecessors.
stored    == {e \in edges : type[e[1]].cat # "POINTER"}
open      == {e \in edges : type[e[2]].cat # "POINTER"}
backwards == {<<e[2], e[1]>> : e \in edges}

\* The graph has as many vertices as types, and edges between them.
IsGraph == Len(type) \in Nat /\ Vertices = 1..Len(type) /\ edges \subseteq Vertices \X Vertices

LEMMA TypedGraph == Typed => IsGraph
BY DEF Typed, IsGraph, Vertices

LEMMA Childs ==
  \A v, u : IsGraph => (u \in childs(v) <=> <<v, u>> \in edges)
BY DEF childs, IsGraph

LEMMA ChildsInGraph == IsGraph => \A v : childs(v) \subseteq 1..Len(type)
BY DEF childs, IsGraph

LEMMA Preds ==
  \A v, u : IsGraph => (u \in preds(v) <=> <<u, v>> \in edges)
BY DEF preds, IsGraph

\* parts(v) is what the stored edges lead to from the children of v.
LEMMA PartsClosure == IsGraph => \A v : Closure(stored, childs(v), parts(v))
<1> SUFFICES ASSUME IsGraph, NEW v
             PROVE  Closure(stored, childs(v), parts(v))
  OBVIOUS
<1> DEFINE n == Len(type)
           next(S) == S \cup UNION {childs(u) : u \in S \ of_cat("POINTER")}
           ball[i \in 0..n] == IF i = 0 THEN childs(v) ELSE next(ball[i - 1])
<1>1. n \in Nat /\ Vertices = 1..n
  BY DEF IsGraph
<1>2. childs(v) \subseteq 1..n /\ stored \subseteq (1..n) \X (1..n)
  BY <1>1 DEF IsGraph, stored, childs
<1>3. ASSUME NEW S \in SUBSET (1..n)
      PROVE  next(S) = S \cup Image(stored, S)
  <2>1. \A u \in S : u \notin of_cat("POINTER") <=> type[u].cat # "POINTER"
    BY <1>1 DEF of_cat
  <2>2. \A u, w : w \in childs(u) <=> <<u, w>> \in edges
    BY Childs
  <2>3. \A u, w : <<u, w>> \in stored <=> <<u, w>> \in edges /\ type[u].cat # "POINTER"
    BY DEF stored
  <2>4. \A w : w \in Image(stored, S) <=> \E u \in S : <<u, w>> \in stored
    BY <1>2, InImage
  <2>5. \A w : w \in next(S) <=> w \in S \/ \E u \in S \ of_cat("POINTER") : w \in childs(u)
    OBVIOUS
  <2> HIDE DEF next
  <2>6. \A w : w \in next(S) <=> w \in S \cup Image(stored, S)
    BY <2>1, <2>2, <2>3, <2>4, <2>5
  <2> QED
    BY <2>6
<1>4. parts(v) = ball[n]
  BY DEF parts
<1> HIDE DEF n, next
<1>5. PICK g \in [0..n -> SUBSET (1..n)] : Growing(n, stored, childs(v), g)
                                           /\ Closure(stored, childs(v), g[n])
  BY <1>1, <1>2, Balls
<1>6. g[0] = childs(v) /\ \A i \in 1..n : g[i] = next(g[i - 1])
  <2>1. \A i \in 1..n : g[i - 1] \in SUBSET (1..n)
    BY <1>1, <1>5
  <2> QED
    BY <1>3, <1>5, <2>1 DEF Growing
<1>7. g = [i \in 0..n |-> IF i = 0 THEN childs(v) ELSE next(g[i - 1])]
  BY <1>1, <1>5, <1>6
<1>8. ball = [i \in 0..n |-> IF i = 0 THEN childs(v) ELSE next(ball[i - 1])]
  BY <1>7
<1> HIDE DEF ball
<1>9. ball[0] = g[0] /\ \A i \in 1..n : ball[i - 1] = g[i - 1] => ball[i] = g[i]
  BY <1>1, <1>6, <1>8
<1>10. ball[n] = g[n]
  BY <1>1, <1>9, SameLast
<1> QED
  BY <1>4, <1>5, <1>10

\* above(v) is what leads to v.
LEMMA AboveClosure == IsGraph => \A v : Closure(backwards, preds(v), above(v))
<1> SUFFICES ASSUME IsGraph, NEW v
             PROVE  Closure(backwards, preds(v), above(v))
  OBVIOUS
<1> DEFINE n == Len(type)
           next(S) == S \cup UNION {preds(u) : u \in S}
           ball[i \in 0..n] == IF i = 0 THEN preds(v) ELSE next(ball[i - 1])
<1>1. n \in Nat /\ Vertices = 1..n
  BY DEF IsGraph
<1>2. preds(v) \subseteq 1..n /\ backwards \subseteq (1..n) \X (1..n)
  BY <1>1 DEF IsGraph, backwards, preds
<1>3. ASSUME NEW S \in SUBSET (1..n)
      PROVE  next(S) = S \cup Image(backwards, S)
  <2>1. \A u, w : w \in preds(u) <=> <<w, u>> \in edges
    BY Preds
  <2>2. \A u, w : <<u, w>> \in backwards <=> <<w, u>> \in edges
    BY DEF backwards, IsGraph
  <2>3. \A w : w \in Image(backwards, S) <=> \E u \in S : <<u, w>> \in backwards
    BY <1>2, InImage
  <2>4. \A w : w \in next(S) <=> w \in S \/ \E u \in S : w \in preds(u)
    OBVIOUS
  <2> HIDE DEF next
  <2>5. \A w : w \in next(S) <=> w \in S \cup Image(backwards, S)
    BY <2>1, <2>2, <2>3, <2>4
  <2> QED
    BY <2>5
<1>4. above(v) = ball[n]
  BY DEF above
<1> HIDE DEF n, next
<1>5. PICK g \in [0..n -> SUBSET (1..n)] : Growing(n, backwards, preds(v), g)
                                           /\ Closure(backwards, preds(v), g[n])
  BY <1>1, <1>2, Balls
<1>6. g[0] = preds(v) /\ \A i \in 1..n : g[i] = next(g[i - 1])
  <2>1. \A i \in 1..n : g[i - 1] \in SUBSET (1..n)
    BY <1>1, <1>5
  <2> QED
    BY <1>3, <1>5, <2>1 DEF Growing
<1>7. g = [i \in 0..n |-> IF i = 0 THEN preds(v) ELSE next(g[i - 1])]
  BY <1>1, <1>5, <1>6
<1>8. ball = [i \in 0..n |-> IF i = 0 THEN preds(v) ELSE next(ball[i - 1])]
  BY <1>7
<1> HIDE DEF ball
<1>9. ball[0] = g[0] /\ \A i \in 1..n : ball[i - 1] = g[i - 1] => ball[i] = g[i]
  BY <1>1, <1>6, <1>8
<1>10. ball[n] = g[n]
  BY <1>1, <1>9, SameLast
<1> QED
  BY <1>4, <1>5, <1>10

\* around(v) is what its predecessors, but for arrays, lead to without pointers.
LEMMA AroundClosure == IsGraph => \A v : Closure(open, preds(v) \ of_cat("ARRAY"), around(v))
<1> SUFFICES ASSUME IsGraph, NEW v
             PROVE  Closure(open, preds(v) \ of_cat("ARRAY"), around(v))
  OBVIOUS
<1> DEFINE n == Len(type)
           next(S) == S \cup ((UNION {childs(u) : u \in S}) \ of_cat("POINTER"))
           ball[i \in 0..n] == IF i = 0 THEN preds(v) \ of_cat("ARRAY") ELSE next(ball[i - 1])
<1>1. n \in Nat /\ Vertices = 1..n
  BY DEF IsGraph
<1>2. preds(v) \ of_cat("ARRAY") \subseteq 1..n /\ open \subseteq (1..n) \X (1..n)
  BY <1>1 DEF IsGraph, open, preds
<1>3. ASSUME NEW S \in SUBSET (1..n)
      PROVE  next(S) = S \cup Image(open, S)
  <2>1. \A w \in 1..n : w \notin of_cat("POINTER") <=> type[w].cat # "POINTER"
    BY <1>1 DEF of_cat
  <2>2. \A u, w : w \in childs(u) <=> <<u, w>> \in edges
    BY Childs
  <2>3. \A u, w : <<u, w>> \in open <=> <<u, w>> \in edges /\ type[w].cat # "POINTER"
    BY DEF open
  <2>4. \A w : w \in Image(open, S) <=> \E u \in S : <<u, w>> \in open
    BY <1>2, InImage
  <2>5. \A w : w \in next(S) <=> w \in S \/ (w \notin of_cat("POINTER") /\ \E u \in S : w \in childs(u))
    OBVIOUS
  <2>6. \A u, w : <<u, w>> \in edges => w \in 1..n
    BY <1>1 DEF IsGraph
  <2> HIDE DEF next
  <2>7. \A w : w \in next(S) <=> w \in S \cup Image(open, S)
    BY <2>1, <2>2, <2>3, <2>4, <2>5, <2>6
  <2> QED
    BY <2>7
<1>4. around(v) = ball[n]
  BY DEF around
<1> HIDE DEF n, next
<1>5. PICK g \in [0..n -> SUBSET (1..n)] : Growing(n, open, preds(v) \ of_cat("ARRAY"), g)
                                           /\ Closure(open, preds(v) \ of_cat("ARRAY"), g[n])
  BY <1>1, <1>2, Balls
<1>6. g[0] = preds(v) \ of_cat("ARRAY") /\ \A i \in 1..n : g[i] = next(g[i - 1])
  <2>1. \A i \in 1..n : g[i - 1] \in SUBSET (1..n)
    BY <1>1, <1>5
  <2> QED
    BY <1>3, <1>5, <2>1 DEF Growing
<1>7. g = [i \in 0..n |-> IF i = 0 THEN preds(v) \ of_cat("ARRAY") ELSE next(g[i - 1])]
  BY <1>1, <1>5, <1>6
<1>8. ball = [i \in 0..n |-> IF i = 0 THEN preds(v) \ of_cat("ARRAY") ELSE next(ball[i - 1])]
  BY <1>7
<1> HIDE DEF ball
<1>9. ball[0] = g[0] /\ \A i \in 1..n : ball[i - 1] = g[i - 1] => ball[i] = g[i]
  <2> DEFINE A == preds(v) \ of_cat("ARRAY")
  <2>1. ball = [i \in 0..n |-> IF i = 0 THEN A ELSE next(ball[i - 1])]
    BY <1>8
  <2>2. g[0] = A
    BY <1>6
  <2> HIDE DEF A
  <2>3. ball[0] = A /\ \A i \in 1..n : ball[i] = next(ball[i - 1])
    BY <1>1, <2>1
  <2> QED
    BY <1>6, <2>2, <2>3
<1>10. ball[n] = g[n]
  BY <1>1, <1>9, SameLast
<1> QED
  BY <1>4, <1>5, <1>10

\* reach(v, E) is what E leads to from v.
LEMMA ReachClosure ==
  \A E, v : IsGraph /\ E \subseteq Vertices \X Vertices /\ v \in Vertices =>
    Closure(E, {v}, reach(v, E))
<1> SUFFICES ASSUME IsGraph, NEW E, E \subseteq Vertices \X Vertices, NEW v \in Vertices
             PROVE  Closure(E, {v}, reach(v, E))
  OBVIOUS
<1> DEFINE n == Len(type)
           next(S) == S \cup {e[2] : e \in {x \in E : x[1] \in S}}
           ball[i \in 0..n] == IF i = 0 THEN {v} ELSE next(ball[i - 1])
<1>1. n \in Nat /\ Vertices = 1..n
  BY DEF IsGraph
<1>2. {v} \subseteq 1..n /\ E \subseteq (1..n) \X (1..n)
  BY <1>1
<1>3. ASSUME NEW S \in SUBSET (1..n)
      PROVE  next(S) = S \cup Image(E, S)
  BY DEF Image
<1>4. reach(v, E) = ball[n]
  BY DEF reach
<1> HIDE DEF n, next
<1>5. PICK g \in [0..n -> SUBSET (1..n)] : Growing(n, E, {v}, g)
                                           /\ Closure(E, {v}, g[n])
  BY <1>1, <1>2, Balls
<1>6. g[0] = {v} /\ \A i \in 1..n : g[i] = next(g[i - 1])
  <2>1. \A i \in 1..n : g[i - 1] \in SUBSET (1..n)
    BY <1>1, <1>5
  <2> QED
    BY <1>3, <1>5, <2>1 DEF Growing
<1>7. g = [i \in 0..n |-> IF i = 0 THEN {v} ELSE next(g[i - 1])]
  BY <1>1, <1>5, <1>6
<1>8. ball = [i \in 0..n |-> IF i = 0 THEN {v} ELSE next(ball[i - 1])]
  BY <1>7
<1> HIDE DEF ball
<1>9. ball[0] = g[0] /\ \A i \in 1..n : ball[i - 1] = g[i - 1] => ball[i] = g[i]
  <2> DEFINE A == {v}
  <2>1. ball = [i \in 0..n |-> IF i = 0 THEN A ELSE next(ball[i - 1])]
    BY <1>8
  <2>2. g[0] = A
    BY <1>6
  <2> HIDE DEF A
  <2>3. ball[0] = A /\ \A i \in 1..n : ball[i] = next(ball[i - 1])
    BY <1>1, <2>1
  <2> QED
    BY <1>6, <2>2, <2>3
<1>10. ball[n] = g[n]
  BY <1>1, <1>9, SameLast
<1> QED
  BY <1>4, <1>5, <1>10

\* The same of the next state.
LEMMA TypedGraphPrimed == (Typed => IsGraph)'
BY TypedGraph, PTL

LEMMA ChildsPrimed == (\A v, u : IsGraph => (u \in childs(v) <=> <<v, u>> \in edges))'
BY Childs, PTL

LEMMA PredsPrimed == (\A v, u : IsGraph => (u \in preds(v) <=> <<u, v>> \in edges))'
BY Preds, PTL

LEMMA AboveClosurePrimed == (IsGraph => \A v : Closure(backwards, preds(v), above(v)))'
BY AboveClosure, PTL

-----------------------------------------------------------------------------
(* Splits                                                                  *)

\* The categories of what there is.
LEMMA Cats ==
  /\ \A p \in create_scalar : p.cat \in {"SCALAR", "POINTER"} /\ p \in Kinds
  /\ \A c \in Containers : c.cat \in {"STRUCT", "ARRAY"} /\ (c = struct <=> c.cat = "STRUCT")
                           /\ c \in Kinds
  /\ \A s : scalar(s).cat = "SCALAR"
  /\ \A n : array(n).cat = "ARRAY"
  /\ pointer.cat = "POINTER" /\ struct.cat = "STRUCT"
  /\ \A p \in Kinds : p.cat \in {"SCALAR", "POINTER", "STRUCT", "ARRAY"}
BY DEF create_scalar, Containers, Kinds, scalar, array, pointer, struct, vprop

\* The places of the types of category cat in a sequence.
LEMMA Fresh ==
  ASSUME NEW n \in Nat, NEW S, NEW ts \in Seq(S), NEW cat, NEW u
  PROVE  u \in fresh(n, ts, cat) <=> u \in (n + 1)..(n + Len(ts)) /\ ts[u - n].cat = cat
<1>1. DOMAIN ts = 1..Len(ts) /\ Len(ts) \in Nat
  OBVIOUS
<1>2. ASSUME u \in fresh(n, ts, cat)
      PROVE  u \in (n + 1)..(n + Len(ts)) /\ ts[u - n].cat = cat
  <2>1. PICK i \in DOMAIN ts : u = n + i /\ ts[i].cat = cat
    BY <1>2 DEF fresh
  <2>2. u - n = i /\ u \in (n + 1)..(n + Len(ts))
    BY <1>1, <2>1
  <2> QED
    BY <2>1, <2>2
<1>3. ASSUME u \in (n + 1)..(n + Len(ts)), ts[u - n].cat = cat
      PROVE  u \in fresh(n, ts, cat)
  <2>1. u - n \in DOMAIN ts /\ u = n + (u - n)
    BY <1>1, <1>3
  <2> QED
    BY <1>3, <2>1 DEF fresh
<1> QED
  BY <1>2, <1>3

\* Two sequences, one behind the other.
LEMMA Concat ==
  ASSUME NEW S, NEW a \in Seq(S), NEW b \in Seq(S)
  PROVE  /\ a \o b \in Seq(S) /\ Len(a \o b) = Len(a) + Len(b)
         /\ DOMAIN (a \o b) = 1..(Len(a) + Len(b))
         /\ \A i \in 1..Len(a) : (a \o b)[i] = a[i]
         /\ \A i \in (Len(a) + 1)..(Len(a) + Len(b)) : (a \o b)[i] = b[i - Len(a)]
OBVIOUS

\* The vertex v became the container c, with k new children, the first of m new
\* vertices.
Split(v, c, k, m) ==
  LET n == Len(type)
  IN  /\ v \in leafs /\ c \in Containers /\ type[v].cat = "SCALAR" /\ k \in Nat /\ m \in Nat /\ k <= m
      /\ c # struct => k = 1
      /\ ~more => m = k
      /\ Vertices' = 1..(n + m) /\ Len(type') = n + m /\ type' \in Seq(Kinds)
      /\ \A u \in Vertices \ {v} : type'[u] = type[u]
      /\ type'[v] = c
      /\ \A u \in (n + 1)..(n + m) : type'[u] \in create_scalar
      /\ edges' = edges \cup {<<v, n + i>> : i \in 1..k}
      /\ \A u : u \in leafs' <=> \/ u \in leafs \ {v}
                                 \/ u \in (n + 1)..(n + m) /\ type'[u].cat = "SCALAR"
                                 \/ u \in (n + k + 1)..(n + m)
      /\ \A u : u \in pointers' <=> \/ u \in pointers
                                    \/ u \in (n + 1)..(n + m) /\ type'[u].cat = "POINTER"
      /\ structs' = IF c = struct THEN structs \cup {v} ELSE structs
      /\ arrays' = IF c = struct THEN arrays ELSE arrays \cup {v}

LEMMA SplitGraph ==
  ASSUME Typed, NEW v \in leafs, NEW c \in Containers, type[v].cat = "SCALAR",
         NEW k \in Nat, c # struct => k = 1, NEW ks \in [1..k -> create_scalar],
         NEW extra \in Seq(create_scalar), ~more => extra = <<>>, split_at(v, c, ks, extra)
  PROVE  Split(v, c, k, k + Len(extra))
<1> DEFINE n == Len(type)
           new == ks \o extra
           m == k + Len(extra)
<1>1. ks \in Seq(create_scalar) /\ Len(ks) = k /\ DOMAIN ks = 1..k
  OBVIOUS
<1>2. new \in Seq(create_scalar) /\ Len(new) = m /\ Len(extra) \in Nat
  BY <1>1
<1>3. n \in Nat /\ Vertices = 1..n /\ v \in 1..n /\ type \in Seq(Kinds)
  BY DEF Typed, Vertices
<1> DEFINE old == [type EXCEPT ![v] = c]
<1>4. old \in Seq(Kinds) /\ Len(old) = n /\ old[v] = c /\ \A u \in 1..n : u # v => old[u] = type[u]
  BY <1>3, Cats
<1>5. type' = old \o new /\ edges' = edges \cup {<<v, n + i>> : i \in 1..k}
  BY <1>1 DEF split_at
<1>6. /\ leafs' = (leafs \ {v}) \cup fresh(n, new, "SCALAR") \cup ((n + k + 1)..(n + m))
      /\ pointers' = pointers \cup fresh(n, new, "POINTER")
      /\ structs' = IF c = struct THEN structs \cup {v} ELSE structs
      /\ arrays' = IF c = struct THEN arrays ELSE arrays \cup {v}
  BY <1>1, <1>2 DEF split_at
<1> HIDE DEF old, new
<1>7. new \in Seq(Kinds)
  BY <1>2, Cats
<1>8. /\ type' \in Seq(Kinds) /\ Len(type') = n + m /\ DOMAIN type' = 1..(n + m)
      /\ \A u \in 1..n : type'[u] = old[u]
      /\ \A u \in (n + 1)..(n + m) : type'[u] = new[u - n]
  <2> HIDE DEF n, m
  <2>1. Len(old) = n /\ Len(new) = m /\ old \in Seq(Kinds) /\ type' = old \o new
    BY <1>2, <1>4, <1>5
  <2>2. /\ old \o new \in Seq(Kinds) /\ Len(old \o new) = Len(old) + Len(new)
        /\ DOMAIN (old \o new) = 1..(Len(old) + Len(new))
        /\ \A i \in 1..Len(old) : (old \o new)[i] = old[i]
        /\ \A i \in (Len(old) + 1)..(Len(old) + Len(new)) : (old \o new)[i] = new[i - Len(old)]
    BY <1>7, <2>1, Concat
  <2> QED
    BY <2>1, <2>2
<1>9. \A u \in (n + 1)..(n + m) : u - n \in 1..Len(new)
  BY <1>2, <1>3
<1>10. \A u \in (n + 1)..(n + m) : type'[u] \in create_scalar
  BY <1>2, <1>8, <1>9
<1>11. ASSUME NEW u, NEW cat
       PROVE  u \in fresh(n, new, cat) <=> u \in (n + 1)..(n + m) /\ type'[u].cat = cat
  <2> HIDE DEF n, m
  <2>1. u \in fresh(n, new, cat) <=> u \in (n + 1)..(n + m) /\ new[u - n].cat = cat
    BY <1>2, <1>3, Fresh
  <2> QED
    BY <1>8, <2>1
<1>12. \A u : u \in leafs' <=> \/ u \in leafs \ {v}
                               \/ u \in (n + 1)..(n + m) /\ type'[u].cat = "SCALAR"
                               \/ u \in (n + k + 1)..(n + m)
  BY <1>6, <1>11
<1>13. \A u : u \in pointers' <=> \/ u \in pointers
                                  \/ u \in (n + 1)..(n + m) /\ type'[u].cat = "POINTER"
  BY <1>6, <1>11
<1>14. k <= m /\ m \in Nat /\ (~more => m = k)
  BY <1>2
<1>15. Vertices' = 1..(n + m) /\ type'[v] = c /\ \A u \in Vertices \ {v} : type'[u] = type[u]
  BY <1>3, <1>4, <1>8 DEF Vertices
<1> HIDE DEF n, m
<1>16. Split(v, c, k, m)
  BY <1>5, <1>6, <1>8, <1>10, <1>12, <1>13, <1>14, <1>15 DEF Split, n
<1> QED
  BY <1>16 DEF m

\* do_split is such a split of a scalar that is not too deep.
LEMMA SplitParts ==
  ASSUME Typed, do_split
  PROVE  /\ phase = "split" /\ phase' = "split" /\ todo' = todo /\ more' = more
         /\ nsplits' \in Nat /\ idxs' = idxs /\ perms' = perms
         /\ \E v \in leafs, c \in Containers : \E k \in Nat, m \in Nat :
              may_split(v) /\ Split(v, c, k, m)
<1>1. PICK v \in leafs, c \in Containers :
        /\ type[v].cat = "SCALAR" /\ may_split(v)
        /\ \E k \in nchilds(c) : \E ks \in [1..k -> create_scalar] :
             IF more THEN \E t \in create_scalar : split_at(v, c, ks, <<t>>)
                     ELSE split_at(v, c, ks, <<>>)
  BY DEF do_split
<1>2. PICK k \in nchilds(c) : \E ks \in [1..k -> create_scalar] :
        IF more THEN \E t \in create_scalar : split_at(v, c, ks, <<t>>)
                ELSE split_at(v, c, ks, <<>>)
  BY <1>1
<1>3. k \in Nat /\ (c # struct => k = 1)
  BY OptionsAssumption DEF nchilds
<1>4. PICK ks \in [1..k -> create_scalar] :
        IF more THEN \E t \in create_scalar : split_at(v, c, ks, <<t>>)
                ELSE split_at(v, c, ks, <<>>)
  BY <1>2
<1>5. \E extra \in Seq(create_scalar) : (~more => extra = <<>>) /\ split_at(v, c, ks, extra)
  <2>1. CASE more
    <3>1. PICK t \in create_scalar : split_at(v, c, ks, <<t>>)
      BY <1>4, <2>1
    <3>2. <<t>> \in Seq(create_scalar)
      OBVIOUS
    <3> QED
      BY <2>1, <3>1, <3>2
  <2>2. CASE ~more
    <3>1. <<>> \in Seq(create_scalar)
      OBVIOUS
    <3> QED
      BY <1>4, <2>2, <3>1
  <2> QED
    BY <2>1, <2>2
<1>6. PICK extra \in Seq(create_scalar) : (~more => extra = <<>>) /\ split_at(v, c, ks, extra)
  BY <1>5
<1>7. Split(v, c, k, k + Len(extra))
  BY <1>1, <1>3, <1>6, SplitGraph
<1>8. k + Len(extra) \in Nat
  BY <1>3, <1>6
<1>9. nsplits' \in Nat
  BY DEF Typed, do_split
<1> QED
  BY <1>1, <1>3, <1>7, <1>8, <1>9 DEF do_split, chosen

\* The invariant, but for what it says of nesting.
Core == Typed /\ SetsTracked /\ Directed /\ Unshared /\ Sons /\ Chosen

\* Membership of the support sets.
LEMMA Tracked ==
  ASSUME SetsTracked, NEW u
  PROVE  /\ u \in structs <=> u \in Vertices /\ type[u].cat = "STRUCT"
         /\ u \in arrays <=> u \in Vertices /\ type[u].cat = "ARRAY"
         /\ u \in pointers <=> u \in Vertices /\ type[u].cat = "POINTER"
         /\ u \in leafs \ pointers <=> u \in Vertices /\ type[u].cat = "SCALAR"
BY DEF SetsTracked, of_cat

\* What a split does to the vertices and edges that are there, and what it adds.
LEMMA SplitAdds ==
  ASSUME Core, phase = "split", NEW v, NEW c, NEW k, NEW m, Split(v, c, k, m)
  PROVE  /\ v \in Vertices /\ c.cat \in {"STRUCT", "ARRAY"} /\ c \in Kinds
         /\ Len(type) \in Nat /\ Vertices = 1..Len(type) /\ Vertices \subseteq Vertices'
         /\ \A u : u \in Vertices' <=> u \in Vertices \/ u \in (Len(type) + 1)..(Len(type) + m)
         /\ \A u \in Vertices' \ Vertices : type'[u].cat \in {"SCALAR", "POINTER"}
         /\ \A e \in edges : e[1] # v /\ e[1] \in Vertices /\ e[2] \in Vertices /\ e[1] < e[2]
         /\ \A e : e \in edges' <=>
              e \in edges \/ \E i \in 1..k : e = <<v, Len(type) + i>>
         /\ \A i \in 1..k : Len(type) + i \in Vertices' \ Vertices /\ v < Len(type) + i
         /\ \A u \in Vertices : u # v => type'[u] = type[u]
         /\ type'[v] = c /\ type[v].cat = "SCALAR"
<1>1. Len(type) \in Nat /\ Vertices = 1..Len(type) /\ v \in Vertices
  BY DEF Core, Typed, Vertices, Split
<1>2. c.cat \in {"STRUCT", "ARRAY"} /\ c \in Kinds
  BY Cats DEF Split
<1>3. k \in Nat /\ m \in Nat /\ k <= m /\ Vertices' = 1..(Len(type) + m)
  BY DEF Split
<1>4. \A u : u \in Vertices' <=> u \in Vertices \/ u \in (Len(type) + 1)..(Len(type) + m)
  BY <1>1, <1>3
<1>5. \A u \in Vertices' \ Vertices : type'[u].cat \in {"SCALAR", "POINTER"}
  BY <1>4, Cats DEF Split
<1>6. \A e \in edges : e[1] # v /\ e[1] \in Vertices /\ e[2] \in Vertices /\ e[1] < e[2]
  BY DEF Core, Typed, Directed, Split
<1>7. \A e : e \in edges' <=> e \in edges \/ \E i \in 1..k : e = <<v, Len(type) + i>>
  BY DEF Split
<1>8. \A i \in 1..k : Len(type) + i \in Vertices' \ Vertices /\ v < Len(type) + i
  BY <1>1, <1>3
<1> QED
  BY <1>1, <1>2, <1>4, <1>5, <1>6, <1>7, <1>8 DEF Split

\* A split keeps it.
LEMMA SplitCore ==
  ASSUME Core, do_split
  PROVE  Core'
<1>1. /\ phase = "split" /\ phase' = "split" /\ todo' = todo /\ more' = more /\ nsplits' \in Nat
      /\ \E v \in leafs, c \in Containers : \E k \in Nat, m \in Nat :
           may_split(v) /\ Split(v, c, k, m)
  BY SplitParts DEF Core
<1>2. PICK v \in leafs, c \in Containers : \E k \in Nat, m \in Nat : Split(v, c, k, m)
  BY <1>1
<1>3. PICK k \in Nat, m \in Nat : Split(v, c, k, m)
  BY <1>2
<1> DEFINE n == Len(type)
<1>4. /\ v \in Vertices /\ c.cat \in {"STRUCT", "ARRAY"} /\ c \in Kinds
      /\ n \in Nat /\ Vertices = 1..n /\ Vertices \subseteq Vertices'
      /\ \A u : u \in Vertices' <=> u \in Vertices \/ u \in (n + 1)..(n + m)
      /\ \A u \in Vertices' \ Vertices : type'[u].cat \in {"SCALAR", "POINTER"}
      /\ \A e \in edges : e[1] # v /\ e[1] \in Vertices /\ e[2] \in Vertices /\ e[1] < e[2]
      /\ \A e : e \in edges' <=> e \in edges \/ \E i \in 1..k : e = <<v, n + i>>
      /\ \A i \in 1..k : n + i \in Vertices' \ Vertices /\ v < n + i
      /\ \A u \in Vertices : u # v => type'[u] = type[u]
      /\ type'[v] = c /\ type[v].cat = "SCALAR"
  BY <1>1, <1>3, SplitAdds
<1> HIDE DEF n
<1>5. /\ \A u \in Vertices' \ Vertices : u \in (n + 1)..(n + m)
      /\ \A u \in (n + 1)..(n + m) : u \in Vertices' \ Vertices
  BY <1>4
<1>6. SetsTracked'
  <2>1. ASSUME NEW u
        PROVE  /\ u \in structs' <=> u \in Vertices' /\ type'[u].cat = "STRUCT"
               /\ u \in arrays' <=> u \in Vertices' /\ type'[u].cat = "ARRAY"
               /\ u \in pointers' <=> u \in Vertices' /\ type'[u].cat = "POINTER"
               /\ u \in leafs' \ pointers' <=> u \in Vertices' /\ type'[u].cat = "SCALAR"
    <3>1. /\ u \in structs <=> u \in Vertices /\ type[u].cat = "STRUCT"
          /\ u \in arrays <=> u \in Vertices /\ type[u].cat = "ARRAY"
          /\ u \in pointers <=> u \in Vertices /\ type[u].cat = "POINTER"
          /\ u \in leafs \ pointers <=> u \in Vertices /\ type[u].cat = "SCALAR"
      BY Tracked DEF Core
    <3>2. /\ u \in structs' <=> u \in structs \/ (u = v /\ c.cat = "STRUCT")
          /\ u \in arrays' <=> u \in arrays \/ (u = v /\ c.cat = "ARRAY")
      BY <1>3, <1>4, Cats DEF Split
    <3>3. /\ u \in pointers' <=> u \in pointers \/ (u \in Vertices' \ Vertices /\ type'[u].cat = "POINTER")
          /\ u \in leafs' => u \in leafs \ {v} \/ u \in Vertices' \ Vertices
          /\ u \in leafs \ {v} => u \in leafs'
          /\ u \in Vertices' \ Vertices /\ type'[u].cat = "SCALAR" => u \in leafs'
      <4>1. /\ u \in leafs' <=> \/ u \in leafs \ {v}
                                \/ u \in (n + 1)..(n + m) /\ type'[u].cat = "SCALAR"
                                \/ u \in (n + k + 1)..(n + m)
            /\ u \in pointers' <=> \/ u \in pointers
                                   \/ u \in (n + 1)..(n + m) /\ type'[u].cat = "POINTER"
        BY <1>3 DEF Split, n
      <4>2. u \in (n + k + 1)..(n + m) => u \in (n + 1)..(n + m)
        BY <1>4
      <4> QED
        BY <1>5, <4>1, <4>2
    <3>4. u \in leafs => u \in Vertices
      BY DEF Core, Typed
    <3>5. CASE u = v
      BY <1>4, <3>1, <3>2, <3>3, <3>5
    <3>6. CASE u \in Vertices \ {v}
      BY <1>4, <3>1, <3>2, <3>3, <3>6
    <3>7. CASE u \in Vertices' \ Vertices
      BY <1>4, <3>1, <3>2, <3>3, <3>4, <3>7
    <3>8. CASE u \notin Vertices'
      BY <1>4, <3>1, <3>2, <3>3, <3>4, <3>8
    <3> QED
      BY <3>5, <3>6, <3>7, <3>8
  <2>2. /\ structs' = of_cat("STRUCT")' /\ arrays' = of_cat("ARRAY")'
        /\ pointers' = of_cat("POINTER")' /\ leafs' \ pointers' = of_cat("SCALAR")'
    BY <2>1 DEF of_cat
  <2>3. ASSUME ~more'
        PROVE  leafs' \cap pointers' = {}
    <3> SUFFICES ASSUME NEW u \in leafs', u \in pointers' PROVE FALSE
      OBVIOUS
    <3>1. /\ u \in leafs \ {v} \/ (u \in (n + 1)..(n + m) /\ type'[u].cat = "SCALAR")
          /\ u \in pointers => u \in Vertices
      <4>1. (n + k + 1)..(n + m) = {}
        BY <1>1, <1>3, <1>4, <2>3 DEF Split, n
      <4> QED
        BY <1>3, <4>1, Tracked DEF Split, n, Core
    <3>2. u \in pointers \/ (u \in (n + 1)..(n + m) /\ type'[u].cat = "POINTER")
      BY <1>3 DEF Split, n
    <3>3. leafs \cap pointers = {} /\ leafs \subseteq Vertices
      BY <1>1, <2>3 DEF Core, SetsTracked, Typed
    <3> QED
      BY <1>5, <3>1, <3>2, <3>3
  <2> QED
    BY <1>1, <2>2, <2>3 DEF SetsTracked
<1>7. Typed'
  <2>1. edges' \subseteq Vertices' \X Vertices'
    <3> SUFFICES ASSUME NEW e \in edges' PROVE e \in Vertices' \X Vertices'
      OBVIOUS
    <3>1. CASE e \in edges
      BY <1>4, <3>1 DEF Core, Typed
    <3>2. CASE \E i \in 1..k : e = <<v, n + i>>
      <4>1. PICK i \in 1..k : e = <<v, n + i>>
        BY <3>2
      <4>2. v \in Vertices' /\ n + i \in Vertices'
        BY <1>4
      <4> QED
        BY <4>1, <4>2
    <3> QED
      BY <1>4, <3>1, <3>2
  <2>2. leafs' \subseteq Vertices'
    <3> SUFFICES ASSUME NEW u \in leafs' PROVE u \in Vertices'
      OBVIOUS
    <3>1. u \in leafs \/ u \in (n + 1)..(n + m)
      <4>1. u \in (n + k + 1)..(n + m) => u \in (n + 1)..(n + m)
        BY <1>4
      <4> QED
        BY <1>3, <4>1 DEF Split, n
    <3> QED
      BY <1>4, <3>1 DEF Core, Typed
  <2>3. type' \in Seq(Kinds) /\ Kinds' = Kinds
    BY <1>3 DEF Split
  <2> QED
    BY <1>1, <2>1, <2>2, <2>3 DEF Core, Typed
<1>8. ASSUME NEW u
      PROVE  u \in pointers' /\ u \in Vertices => u \in pointers
  BY <1>3, <1>4, <1>5 DEF Split, n
<1>9. Directed'
  <2> SUFFICES ASSUME NEW e \in edges'
               PROVE  /\ type'[e[1]].cat # "SCALAR"
                      /\ e[1] \notin pointers'
                      /\ e[1] < e[2]
    BY <1>1 DEF Directed
  <2>1. CASE e \in edges
    <3>1. type[e[1]].cat # "SCALAR" /\ e[1] \notin pointers
      BY <1>1, <2>1 DEF Core, Directed
    <3> QED
      BY <1>4, <1>8, <2>1, <3>1
  <2>2. CASE \E i \in 1..k : e = <<v, n + i>>
    <3>1. e[1] = v /\ e[1] < e[2]
      BY <1>4, <2>2
    <3>2. v \notin pointers
      BY <1>4, Tracked DEF Core
    <3> QED
      BY <1>4, <1>8, <3>1, <3>2
  <2> QED
    BY <1>4, <2>1, <2>2
<1>10. Unshared'
  <2> SUFFICES ASSUME NEW e \in edges', NEW f \in edges', e[2] = f[2]
               PROVE  e = f
    BY <1>1 DEF Unshared
  <2>1. \A g \in edges' : g \in edges \/ (g[1] = v /\ g = <<g[1], g[2]>> /\ g[2] \notin Vertices)
    BY <1>4
  <2>2. \A g \in edges : g[2] \in Vertices
    BY <1>4
  <2>3. \A g \in edges, h \in edges : g[2] = h[2] => g = h
    BY <1>1 DEF Core, Unshared
  <2> QED
    BY <2>1, <2>2, <2>3
<1>11. Sons'
  <2> SUFFICES ASSUME NEW w \in arrays'
               PROVE  \E u \in Vertices' : childs(w)' = {u}
    BY <1>1 DEF Sons
  <2>1. CASE w = v
    <3>1. k = 1
      <4>1. v \notin arrays
        BY <1>4, Tracked DEF Core
      <4> QED
        BY <1>3, <2>1, <4>1 DEF Split
    <3>2. \A e : e \in edges' /\ e[1] = v <=> e = <<v, n + 1>>
      BY <1>4, <3>1
    <3>3. \A u : u \in childs(w)' <=> <<w, u>> \in edges'
      BY <1>7, TypedGraphPrimed, ChildsPrimed
    <3>4. \A u : <<v, u>> \in edges' <=> u = n + 1
      BY <3>2
    <3>5. childs(w)' = {n + 1}
      BY <2>1, <3>3, <3>4
    <3> QED
      BY <1>4, <3>1, <3>5
  <2>2. CASE w # v
    <3>1. w \in arrays
      BY <1>3, <2>2 DEF Split
    <3>2. \A e : e \in edges' /\ e[1] = w <=> e \in edges /\ e[1] = w
      BY <1>4, <2>2
    <3>3. childs(w)' = childs(w)
      BY <3>2 DEF childs
    <3> QED
      BY <1>4, <3>1, <3>3 DEF Core, Sons
  <2> QED
    BY <2>1, <2>2
<1>12. Chosen'
  BY <1>1 DEF Chosen
<1> QED
  BY <1>6, <1>7, <1>9, <1>10, <1>11, <1>12 DEF Core

-----------------------------------------------------------------------------
(* Seeds, and steps that leave the graph alone                             *)

\* Seeds are scalars and pointers.
LEMMA SeedCore ==
  ASSUME Core, seed
  PROVE  Core' /\ phase' = "split" /\ structs' = {} /\ arrays' = {} /\ edges' = {}
<1>1. /\ phase = "seed" /\ phase' = "split" /\ todo' = {} /\ more' = more /\ nsplits' \in Nat
      /\ edges' = edges /\ structs' = structs /\ arrays' = arrays
  BY DEF Core, Typed, seed
<1>2. Vertices = {} /\ edges = {}
  BY <1>1 DEF Core, Typed, Vertices
<1>3. structs = {} /\ arrays = {}
  BY <1>2 DEF Core, SetsTracked, of_cat
<1>4. PICK n \in Seeds : type' \in [1..n -> create_scalar]
  BY DEF seed
<1>5. n \in Nat /\ type' \in Seq(create_scalar) /\ Len(type') = n
  BY <1>4, OptionsAssumption
<1>6. type' \in Seq(Kinds) /\ Kinds' = Kinds /\ Vertices' = 1..n
  BY <1>4, <1>5, Cats DEF Vertices
<1>7. leafs' = fresh(0, type', "SCALAR") /\ pointers' = fresh(0, type', "POINTER")
  BY DEF seed
<1>8. ASSUME NEW u
      PROVE  /\ u \in leafs' <=> u \in 1..n /\ type'[u].cat = "SCALAR"
             /\ u \in pointers' <=> u \in 1..n /\ type'[u].cat = "POINTER"
  <2>1. \A cat : u \in fresh(0, type', cat) <=> u \in 1..n /\ type'[u - 0].cat = cat
    <3>1. 0 \in Nat /\ (0 + 1)..(0 + Len(type')) = 1..n
      BY <1>5
    <3> QED
      BY <1>5, <3>1, Fresh
  <2>2. u \in 1..n => u - 0 = u
    BY <1>5
  <2> QED
    BY <1>7, <2>1, <2>2
<1>9. \A u \in 1..n : type'[u].cat \in {"SCALAR", "POINTER"}
  BY <1>4, Cats
<1>10. SetsTracked'
  <2>1. /\ structs' = of_cat("STRUCT")' /\ arrays' = of_cat("ARRAY")'
        /\ pointers' = of_cat("POINTER")' /\ leafs' \ pointers' = of_cat("SCALAR")'
    BY <1>1, <1>3, <1>6, <1>8, <1>9 DEF of_cat
  <2>2. leafs' \cap pointers' = {}
    BY <1>8
  <2> QED
    BY <1>1, <2>1, <2>2 DEF SetsTracked
<1>11. Typed'
  BY <1>1, <1>2, <1>6, <1>8 DEF Core, Typed
<1>12. Directed' /\ Unshared' /\ Sons' /\ Chosen'
  BY <1>1, <1>2, <1>3 DEF Directed, Unshared, Sons, Chosen
<1> QED
  BY <1>1, <1>2, <1>3, <1>10, <1>11, <1>12 DEF Core

\* The phases may go on, and the draws fail, without a change to the graph.
SamePhases ==
  \/ phase' = phase
  \/ phase = "split" /\ phase' = "structs"
  \/ phase = "pointers" /\ todo = {} /\ phase' = "bitfields"
  \/ phase = "bitfields" /\ phase' = "perms"
  \/ phase # "seed" /\ phase' = "fault" /\ (~more => leafs = {})

Quiet == SamePhases /\ nsplits' \in Nat /\ UNCHANGED <<todo, more, type, edges, sets, idxs, perms>>

LEMMA QuietCore ==
  ASSUME Core, Quiet
  PROVE  Core'
<1> USE DEF Quiet, SamePhases, sets
<1>1. Vertices' = Vertices /\ pointers' = pointers /\ arrays' = arrays /\ todo' = todo
  BY DEF Vertices
<1>2. Typed'
  BY <1>1 DEF Core, Typed, Kinds
<1>3. SetsTracked'
  BY <1>1 DEF Core, SetsTracked, of_cat, Vertices
<1>4. Directed'
  BY <1>1 DEF Core, Typed, Directed
<1>5. Unshared'
  BY <1>1 DEF Core, Unshared
<1>6. \A v : childs(v)' = childs(v)
  BY DEF childs
<1>7. Sons'
  BY <1>1, <1>6 DEF Core, Sons
<1>8. Chosen'
  BY <1>1, <1>6 DEF Core, Chosen
<1> QED
  BY <1>2, <1>3, <1>4, <1>5, <1>7, <1>8 DEF Core

LEMMA QuietSteps ==
  ASSUME Core,
         \/ split_in_vain \/ split_fault \/ splits_done \/ pointer_fault \/ pointers_done
         \/ create_bitfields \/ perms_fault \/ UNCHANGED vars
  PROVE  Quiet
<1>1. nsplits \in Nat
  BY DEF Core, Typed
<1>2. CASE split_in_vain
  BY <1>1, <1>2 DEF split_in_vain, Quiet, SamePhases, sets, chosen
<1>3. CASE split_fault
  <2>1. ~more => leafs = {}
    <3>1. ~more => leafs = of_cat("SCALAR")
      BY DEF Core, SetsTracked
    <3> QED
      BY <1>3, <3>1 DEF split_fault, of_cat
  <2> QED
    BY <1>1, <1>3, <2>1 DEF split_fault, Quiet, SamePhases, sets, chosen
<1>4. CASE splits_done
  BY <1>1, <1>4 DEF splits_done, Quiet, SamePhases, sets, chosen
<1>5. CASE pointer_fault
  BY <1>1, <1>5 DEF pointer_fault, pointset, Quiet, SamePhases, sets, chosen
<1>6. CASE pointers_done
  BY <1>1, <1>6 DEF pointers_done, Quiet, SamePhases, sets, chosen
<1>7. CASE create_bitfields
  BY <1>1, <1>7 DEF create_bitfields, Quiet, SamePhases, sets, chosen
<1>8. CASE perms_fault
  <2>1. ~more => leafs = of_cat("SCALAR")
    BY DEF Core, SetsTracked
  <2>2. more
    BY <1>8, <2>1 DEF perms_fault, of_cat
  <2> QED
    BY <1>1, <1>8, <2>2 DEF perms_fault, Quiet, SamePhases, sets, chosen
<1>9. CASE UNCHANGED vars
  BY <1>1, <1>9 DEF vars, Quiet, SamePhases, sets, chosen
<1> QED
  BY <1>2, <1>3, <1>4, <1>5, <1>6, <1>7, <1>8, <1>9

-----------------------------------------------------------------------------
(* Pointers                                                                *)

LEMMA MinOf ==
  ASSUME NEW S, S \subseteq Nat, S # {}
  PROVE  Min(S) \in S /\ \A k \in S : Min(S) <= k
<1>1. \E m \in S : \A k \in S : m <= k
  BY Least
<1> QED
  BY <1>1 DEF Min

LEMMA MaxOf ==
  ASSUME NEW S, NEW n \in Nat, S \subseteq 0..n, S # {}
  PROVE  Max(S) \in S /\ \A k \in S : k <= Max(S)
<1>1. \E m \in S : \A k \in S : m >= k
  <2>1. S \subseteq Nat /\ \A k \in S : k <= n
    OBVIOUS
  <2> QED
    BY <2>1, Greatest
<1>2. \A m, k \in S : m >= k <=> k <= m
  OBVIOUS
<1> QED
  BY <1>1, <1>2 DEF Max

\* What a pointer may come to point to: no pointer, unless TG::MORESCALARS.
LEMMA Pointees ==
  ASSUME Core, phase = "pointers", NEW p \in todo, NEW u \in pointset(p)
  PROVE  u \in Vertices /\ (~more => u \notin pointers)
<1> DEFINE X == {w \in Vertices : ~more => w \notin pointers}
<1>1. IsGraph
  BY TypedGraph DEF Core
<1>2. p \in pointers
  BY DEF Core, Typed
<1>3. preds(p) \ of_cat("ARRAY") \subseteq X
  <2> SUFFICES ASSUME NEW q \in preds(p) PROVE q \in X
    OBVIOUS
  <2>1. <<q, p>> \in edges /\ q \in Vertices
    BY <1>1, Preds DEF IsGraph
  <2>2. ASSUME ~more, q \in pointers
        PROVE  FALSE
    <3>1. q \in pointers \ todo
      BY <2>1, <2>2 DEF Core, Directed
    <3>2. p \in childs(q)
      BY <1>1, <2>1, Childs
    <3> QED
      BY <1>2, <2>2, <3>1, <3>2 DEF Core, Sons
  <2> QED
    BY <2>1, <2>2
<1>4. Closed(open, X)
  <2> SUFFICES ASSUME NEW e \in open PROVE e[2] \in X
    BY DEF Closed
  <2>1. e[2] \in Vertices /\ type[e[2]].cat # "POINTER"
    BY <1>1 DEF open, IsGraph
  <2> QED
    BY <2>1, Tracked DEF Core
<1>5. around(p) \subseteq X
  <2>1. Closure(open, preds(p) \ of_cat("ARRAY"), around(p))
    BY <1>1, AroundClosure
  <2> HIDE DEF X
  <2> QED
    BY <1>3, <1>4, <2>1 DEF Closure
<1>6. leafs \subseteq X
  BY DEF Core, Typed, SetsTracked
<1>7. structs \subseteq X
  BY Tracked DEF Core
<1> QED
  BY <1>5, <1>6, <1>7 DEF pointset

\* Processing a pointer gives it its one child.
LEMMA PointerCore ==
  ASSUME Core, process_pointer
  PROVE  Core'
<1>0. phase = "pointers" /\ todo # {}
  BY DEF process_pointer
<1>2. PICK p \in todo : p = Min(todo)
  <2>1. todo \subseteq Nat
    BY DEF Core, Typed, SetsTracked, of_cat, Vertices
  <2> QED
    BY <1>0, <2>1, MinOf
<1>1. /\ phase = "pointers" /\ phase' = phase /\ todo # {} /\ todo' = todo \ {p}
      /\ nsplits' = nsplits /\ more' = more /\ type' = type /\ leafs' = leafs
      /\ structs' = structs /\ arrays' = arrays /\ pointers' = pointers
      /\ idxs' = idxs /\ perms' = perms /\ Vertices' = Vertices
  BY <1>2 DEF process_pointer, sets, chosen, Vertices
<1>3. PICK u \in pointset(p) : edges' = edges \cup {<<p, u>>}
  BY <1>2 DEF process_pointer
<1>4. u \in Vertices /\ (~more => u \notin pointers)
  BY <1>1, <1>2, Pointees
<1>5. p \in pointers /\ p \in Vertices /\ type[p].cat = "POINTER"
  BY <1>2, Tracked DEF Core, Typed
<1>6. Typed'
  BY <1>1, <1>3, <1>4, <1>5 DEF Core, Typed, Kinds
<1>7. SetsTracked'
  BY <1>1 DEF Core, SetsTracked, of_cat, Vertices
<1>8. Directed'
  BY <1>1, <1>3, <1>5 DEF Core, Directed
<1>9. Unshared' /\ Chosen'
  BY <1>1 DEF Unshared, Chosen
<1>10. IsGraph /\ IsGraph'
  BY <1>6, TypedGraph, TypedGraphPrimed DEF Core
<1>11. \A w : w # p => childs(w)' = childs(w)
  <2> TAKE w
  <2>1. ASSUME w # p, NEW x
        PROVE  x \in childs(w)' <=> x \in childs(w)
    BY <1>3, <1>10, <2>1, Childs, ChildsPrimed
  <2> QED
    BY <2>1
<1>12. childs(p)' = {u}
  <2>1. \A x : x \in childs(p)' <=> <<p, x>> \in edges'
    BY <1>10, ChildsPrimed
  <2>2. \A x : <<p, x>> \notin edges
    BY <1>2, <1>5 DEF Core, Directed
  <2>3. \A x : x \in childs(p)' <=> x = u
    BY <1>3, <2>1, <2>2
  <2> QED
    BY <2>3
<1>13. Sons'
  <2>1. \A w \in arrays : \E x \in Vertices : childs(w)' = {x}
    <3>1. p \notin arrays
      BY <1>5, Tracked DEF Core
    <3> QED
      BY <1>11, <3>1 DEF Core, Sons
  <2>2. ASSUME NEW w \in pointers \ todo'
        PROVE  \E x \in Vertices : childs(w)' = {x} /\ (~more => x \notin pointers)
    <3>1. CASE w = p
      BY <1>4, <1>12, <3>1
    <3>2. CASE w # p
      <4>1. w \in pointers \ todo
        BY <1>1, <3>2
      <4>2. \E x \in Vertices : childs(w) = {x} /\ (~more => x \notin pointers)
        BY <1>1, <4>1 DEF Core, Sons
      <4> QED
        BY <1>11, <3>2, <4>2
    <3> QED
      BY <3>1, <3>2
  <2> QED
    BY <1>1, <2>1, <2>2 DEF Sons
<1> QED
  BY <1>6, <1>7, <1>8, <1>9, <1>13 DEF Core

-----------------------------------------------------------------------------
(* Unification                                                             *)

\* The container v of S gives up its scalar s for that of the first of S.
Moves(S, v, s) == v \in S /\ s \in Scalars /\ v \in rows(S, s) /\ v # Min(rows(S, s))
first(S, s)    == Min(rows(S, s))
given(S, s)    == unif(first(S, s), s)

\* What moves is a child of v of type s, and what v gets is one of another
\* container.
LEMMA Moved ==
  ASSUME Typed, NEW S, S \subseteq Vertices, NEW v, NEW s, Moves(S, v, s)
  PROVE  /\ unif(v, s) \in like(v, s)
         /\ first(S, s) \in S /\ first(S, s) # v
         /\ given(S, s) \in like(first(S, s), s)
<1>1. IsGraph
  BY TypedGraph
<1>2. Len(type) \in Nat /\ Vertices = 1..Len(type)
  BY <1>1 DEF IsGraph
<1>3. ASSUME NEW w, like(w, s) # {}
      PROVE  unif(w, s) \in like(w, s)
  <2>1. like(w, s) \subseteq 0..Len(type)
    <3>1. childs(w) \subseteq 1..Len(type)
      BY <1>1, ChildsInGraph
    <3> QED
      BY <1>2, <3>1 DEF like
  <2> QED
    BY <1>2, <1>3, <2>1, MaxOf DEF unif
<1>4. first(S, s) \in rows(S, s) /\ first(S, s) # v
  <2>1. rows(S, s) \subseteq Nat
    <3>1. rows(S, s) \subseteq S /\ 1..Len(type) \subseteq Nat
      BY <1>2 DEF rows
    <3> QED
      BY <1>2, <3>1
  <2>2. rows(S, s) # {} /\ v # Min(rows(S, s))
    BY DEF Moves
  <2> QED
    BY <2>1, <2>2, MinOf DEF first
<1>5. v \in rows(S, s)
  BY DEF Moves
<1> QED
  BY <1>3, <1>4, <1>5 DEF rows, given

\* The children after unification.
LEMMA UnifiedChilds ==
  ASSUME Typed, NEW S, S \subseteq Vertices, unify_subscalars(S), IsGraph',
         NEW v, NEW u
  PROVE  u \in childs(v)' <=>
           \/ u \in childs(v) /\ ~\E s : Moves(S, v, s) /\ u = unif(v, s)
           \/ \E s : Moves(S, v, s) /\ u = given(S, s)
<1> DEFINE moved == {r \in S \X Scalars : r[1] \in rows(S, r[2]) /\ r[1] # Min(rows(S, r[2]))}
<1>1. edges' = (edges \ {<<r[1], unif(r[1], r[2])>> : r \in moved})
               \cup {<<r[1], unif(Min(rows(S, r[2])), r[2])>> : r \in moved}
  BY DEF unify_subscalars
<1>2. \A w, s : <<w, s>> \in moved <=> Moves(S, w, s)
  BY DEF Moves
<1>3. \A r \in moved : r = <<r[1], r[2]>>
  OBVIOUS
<1> HIDE DEF moved
<1>4. <<v, u>> \in {<<r[1], unif(r[1], r[2])>> : r \in moved} <=> \E s : Moves(S, v, s) /\ u = unif(v, s)
  <2>1. ASSUME NEW s, Moves(S, v, s), u = unif(v, s)
        PROVE  <<v, u>> \in {<<r[1], unif(r[1], r[2])>> : r \in moved}
    <3>1. <<v, s>> \in moved /\ <<v, s>>[1] = v /\ <<v, s>>[2] = s
      BY <1>2, <2>1
    <3> QED
      BY <2>1, <3>1
  <2>2. ASSUME NEW r \in moved, <<v, u>> = <<r[1], unif(r[1], r[2])>>
        PROVE  \E s : Moves(S, v, s) /\ u = unif(v, s)
    BY <1>2, <1>3, <2>2
  <2> QED
    BY <2>1, <2>2
<1>5. <<v, u>> \in {<<r[1], unif(Min(rows(S, r[2])), r[2])>> : r \in moved}
        <=> \E s : Moves(S, v, s) /\ u = given(S, s)
  <2>1. ASSUME NEW s, Moves(S, v, s), u = given(S, s)
        PROVE  <<v, u>> \in {<<r[1], unif(Min(rows(S, r[2])), r[2])>> : r \in moved}
    <3>1. <<v, s>> \in moved /\ <<v, s>>[1] = v /\ <<v, s>>[2] = s
      BY <1>2, <2>1
    <3> QED
      BY <2>1, <3>1 DEF given, first
  <2>2. ASSUME NEW r \in moved, <<v, u>> = <<r[1], unif(Min(rows(S, r[2])), r[2])>>
        PROVE  \E s : Moves(S, v, s) /\ u = given(S, s)
    BY <1>2, <1>3, <2>2 DEF given, first
  <2> QED
    BY <2>1, <2>2
<1>6. u \in childs(v)' <=> <<v, u>> \in edges'
  BY ChildsPrimed
<1>7. u \in childs(v) <=> <<v, u>> \in edges
  BY TypedGraph, Childs
<1> QED
  BY <1>1, <1>4, <1>5, <1>6, <1>7

\* No edge leaves the graph, and what is new leads from a container of S to a
\* scalar that is a child of another one.
LEMMA UnifiedEdges ==
  ASSUME Typed, NEW S, S \subseteq Vertices, unify_subscalars(S), NEW e \in edges', e \notin edges
  PROVE  \E s : /\ Moves(S, e[1], s) /\ e = <<e[1], given(S, s)>>
                /\ e[2] = given(S, s) /\ e[1] \in S
                /\ first(S, s) \in S /\ first(S, s) # e[1]
                /\ <<first(S, s), e[2]>> \in edges
                /\ e[2] \in Vertices /\ type[e[2]] = scalar(s) /\ s \in Scalars
<1> DEFINE moved == {r \in S \X Scalars : r[1] \in rows(S, r[2]) /\ r[1] # Min(rows(S, r[2]))}
<1>1. e \in {<<r[1], unif(Min(rows(S, r[2])), r[2])>> : r \in moved}
  BY DEF unify_subscalars
<1>2. PICK r \in moved : e = <<r[1], unif(Min(rows(S, r[2])), r[2])>>
  BY <1>1
<1>3. PICK s : r[2] = s
  OBVIOUS
<1>4. Moves(S, r[1], s) /\ e[1] = r[1] /\ e[2] = given(S, s) /\ e = <<e[1], given(S, s)>>
  BY <1>2, <1>3 DEF Moves, given, first
<1>5. given(S, s) \in like(first(S, s), s) /\ first(S, s) \in S /\ first(S, s) # r[1]
  BY <1>4, Moved
<1>6. given(S, s) \in childs(first(S, s)) /\ type[given(S, s)] = scalar(s)
  BY <1>5 DEF like
<1>7. <<first(S, s), given(S, s)>> \in edges
  BY <1>6, TypedGraph, Childs
<1>8. given(S, s) \in Vertices
  BY <1>7 DEF Typed
<1> QED
  BY <1>4, <1>5, <1>6, <1>7, <1>8 DEF Moves

\* The scalars of a container differ in their types.
LEMMA ScalarsDiffer == \A s, t : scalar(s) = scalar(t) => s = t
BY DEF scalar, vprop

\* Unification of structures, or of arrays after them, keeps the invariant.
LEMMA UnifyCore ==
  ASSUME Core, NEW S,
         \/ phase = "structs" /\ phase' = "arrays" /\ S = structs /\ todo' = todo
         \/ phase = "arrays" /\ phase' = "pointers" /\ S = arrays /\ todo' = pointers,
         unify_subscalars(S)
  PROVE  Core'
<1>1. /\ nsplits' = nsplits /\ more' = more /\ type' = type /\ leafs' = leafs
      /\ structs' = structs /\ arrays' = arrays /\ pointers' = pointers
      /\ idxs' = idxs /\ perms' = perms /\ Vertices' = Vertices
  BY DEF unify_subscalars, sets, chosen, Vertices
<1>2. /\ Typed /\ S \subseteq Vertices
      /\ \A v \in S : v \notin pointers /\ type[v].cat # "SCALAR"
  BY Tracked DEF Core
<1>3. \A e \in edges' : e \in edges \/
        \E s : /\ e[2] = given(S, s) /\ e[1] \in S /\ e = <<e[1], given(S, s)>>
               /\ first(S, s) \in S /\ first(S, s) # e[1]
               /\ <<first(S, s), e[2]>> \in edges
               /\ e[2] \in Vertices /\ type[e[2]] = scalar(s)
  BY <1>2, UnifiedEdges
<1>4. Typed'
  <2>1. edges' \subseteq Vertices \X Vertices
    <3> SUFFICES ASSUME NEW e \in edges' PROVE e \in Vertices \X Vertices
      OBVIOUS
    <3>1. CASE e \in edges
      BY <1>2, <3>1 DEF Typed
    <3>2. CASE e \notin edges
      <4>1. e[1] \in S /\ e[2] \in Vertices /\ e = <<e[1], e[2]>>
        BY <1>3, <3>2
      <4> QED
        BY <1>2, <4>1
    <3> QED
      BY <3>1, <3>2
  <2> QED
    BY <1>1, <2>1 DEF Core, Typed, Kinds
<1>5. SetsTracked'
  BY <1>1 DEF Core, SetsTracked, of_cat, Vertices
<1>6. Directed'
  <2> SUFFICES ASSUME NEW e \in edges'
               PROVE  /\ type[e[1]].cat # "SCALAR"
                      /\ e[1] \notin pointers
                      /\ e[1] < e[2] \/ type[e[2]].cat = "SCALAR"
    BY <1>1 DEF Directed
  <2>1. CASE e \in edges
    BY <2>1 DEF Core, Directed
  <2>2. CASE e \notin edges
    BY <1>2, <1>3, <2>2, Cats
  <2> QED
    BY <2>1, <2>2
<1>7. Unshared'
  <2> SUFFICES ASSUME phase = "structs", S = structs, NEW e \in edges', NEW f \in edges',
                      e[2] = f[2], e[1] \in arrays
               PROVE  e = f
    BY <1>1 DEF Unshared
  <2>1. structs \cap arrays = {}
    BY DEF Core, SetsTracked, of_cat
  <2>2. e \in edges
    BY <1>3, <2>1
  <2>3. \A g \in edges, h \in edges : g[2] = h[2] => g = h
    BY DEF Core, Unshared
  <2>4. f \in edges
    <3> SUFFICES ASSUME f \notin edges PROVE FALSE
      OBVIOUS
    <3>1. PICK a \in S : <<a, f[2]>> \in edges
      BY <1>3
    <3>2. e = <<a, f[2]>>
      BY <2>2, <2>3, <3>1
    <3> QED
      BY <2>1, <3>1, <3>2
  <2> QED
    BY <2>2, <2>3, <2>4
<1>8. \A v, u : u \in childs(v)' <=>
           \/ u \in childs(v) /\ ~\E s : Moves(S, v, s) /\ u = unif(v, s)
           \/ \E s : Moves(S, v, s) /\ u = given(S, s)
  BY <1>2, <1>4, TypedGraphPrimed, UnifiedChilds
<1>9. ASSUME NEW v \in arrays
      PROVE  \E u \in Vertices : childs(v)' = {u}
  <2>1. PICK u \in Vertices : childs(v) = {u}
    BY DEF Core, Sons
  <2>2. CASE \A s : ~Moves(S, v, s)
    <3>1. \A x : x \in childs(v)' <=> x \in childs(v)
      BY <1>8, <2>2
    <3> QED
      BY <2>1, <3>1
  <2>3. CASE \E s : Moves(S, v, s)
    <3>1. PICK s : Moves(S, v, s)
      BY <2>3
    <3>2. unif(v, s) \in like(v, s) /\ given(S, s) \in like(first(S, s), s)
      BY <1>2, <3>1, Moved
    <3>3. unif(v, s) = u /\ type[u] = scalar(s)
      BY <2>1, <3>2 DEF like
    <3>4. \A t : Moves(S, v, t) => t = s
      <4> TAKE t
      <4>1. ASSUME Moves(S, v, t)
            PROVE  t = s
        <5>1. unif(v, t) \in like(v, t)
          BY <1>2, <4>1, Moved
        <5>2. type[u] = scalar(t)
          BY <2>1, <5>1 DEF like
        <5> QED
          BY <3>3, <5>2, ScalarsDiffer
      <4> QED
        BY <4>1
    <3>5. \A x : x \in childs(v)' <=> x = given(S, s)
      BY <1>8, <2>1, <3>1, <3>3, <3>4
    <3>6. given(S, s) \in Vertices
      <4>1. given(S, s) \in childs(first(S, s))
        BY <3>2 DEF like
      <4> QED
        BY <1>2, <4>1, TypedGraph, ChildsInGraph DEF IsGraph
    <3>7. childs(v)' = {given(S, s)}
      BY <3>5
    <3> QED
      BY <3>6, <3>7
  <2> QED
    BY <2>2, <2>3
<1>10. Sons'
  BY <1>1, <1>9 DEF Sons
<1>11. Chosen'
  BY DEF Chosen
<1> QED
  BY <1>4, <1>5, <1>6, <1>7, <1>10, <1>11 DEF Core

\* Of the children of v that have a type in K there are as many as before.
LEMMA UnifySwaps ==
  ASSUME Core, NEW S,
         (phase = "structs" /\ S = structs) \/ (phase = "arrays" /\ S = arrays),
         unify_subscalars(S), IsGraph', NEW v \in Vertices, NEW K
  PROVE  Cardinality({u \in childs(v)' : type[u] \in K}) = Cardinality({u \in childs(v) : type[u] \in K})
<1> DEFINE A == {u \in childs(v) : type[u] \in K}
           B == {u \in childs(v)' : type[u] \in K}
           goes(u) == Moves(S, v, type[u].sdesc) /\ u = unif(v, type[u].sdesc)
           f == [u \in A |-> IF goes(u) THEN given(S, type[u].sdesc) ELSE u]
<1>1. Typed /\ S \subseteq Vertices
  BY Tracked DEF Core
<1>2. \A u : u \in childs(v)' <=>
           \/ u \in childs(v) /\ ~\E s : Moves(S, v, s) /\ u = unif(v, s)
           \/ \E s : Moves(S, v, s) /\ u = given(S, s)
  BY <1>1, UnifiedChilds
<1>3. ASSUME NEW s, Moves(S, v, s)
      PROVE  /\ unif(v, s) \in childs(v) /\ type[unif(v, s)] = scalar(s)
             /\ type[given(S, s)] = scalar(s) /\ scalar(s).sdesc = s
             /\ given(S, s) \notin childs(v)
  <2>1. /\ unif(v, s) \in like(v, s) /\ given(S, s) \in like(first(S, s), s)
        /\ first(S, s) \in S /\ first(S, s) # v
    BY <1>1, <1>3, Moved
  <2>2. scalar(s).sdesc = s
    BY DEF scalar, vprop
  <2>3. <<first(S, s), given(S, s)>> \in edges
    BY <1>1, <2>1, TypedGraph, Childs DEF like
  <2>4. <<v, given(S, s)>> \notin edges
    <3> SUFFICES ASSUME <<v, given(S, s)>> \in edges PROVE FALSE
      OBVIOUS
    <3> DEFINE e == <<first(S, s), given(S, s)>>
               g == <<v, given(S, s)>>
    <3>1. e \in edges /\ g \in edges /\ e[2] = g[2] /\ e[1] = first(S, s) /\ g[1] = v
      BY <2>3
    <3> HIDE DEF e, g
    <3>2. phase = "structs" \/ (phase = "arrays" /\ e[1] \in arrays)
      BY <2>1, <3>1
    <3>3. e = g
      BY <3>1, <3>2 DEF Core, Unshared
    <3> QED
      BY <2>1, <3>1, <3>3
  <2>5. given(S, s) \notin childs(v)
    BY <1>1, <2>4, TypedGraph, Childs
  <2> QED
    BY <2>1, <2>2, <2>5 DEF like
<1>4. ASSUME NEW u \in childs(v)
      PROVE  goes(u) <=> \E s : Moves(S, v, s) /\ u = unif(v, s)
  BY <1>3
<1> HIDE DEF goes
<1>5. \A u : goes(u) => Moves(S, v, type[u].sdesc) /\ u = unif(v, type[u].sdesc)
  BY DEF goes
<1>6. ASSUME NEW u \in A
      PROVE  f[u] \in B /\ type[f[u]] = type[u]
  <2>1. CASE goes(u)
    <3>1. f[u] = given(S, type[u].sdesc) /\ Moves(S, v, type[u].sdesc) /\ u = unif(v, type[u].sdesc)
      BY <1>5, <2>1
    <3>2. type[f[u]] = type[u]
      BY <1>3, <3>1
    <3>3. f[u] \in childs(v)'
      BY <1>2, <3>1
    <3> QED
      BY <3>2, <3>3
  <2>2. CASE ~goes(u)
    <3>1. f[u] = u /\ u \in childs(v)
      BY <2>2
    <3>2. u \in childs(v)'
      BY <1>2, <1>4, <2>2, <3>1
    <3> QED
      BY <3>1, <3>2
  <2> QED
    BY <2>1, <2>2
<1>7. ASSUME NEW a \in A, NEW b \in A, f[a] = f[b]
      PROVE  a = b
  <2>1. type[a] = type[b]
    BY <1>6, <1>7
  <2>2. a \in childs(v) /\ b \in childs(v)
    OBVIOUS
  <2>3. CASE goes(a) /\ goes(b)
    BY <1>5, <2>1, <2>3
  <2>4. CASE ~goes(a) /\ ~goes(b)
    BY <1>7, <2>4
  <2>5. CASE goes(a) /\ ~goes(b)
    <3>1. b = given(S, type[a].sdesc) /\ Moves(S, v, type[a].sdesc)
      BY <1>5, <1>7, <2>5
    <3> QED
      BY <1>3, <2>2, <3>1
  <2>6. CASE ~goes(a) /\ goes(b)
    <3>1. a = given(S, type[b].sdesc) /\ Moves(S, v, type[b].sdesc)
      BY <1>5, <1>7, <2>6
    <3> QED
      BY <1>3, <2>2, <3>1
  <2> QED
    BY <2>3, <2>4, <2>5, <2>6
<1>8. ASSUME NEW x \in B
      PROVE  \E u \in A : f[u] = x
  <2>1. x \in childs(v)' /\ type[x] \in K
    OBVIOUS
  <2>2. CASE x \in childs(v) /\ ~goes(x)
    <3>1. x \in A /\ f[x] = x
      BY <2>1, <2>2
    <3> QED
      BY <3>1
  <2>3. CASE ~(x \in childs(v) /\ ~goes(x))
    <3>1. PICK s : Moves(S, v, s) /\ x = given(S, s)
      BY <1>2, <1>4, <2>1, <2>3
    <3>2. /\ unif(v, s) \in childs(v) /\ type[unif(v, s)] = scalar(s)
          /\ type[x] = scalar(s) /\ scalar(s).sdesc = s
      BY <1>3, <3>1
    <3>3. unif(v, s) \in A /\ goes(unif(v, s))
      BY <1>4, <2>1, <3>1, <3>2
    <3>4. f[unif(v, s)] = x
      BY <3>1, <3>2, <3>3
    <3> QED
      BY <3>3, <3>4
  <2> QED
    BY <2>2, <2>3
<1>9. ExistsBijection(A, B)
  <2>1. f \in [A -> B]
    BY <1>6
  <2>2. DOMAIN f = A
    OBVIOUS
  <2> HIDE DEF f
  <2> QED
    BY <1>7, <1>8, <2>1, <2>2 DEF ExistsBijection, Bijection, Injection, Surjection, IsInjective
<1>10. IsFiniteSet(A)
  <2>1. IsGraph /\ IsFiniteSet(1..Len(type))
    BY <1>1, TypedGraph, FS_Interval DEF IsGraph
  <2>2. A \subseteq 1..Len(type)
    <3>1. childs(v) \subseteq 1..Len(type)
      BY <2>1, ChildsInGraph
    <3> QED
      BY <3>1
  <2> QED
    BY <2>1, <2>2, FS_Subset
<1> HIDE DEF A, B
<1>11. Cardinality(B) = Cardinality(A)
  BY <1>9, <1>10, FS_Bijection
<1> QED
  BY <1>11 DEF A, B

-----------------------------------------------------------------------------
(* Indexes and permutations                                                *)

\* The numbers of S in their order are all of them.
LEMMA InOrder ==
  ASSUME NEW S, S \subseteq Int, IsFiniteSet(S), NEW s \in in_order(S)
  PROVE  /\ Cardinality(S) \in Nat /\ s \in [1..Cardinality(S) -> S]
         /\ \A x \in S : \E i \in 1..Cardinality(S) : s[i] = x
<1> DEFINE k == Cardinality(S)
<1>1. k \in Nat
  BY FS_CardinalityType
<1>2. s \in [1..k -> S] /\ DOMAIN s = 1..k /\ \A i, j \in DOMAIN s : i < j => s[i] < s[j]
  BY DEF in_order
<1> HIDE DEF k
<1>3. ASSUME NEW i \in 1..k, NEW j \in 1..k, s[i] = s[j]
      PROVE  i = j
  <2>1. s[i] \in Int /\ s[j] \in Int
    BY <1>2
  <2>2. ~(i < j) /\ ~(j < i)
    BY <1>2, <1>3, <2>1
  <2> QED
    BY <1>1, <2>2
<1>4. s \in Injection(1..k, S)
  BY <1>2, <1>3 DEF Injection, IsInjective
<1>5. Cardinality(1..k) = k
  BY <1>1, FS_Interval
<1>6. s \in Surjection(1..k, S)
  <2>1. Cardinality(1..k) = Cardinality(S) <=> s \in Surjection(1..k, S)
    BY <1>4, FS_Injection
  <2> QED
    BY <1>5, <2>1 DEF k
<1> QED
  BY <1>1, <1>2, <1>6 DEF Surjection, k

\* int vertices for an index, up to the vertex n, and k arrays of w were added; miss
\* gives their sizes.
Added(int, n, k, w, miss) ==
  /\ n = Len(type) + int /\ int \in Nat /\ k \in Nat
  /\ miss \in [1..k -> ArrMin..ArrMax]
  /\ \A x \in ArrMin..ArrMax : perm_like(x) = {} => \E i \in 1..k : miss[i] = x
  /\ Vertices' = 1..(n + k) /\ type' \in Seq(Kinds)
  /\ \A u \in Vertices : type'[u] = type[u]
  /\ \A u \in (Len(type) + 1)..n : type'[u] = scalar(IntType)
  /\ \A i \in 1..k : type'[n + i] = array(miss[i])
  /\ w \in idxs' /\ idxs' \subseteq 1..n
  /\ \A v \in idxs' : type'[v] \in Integral
  /\ \A u : u \in leafs' <=> u \in leafs \/ u \in (Len(type) + 1)..n
  /\ \A u : u \in arrays' <=> u \in arrays \/ u \in (n + 1)..(n + k)
  /\ \A v, u : <<v, u>> \in edges' <=> <<v, u>> \in edges \/ (v \in (n + 1)..(n + k) /\ u = w)
  /\ edges' \subseteq edges \cup {<<n + i, w>> : i \in 1..k}
  /\ \A m \in 1..ArrMax :
       perms'[m] = perm_like(m) \cup {n + i : i \in {j \in 1..k : miss[j] = m}}

LEMMA IntIntegral == scalar(IntType) \in Integral /\ scalar(IntType) \in Kinds
BY ScalarsAssumption DEF Integral, Kinds, create_scalar

LEMMA AddedParts ==
  ASSUME Core, choose_perms_idxs
  PROVE  /\ phase' = "done" /\ nsplits' = nsplits /\ todo' = todo /\ more' = more
         /\ structs' = structs /\ pointers' = pointers
         /\ \E int, n, k, w, miss : Added(int, n, k, w, miss)
<1> DEFINE S == {n \in ArrMin..ArrMax : perm_like(n) = {}}
           ints == {v \in leafs : type[v] \in Integral}
           is == IF ints = {} THEN <<scalar(IntType)>> ELSE <<>>
           n == Len(type) + Len(is)
<1>1. PICK miss \in in_order(S) :
        /\ type' = type \o is \o [i \in DOMAIN miss |-> array(miss[i])]
        /\ idxs' = ints \cup ((Len(type) + 1)..n)
        /\ leafs' = leafs \cup idxs'
        /\ arrays' = arrays \cup {n + i : i \in DOMAIN miss}
        /\ edges' = edges \cup {<<n + i, Min(idxs')>> : i \in DOMAIN miss}
        /\ perms' = [m \in 1..ArrMax |->
                       perm_like(m) \cup {n + i : i \in {j \in DOMAIN miss : miss[j] = m}}]
  BY DEF choose_perms_idxs
<1> DEFINE k == Cardinality(S)
<1>2. ArrMin \in Nat \ {0} /\ ArrMax \in Nat
  BY OptionsAssumption
<1>3. /\ k \in Nat /\ miss \in [1..k -> S]
      /\ \A x \in S : \E i \in 1..k : miss[i] = x
  <2> DEFINE R == ArrMin..ArrMax
  <2>1. IsFiniteSet(R) /\ R \subseteq Int
    BY <1>2, FS_Interval
  <2>2. S \subseteq R
    OBVIOUS
  <2> HIDE DEF S, R
  <2>3. IsFiniteSet(S) /\ S \subseteq Int
    BY <2>1, <2>2, Smaller
  <2> QED
    BY <2>3, InOrder
<1>4. DOMAIN miss = 1..k /\ miss \in [1..k -> ArrMin..ArrMax]
  BY <1>3
<1> HIDE DEF S, k
<1>5. Len(type) \in Nat /\ type \in Seq(Kinds) /\ Vertices = 1..Len(type)
  BY DEF Core, Typed, Vertices
<1>6. /\ is \in Seq(Kinds) /\ Len(is) \in Nat
      /\ \A i \in 1..Len(is) : is[i] = scalar(IntType)
      /\ ints = {} => Len(is) = 1
  <2>1. <<scalar(IntType)>> \in Seq(Kinds) /\ <<>> \in Seq(Kinds)
    BY IntIntegral
  <2>2. CASE ints = {}
    BY <2>1, <2>2
  <2>3. CASE ints # {}
    BY <2>1, <2>3
  <2> QED
    BY <2>2, <2>3
<1> DEFINE int == Len(is)
           new == [i \in 1..k |-> array(miss[i])]
<1>7. new \in Seq(Kinds) /\ Len(new) = k /\ \A i \in 1..k : new[i] = array(miss[i])
  <2>1. \A i \in 1..k : array(miss[i]) \in Kinds
    BY <1>4 DEF Kinds, Containers
  <2> QED
    BY <1>3, <2>1
<1>8. type' = (type \o is) \o new
  BY <1>1, <1>4
<1> HIDE DEF new, is, n
<1>9. /\ type \o is \in Seq(Kinds) /\ Len(type \o is) = Len(type) + Len(is)
      /\ \A i \in 1..Len(type) : (type \o is)[i] = type[i]
      /\ \A i \in (Len(type) + 1)..(Len(type) + Len(is)) : (type \o is)[i] = is[i - Len(type)]
  BY <1>5, <1>6, Concat
<1> DEFINE old == type \o is
<1>10. n = Len(type) + Len(is) /\ n \in Nat
  BY <1>5, <1>6 DEF n
<1>11. old \in Seq(Kinds) /\ Len(old) = n
  BY <1>9, <1>10
<1>12. type' = old \o new
  BY <1>8
<1> HIDE DEF old
<1>13. /\ old \o new \in Seq(Kinds)
       /\ DOMAIN (old \o new) = 1..(Len(old) + Len(new))
       /\ \A i \in 1..Len(old) : (old \o new)[i] = old[i]
       /\ \A i \in (Len(old) + 1)..(Len(old) + Len(new)) : (old \o new)[i] = new[i - Len(old)]
  BY <1>7, <1>11, Concat
<1>14. /\ type' \in Seq(Kinds) /\ Vertices' = 1..(n + k)
       /\ \A i \in 1..n : type'[i] = old[i]
       /\ \A i \in (n + 1)..(n + k) : type'[i] = new[i - n]
  BY <1>7, <1>11, <1>12, <1>13 DEF Vertices
<1>15. \A u \in Vertices : type'[u] = type[u]
  <2>1. \A u \in 1..Len(type) : u \in 1..n
    BY <1>5, <1>6, <1>10
  <2> QED
    BY <1>5, <1>9, <1>14, <2>1 DEF old
<1>16. \A u \in (Len(type) + 1)..n : type'[u] = scalar(IntType)
  <2> TAKE u \in (Len(type) + 1)..n
  <2>1. u \in 1..n /\ u - Len(type) \in 1..Len(is)
    BY <1>5, <1>6, <1>10
  <2> QED
    BY <1>6, <1>9, <1>10, <1>14, <2>1 DEF old
<1>17. \A i \in 1..k : type'[n + i] = array(miss[i])
  <2> TAKE i \in 1..k
  <2>1. PICK u \in (n + 1)..(n + k) : u = n + i
    BY <1>3, <1>10
  <2>2. type'[u] = new[u - n] /\ u - n = i
    BY <1>10, <1>14, <2>1
  <2> QED
    BY <1>7, <2>1, <2>2
<1>18. idxs' \subseteq 1..n /\ idxs' # {} /\ \A v \in idxs' : type'[v] \in Integral
  <2>1. ints \subseteq Vertices
    BY DEF Core, Typed
  <2>2. \A v \in ints : v \in 1..n /\ type'[v] \in Integral
    BY <1>5, <1>6, <1>10, <1>15, <2>1
  <2>3. \A v \in (Len(type) + 1)..n : v \in 1..n /\ type'[v] \in Integral
    BY <1>5, <1>10, <1>16, IntIntegral
  <2> HIDE DEF ints
  <2>4. ASSUME ints = {}
        PROVE  n \in (Len(type) + 1)..n
    <3>1. Len(is) = 1
      BY <1>6, <2>4
    <3> QED
      BY <1>5, <1>10, <3>1
  <2> QED
    BY <1>1, <2>2, <2>3, <2>4
<1>19. PICK w \in idxs' : w = Min(idxs')
  <2>1. idxs' \subseteq Nat
    BY <1>10, <1>18
  <2> QED
    BY <1>18, <2>1, MinOf
<1>20. \A u : u \in leafs' <=> u \in leafs \/ u \in (Len(type) + 1)..n
  BY <1>1
<1>21. \A u : u \in {n + i : i \in 1..k} <=> u \in (n + 1)..(n + k)
  <2> TAKE u
  <2>1. ASSUME u \in (n + 1)..(n + k)
        PROVE  u \in {n + i : i \in 1..k}
    <3>1. u - n \in 1..k /\ u = n + (u - n)
      BY <1>3, <1>10, <2>1
    <3> QED
      BY <3>1
  <2>2. ASSUME NEW i \in 1..k, u = n + i
        PROVE  u \in (n + 1)..(n + k)
    BY <1>3, <1>10, <2>2
  <2> QED
    BY <2>1, <2>2
<1>22. \A u : u \in arrays' <=> u \in arrays \/ u \in (n + 1)..(n + k)
  BY <1>1, <1>4, <1>21
<1>23. edges' = edges \cup {<<n + i, w>> : i \in 1..k}
  BY <1>1, <1>4, <1>19
<1>24. \A v, u : <<v, u>> \in edges' <=> <<v, u>> \in edges \/ (v \in (n + 1)..(n + k) /\ u = w)
  BY <1>21, <1>23
<1>25. \A m \in 1..ArrMax :
         perms'[m] = perm_like(m) \cup {n + i : i \in {j \in 1..k : miss[j] = m}}
  BY <1>1, <1>4
<1>26. \A x \in ArrMin..ArrMax : perm_like(x) = {} => \E i \in 1..k : miss[i] = x
  BY <1>3 DEF S
<1>27. Added(int, n, k, w, miss)
  <2> HIDE DEF ints, int
  <2>1. n = Len(type) + int /\ int \in Nat
    BY <1>6, <1>10 DEF int
  <2>2. edges' \subseteq edges \cup {<<n + i, w>> : i \in 1..k}
    BY <1>23
  <2> QED
    BY <1>3, <1>4, <1>14, <1>15, <1>16, <1>17, <1>18, <1>19, <1>20, <1>22, <1>24, <1>25, <1>26,
       <2>1, <2>2 DEF Added
<1>28. /\ phase' = "done" /\ nsplits' = nsplits /\ todo' = todo /\ more' = more
       /\ structs' = structs /\ pointers' = pointers
  BY DEF choose_perms_idxs
<1> QED
  BY <1>27, <1>28

\* The additions keep the invariant, and leave what the getters ask for.
LEMMA ChooseCore ==
  ASSUME Core, choose_perms_idxs
  PROVE  Core'
<1>1. /\ phase' = "done" /\ nsplits' = nsplits /\ todo' = todo /\ more' = more
      /\ structs' = structs /\ pointers' = pointers
  BY AddedParts
<1>2. PICK int, n, k, w, miss : Added(int, n, k, w, miss)
  BY AddedParts
<1>3. n = Len(type) + int
  BY <1>2 DEF Added
<1>4. /\ phase = "perms" /\ Len(type) \in Nat /\ Vertices = 1..Len(type)
      /\ int \in Nat /\ k \in Nat /\ n \in Nat /\ Len(type) <= n
  BY <1>2, <1>3 DEF Added, Core, Typed, Vertices, choose_perms_idxs
<1>5. /\ miss \in [1..k -> ArrMin..ArrMax]
      /\ \A x \in ArrMin..ArrMax : perm_like(x) = {} => \E i \in 1..k : miss[i] = x
      /\ Vertices' = 1..(n + k) /\ type' \in Seq(Kinds)
      /\ \A u \in Vertices : type'[u] = type[u]
      /\ \A u \in (Len(type) + 1)..n : type'[u] = scalar(IntType)
      /\ \A i \in 1..k : type'[n + i] = array(miss[i])
      /\ w \in idxs' /\ idxs' \subseteq 1..n
      /\ \A v \in idxs' : type'[v] \in Integral
      /\ \A u : u \in leafs' <=> u \in leafs \/ u \in (Len(type) + 1)..n
      /\ \A u : u \in arrays' <=> u \in arrays \/ u \in (n + 1)..(n + k)
      /\ \A v, u : <<v, u>> \in edges' <=> <<v, u>> \in edges \/ (v \in (n + 1)..(n + k) /\ u = w)
      /\ edges' \subseteq edges \cup {<<n + i, w>> : i \in 1..k}
      /\ \A m \in 1..ArrMax :
           perms'[m] = perm_like(m) \cup {n + i : i \in {j \in 1..k : miss[j] = m}}
  BY <1>2 DEF Added
<1>6. /\ \A u : u \in Vertices' <=> \/ u \in Vertices \/ u \in (Len(type) + 1)..n
                                    \/ u \in (n + 1)..(n + k)
      /\ \A u \in Vertices : u \notin (Len(type) + 1)..n /\ u \notin (n + 1)..(n + k)
      /\ \A u \in (Len(type) + 1)..n : u \notin (n + 1)..(n + k)
  BY <1>4, <1>5
<1>7. w \in Vertices' /\ type'[w] \in Integral /\ type'[w].cat = "SCALAR" /\ w \in 1..n
  <2>1. w \in 1..n /\ type'[w] \in Integral
    BY <1>5
  <2>2. type'[w].cat = "SCALAR"
    BY <2>1, Cats DEF Integral
  <2>3. w \in Vertices'
    BY <1>4, <1>5, <2>1
  <2> QED
    BY <2>1, <2>2, <2>3
<1>8. ASSUME NEW u \in (n + 1)..(n + k)
      PROVE  u \in Vertices' /\ u \notin Vertices /\ type'[u].cat = "ARRAY"
  <2>1. PICK i \in 1..k : u = n + i
    <3>1. u - n \in 1..k /\ u = n + (u - n)
      BY <1>4
    <3> QED
      BY <3>1
  <2>2. type'[u] = array(miss[i])
    BY <1>5, <2>1
  <2> QED
    BY <1>6, <2>2, Cats
<1>9. ASSUME NEW u \in (Len(type) + 1)..n
      PROVE  u \in Vertices' /\ u \notin Vertices /\ type'[u].cat = "SCALAR"
  BY <1>5, <1>6, Cats
<1>10. edges \subseteq Vertices \X Vertices /\ leafs \subseteq Vertices /\ pointers \subseteq Vertices
  BY Tracked DEF Core, Typed
<1>11. \A e \in edges' : e \in edges \/ (e[1] \in (n + 1)..(n + k) /\ e[2] = w /\ e = <<e[1], e[2]>>)
  <2> TAKE e \in edges'
  <2>1. ASSUME NEW i \in 1..k, e = <<n + i, w>>
        PROVE  e[1] \in (n + 1)..(n + k) /\ e[2] = w /\ e = <<e[1], e[2]>>
    BY <1>4, <2>1
  <2> QED
    BY <1>5, <2>1
<1>12. Typed'
  <2>1. edges' \subseteq Vertices' \X Vertices'
    <3> SUFFICES ASSUME NEW e \in edges' PROVE e \in Vertices' \X Vertices'
      OBVIOUS
    <3>1. CASE e \in edges
      BY <1>6, <1>10, <3>1
    <3>2. CASE e[1] \in (n + 1)..(n + k) /\ e[2] = w /\ e = <<e[1], e[2]>>
      BY <1>7, <1>8, <3>2
    <3> QED
      BY <1>11, <3>1, <3>2
  <2>2. leafs' \subseteq Vertices'
    BY <1>5, <1>6, <1>10
  <2>3. Kinds' = Kinds
    OBVIOUS
  <2> QED
    BY <1>1, <1>4, <1>5, <2>1, <2>2, <2>3 DEF Core, Typed
<1>13. SetsTracked'
  <2>1. ASSUME NEW u
        PROVE  /\ u \in structs' <=> u \in Vertices' /\ type'[u].cat = "STRUCT"
               /\ u \in arrays' <=> u \in Vertices' /\ type'[u].cat = "ARRAY"
               /\ u \in pointers' <=> u \in Vertices' /\ type'[u].cat = "POINTER"
               /\ u \in leafs' \ pointers' <=> u \in Vertices' /\ type'[u].cat = "SCALAR"
    <3>1. /\ u \in structs <=> u \in Vertices /\ type[u].cat = "STRUCT"
          /\ u \in arrays <=> u \in Vertices /\ type[u].cat = "ARRAY"
          /\ u \in pointers <=> u \in Vertices /\ type[u].cat = "POINTER"
          /\ u \in leafs \ pointers <=> u \in Vertices /\ type[u].cat = "SCALAR"
      BY Tracked DEF Core
    <3>2. /\ u \in leafs' <=> u \in leafs \/ u \in (Len(type) + 1)..n
          /\ u \in arrays' <=> u \in arrays \/ u \in (n + 1)..(n + k)
      BY <1>5
    <3>3. CASE u \in Vertices
      BY <1>1, <1>5, <1>6, <3>1, <3>2, <3>3
    <3>4. CASE u \in (Len(type) + 1)..n
      BY <1>1, <1>6, <1>9, <1>10, <3>1, <3>2, <3>4
    <3>5. CASE u \in (n + 1)..(n + k)
      BY <1>1, <1>6, <1>8, <1>10, <3>1, <3>2, <3>5
    <3>6. CASE u \notin Vertices'
      BY <1>1, <1>6, <1>10, <3>1, <3>2, <3>6
    <3> QED
      BY <1>6, <3>3, <3>4, <3>5, <3>6
  <2>2. /\ structs' = of_cat("STRUCT")' /\ arrays' = of_cat("ARRAY")'
        /\ pointers' = of_cat("POINTER")' /\ leafs' \ pointers' = of_cat("SCALAR")'
    BY <2>1 DEF of_cat
  <2>3. ~more => leafs' \cap pointers' = {}
    <3>1. ~more => leafs \cap pointers = {}
      BY DEF Core, SetsTracked
    <3> QED
      BY <1>1, <1>5, <1>6, <1>10, <3>1
  <2> QED
    BY <1>1, <2>2, <2>3 DEF SetsTracked
<1>14. Directed'
  <2> SUFFICES ASSUME NEW e \in edges'
               PROVE  /\ type'[e[1]].cat # "SCALAR"
                      /\ e[1] \in pointers => e[1] \notin todo
                      /\ e[1] \notin pointers => e[1] < e[2] \/ type'[e[2]].cat = "SCALAR"
    BY <1>1 DEF Directed
  <2>1. CASE e \in edges
    <3>1. e[1] \in Vertices /\ e[2] \in Vertices
      BY <1>10, <2>1
    <3> QED
      BY <1>5, <2>1, <3>1 DEF Core, Directed
  <2>2. CASE e[1] \in (n + 1)..(n + k) /\ e[2] = w
    BY <1>7, <1>8, <1>10, <2>2
  <2> QED
    BY <1>11, <2>1, <2>2
<1>15. Unshared'
  BY <1>1 DEF Unshared
<1>16. IsGraph /\ IsGraph'
  BY <1>12, TypedGraph, TypedGraphPrimed DEF Core
<1>17. ASSUME NEW v \in Vertices
       PROVE  childs(v)' = childs(v)
  <2>1. ASSUME NEW u
        PROVE  u \in childs(v)' <=> u \in childs(v)
    BY <1>5, <1>6, <1>16, Childs, ChildsPrimed
  <2> QED
    BY <2>1
<1>18. ASSUME NEW v \in (n + 1)..(n + k)
       PROVE  childs(v)' = {w}
  <2>1. ASSUME NEW u
        PROVE  u \in childs(v)' <=> u = w
    <3>1. v \notin Vertices
      BY <1>8
    <3>2. <<v, u>> \notin edges
      BY <1>10, <3>1
    <3> QED
      BY <1>5, <1>16, <3>2, ChildsPrimed
  <2> QED
    BY <2>1
<1>19. Sons'
  <2>1. ASSUME NEW v \in arrays'
        PROVE  \E u \in Vertices' : childs(v)' = {u}
    <3>1. CASE v \in arrays
      <4>1. v \in Vertices /\ \E u \in Vertices : childs(v) = {u}
        BY <3>1, Tracked DEF Core, Sons
      <4> QED
        BY <1>6, <1>17, <4>1
    <3>2. CASE v \in (n + 1)..(n + k)
      BY <1>7, <1>18, <3>2
    <3> QED
      BY <1>5, <3>1, <3>2
  <2>2. ASSUME NEW v \in pointers \ todo
        PROVE  \E u \in Vertices' : childs(v)' = {u} /\ (~more => u \notin pointers)
    <3>1. \E u \in Vertices : childs(v) = {u} /\ (~more => u \notin pointers)
      BY <1>4 DEF Core, Sons
    <3> QED
      BY <1>6, <1>10, <1>17, <3>1
  <2> QED
    BY <1>1, <2>1, <2>2 DEF Sons
<1>20. ASSUME NEW m \in 1..ArrMax, NEW v \in perms'[m]
       PROVE  type'[v] = array(m) /\ \A u \in childs(v)' : type'[u] \in Integral
  <2>1. v \in perm_like(m) \/ \E i \in 1..k : v = n + i /\ miss[i] = m
    BY <1>5
  <2>2. CASE v \in perm_like(m)
    <3>1. v \in arrays /\ type[v] = array(m) /\ \A u \in childs(v) : type[u] \in Integral
      BY <2>2 DEF perm_like
    <3>2. v \in Vertices
      BY <3>1, Tracked DEF Core
    <3>3. childs(v) \subseteq Vertices
      BY <1>16, ChildsInGraph DEF IsGraph
    <3> QED
      BY <1>5, <1>17, <3>1, <3>2, <3>3
  <2>3. CASE \E i \in 1..k : v = n + i /\ miss[i] = m
    <3>1. PICK i \in 1..k : v = n + i /\ miss[i] = m
      BY <2>3
    <3>2. v \in (n + 1)..(n + k)
      BY <1>4, <3>1
    <3>3. type'[v] = array(m)
      BY <1>5, <3>1
    <3> QED
      BY <1>7, <1>18, <3>2, <3>3
  <2> QED
    BY <2>1, <2>2, <2>3
<1>21. ASSUME NEW m \in ArrMin..ArrMax
       PROVE  perms'[m] # {}
  <2>1. m \in 1..ArrMax
    BY OptionsAssumption
  <2>2. CASE perm_like(m) # {}
    BY <1>5, <2>1, <2>2
  <2>3. CASE perm_like(m) = {}
    <3>1. PICK i \in 1..k : miss[i] = m
      BY <1>5, <2>3
    <3>2. n + i \in perms'[m]
      BY <1>5, <2>1, <3>1
    <3> QED
      BY <3>2
  <2> QED
    BY <2>2, <2>3
<1>22. Chosen'
  BY <1>5, <1>20, <1>21 DEF Chosen
<1> QED
  BY <1>12, <1>13, <1>14, <1>15, <1>19, <1>22 DEF Core

-----------------------------------------------------------------------------
(* The invariant is one                                                    *)

LEMMA InitCore == Init => Core
<1> SUFFICES ASSUME Init PROVE Core
  OBVIOUS
<1>1. Vertices = {} /\ type = <<>> /\ edges = {} /\ leafs = {} /\ structs = {} /\ arrays = {}
      /\ pointers = {} /\ todo = {} /\ phase = "seed"
  BY DEF Init, Vertices
<1>2. nsplits \in Nat /\ more \in BOOLEAN
  BY OptionsAssumption DEF Init
<1>3. Typed
  BY <1>1, <1>2 DEF Typed
<1>4. SetsTracked
  BY <1>1 DEF SetsTracked, of_cat
<1> QED
  BY <1>1, <1>3, <1>4 DEF Core, Directed, Unshared, Sons, Chosen

\* A step is one of these.
LEMMA Steps ==
  ASSUME Core, [Next]_vars
  PROVE  \/ seed \/ do_split \/ unify_structs \/ unify_arrays \/ process_pointer
         \/ choose_perms_idxs \/ Quiet
<1>1. \/ seed \/ do_split \/ unify_structs \/ unify_arrays \/ process_pointer
      \/ choose_perms_idxs
      \/ split_in_vain \/ split_fault \/ splits_done \/ pointer_fault \/ pointers_done
      \/ create_bitfields \/ perms_fault \/ UNCHANGED vars
  BY DEF Next, Terminating
<1> QED
  BY <1>1, QuietSteps

LEMMA NextCore ==
  ASSUME Core, [Next]_vars
  PROVE  Core'
<1>1. CASE unify_structs
  <2>1. phase = "structs" /\ phase' = "arrays" /\ todo' = todo /\ unify_subscalars(structs)
    BY <1>1 DEF unify_structs
  <2> QED
    BY <2>1, UnifyCore
<1>2. CASE unify_arrays
  <2>1. phase = "arrays" /\ phase' = "pointers" /\ todo' = pointers /\ unify_subscalars(arrays)
    BY <1>2 DEF unify_arrays
  <2> QED
    BY <2>1, UnifyCore
<1> QED
  BY <1>1, <1>2, Steps, SeedCore, SplitCore, PointerCore, ChooseCore, QuietCore

THEOREM CoreInvariance == Spec => []Core
BY InitCore, NextCore, PTL DEF Spec

-----------------------------------------------------------------------------
(* Sets, getters and finite types                                          *)

\* The support sets follow the graph.
THEOREM SetsStayTracked == Spec => []SetsTracked
<1>1. Core => SetsTracked
  BY DEF Core
<1> QED
  BY <1>1, CoreInvariance, PTL

\* A type consists of newer vertices and of scalars, so it is not part of itself.
LEMMA CoreFinite == Core => FiniteTypes
<1> SUFFICES ASSUME Core, NEW v \in Vertices \ pointers
             PROVE  v \notin parts(v)
  BY DEF FiniteTypes
<1>1. IsGraph
  BY TypedGraph DEF Core
<1>2. Closure(stored, childs(v), parts(v))
  BY <1>1, PartsClosure
<1>3. v \in Nat /\ edges \subseteq Vertices \X Vertices /\ Vertices \subseteq Nat
  BY <1>1 DEF IsGraph
<1>4. CASE type[v].cat = "SCALAR"
  <2>1. \A u : u \notin childs(v)
    <3>1. \A e \in edges : e[1] # v
      BY <1>4 DEF Core, Directed
    <3>2. \A u : <<v, u>>[1] = v
      OBVIOUS
    <3>3. \A u : <<v, u>> \notin edges
      BY <3>1, <3>2
    <3> QED
      BY <1>1, <3>3, Childs
  <2>2. Closed(stored, {})
    BY DEF Closed
  <2>3. parts(v) \subseteq {}
    BY <1>2, <2>1, <2>2 DEF Closure
  <2> QED
    BY <2>3
<1>5. CASE type[v].cat # "SCALAR"
  <2> DEFINE X == {u \in Vertices : v < u \/ type[u].cat = "SCALAR"}
  <2>1. childs(v) \subseteq X
    <3> SUFFICES ASSUME NEW u \in childs(v) PROVE u \in X
      OBVIOUS
    <3>1. <<v, u>> \in edges
      BY <1>1, Childs
    <3> QED
      BY <1>3, <3>1 DEF Core, Directed
  <2>2. Closed(stored, X)
    <3> SUFFICES ASSUME NEW e \in stored, e[1] \in X PROVE e[2] \in X
      BY DEF Closed
    <3>1. e \in edges /\ type[e[1]].cat # "POINTER" /\ e[1] \in Nat /\ e[2] \in Vertices /\ e[2] \in Nat
      BY <1>3 DEF stored
    <3>2. e[1] \notin pointers
      BY <3>1, Tracked DEF Core
    <3>3. type[e[1]].cat # "SCALAR" /\ (e[1] < e[2] \/ type[e[2]].cat = "SCALAR")
      BY <3>1, <3>2 DEF Core, Directed
    <3> QED
      BY <1>3, <3>1, <3>3
  <2>3. parts(v) \subseteq X
    <3> HIDE DEF X
    <3> QED
      BY <1>2, <2>1, <2>2 DEF Closure
  <2> QED
    BY <1>3, <1>5, <2>3
<1> QED
  BY <1>4, <1>5

\* No type is a part of itself, but behind a pointer.
THEOREM TypesAreFinite == Spec => []FiniteTypes
BY CoreInvariance, CoreFinite, PTL

LEMMA CoreGetters == Core => GettersDefined
<1> SUFFICES ASSUME Core PROVE GettersDefined
  OBVIOUS
<1>1. \A v \in arrays : Cardinality(childs(v)) = 1
  <2> TAKE v \in arrays
  <2>1. PICK u \in Vertices : childs(v) = {u}
    BY DEF Core, Sons
  <2> QED
    BY <2>1, FS_Singleton
<1>2. pointed => \A v \in pointers :
        \E u \in Vertices : childs(v) = {u} /\ (~more => u \notin pointers)
  <2>1. pointed => todo = {}
    BY DEF pointed, Core, Typed
  <2> QED
    BY <2>1 DEF pointed, Core, Sons
<1> QED
  BY <1>1, <1>2 DEF GettersDefined, Core, Chosen

\* What the getters assert holds of the finished graph.
THEOREM GettersAreDefined == Spec => []GettersDefined
BY CoreInvariance, CoreGetters, PTL

\* What is not a scalar is stored in one place: unification shares scalars only,
\* and pointers, which may point to anything, store nothing.
StoredOnce ==
  \A e, f \in edges :
    e[2] = f[2] /\ e[1] \notin pointers /\ f[1] \notin pointers /\ type[e[2]].cat # "SCALAR"
    => e = f

\* After the splits new edges lead from pointers or to scalars.
LEMMA Harmless ==
  ASSUME Core, StoredOnce, pointers' = pointers,
         \A e \in edges : type'[e[2]] = type[e[2]],
         \A e \in edges' : e \in edges \/ e[1] \in pointers \/ type'[e[2]].cat = "SCALAR"
  PROVE  StoredOnce'
<1> SUFFICES ASSUME NEW e \in edges', NEW f \in edges', e[2] = f[2], e[1] \notin pointers,
                    f[1] \notin pointers, type'[e[2]].cat # "SCALAR"
             PROVE  e = f
  BY DEF StoredOnce
<1>1. e \in edges /\ f \in edges
  OBVIOUS
<1>2. type[e[2]].cat # "SCALAR"
  BY <1>1
<1> QED
  BY <1>1, <1>2 DEF StoredOnce

LEMMA UnifyHarmless ==
  ASSUME Core, StoredOnce, NEW S, S \subseteq Vertices, unify_subscalars(S)
  PROVE  StoredOnce'
<1>1. pointers' = pointers /\ type' = type
  BY DEF unify_subscalars, sets
<1>2. ASSUME NEW e \in edges', e \notin edges
      PROVE  type[e[2]].cat = "SCALAR"
  <2>1. Typed
    BY DEF Core
  <2>2. PICK s \in Scalars : type[e[2]] = scalar(s)
    BY <1>2, <2>1, UnifiedEdges
  <2> QED
    BY <2>2, Cats
<1> QED
  BY <1>1, <1>2, Harmless

LEMMA ChooseHarmless ==
  ASSUME Core, StoredOnce, choose_perms_idxs
  PROVE  StoredOnce'
<1>1. pointers' = pointers
  BY AddedParts
<1>2. PICK int, n, k, w, miss : Added(int, n, k, w, miss)
  BY AddedParts
<1>3. /\ \A u \in Vertices : type'[u] = type[u]
      /\ w \in idxs' /\ \A v \in idxs' : type'[v] \in Integral
      /\ edges' \subseteq edges \cup {<<n + i, w>> : i \in 1..k}
  BY <1>2 DEF Added
<1>4. edges \subseteq Vertices \X Vertices
  BY DEF Core, Typed
<1>5. type'[w].cat = "SCALAR"
  BY <1>3, Cats DEF Integral
<1>6. ASSUME NEW e \in edges', e \notin edges
      PROVE  type'[e[2]].cat = "SCALAR"
  <2>1. PICK i \in 1..k : e = <<n + i, w>>
    BY <1>3, <1>6
  <2> QED
    BY <1>5, <2>1
<1> QED
  BY <1>1, <1>3, <1>4, <1>6, Harmless

\* For VarAssign: what is not a scalar belongs to one structure or array.
THEOREM PartsAreStoredOnce == Spec => []StoredOnce
<1>1. Init => StoredOnce
  BY DEF Init, StoredOnce
<1>2. ASSUME Core, Core', StoredOnce, [Next]_vars
      PROVE  StoredOnce'
  <2>1. CASE seed \/ do_split
    <3>1. phase' = "split"
      BY <2>1 DEF seed, do_split
    <3> QED
      BY <1>2, <3>1 DEF Core, Unshared, StoredOnce
  <2>2. CASE unify_structs
    <3>1. structs \subseteq Vertices
      BY <1>2, Tracked DEF Core
    <3> QED
      BY <1>2, <2>2, <3>1, UnifyHarmless DEF unify_structs
  <2>3. CASE unify_arrays
    <3>1. arrays \subseteq Vertices
      BY <1>2, Tracked DEF Core
    <3> QED
      BY <1>2, <2>3, <3>1, UnifyHarmless DEF unify_arrays
  <2>4. CASE process_pointer
    <3>1. pointers' = pointers /\ type' = type
      BY <2>4 DEF process_pointer, sets
    <3>2. todo \subseteq pointers /\ todo \subseteq Nat
      BY <1>2 DEF Core, Typed, SetsTracked, of_cat, Vertices
    <3>3. PICK p \in todo : p = Min(todo)
      BY <2>4, <3>2, MinOf DEF process_pointer
    <3>4. PICK u : edges' = edges \cup {<<p, u>>}
      BY <2>4, <3>3 DEF process_pointer
    <3>5. \A e \in edges' : e \in edges \/ e[1] \in pointers
      BY <3>2, <3>3, <3>4
    <3> QED
      BY <1>2, <3>1, <3>5, Harmless
  <2>5. CASE choose_perms_idxs
    BY <1>2, <2>5, ChooseHarmless
  <2>6. CASE Quiet
    BY <1>2, <2>6, Harmless DEF Quiet, sets
  <2> QED
    BY <1>2, <2>1, <2>2, <2>3, <2>4, <2>5, <2>6, Steps
<1> QED
  BY <1>1, <1>2, InitCore, NextCore, CoreInvariance, PTL DEF Spec

-----------------------------------------------------------------------------
(* Unification keeps the fields                                            *)

\* What a step after the splits does to the children of a container, but for
\* unification: nothing.
LEMMA OtherFields ==
  ASSUME Core, process_pointer \/ choose_perms_idxs \/ Quiet, NEW v \in structs \cup arrays
  PROVE  childs(v)' = childs(v) /\ \A u \in childs(v) : type'[u] = type[u]
<1>1. IsGraph /\ v \in Vertices /\ v \notin pointers
  BY TypedGraph, Tracked DEF Core
<1>2. CASE process_pointer
  <2>1. PICK p \in todo : p = Min(todo)
    <3>1. todo \subseteq Nat /\ todo # {}
      BY <1>2 DEF Core, Typed, SetsTracked, of_cat, Vertices, process_pointer
    <3> QED
      BY <3>1, MinOf
  <2>2. PICK u : edges' = edges \cup {<<p, u>>} /\ type' = type
    BY <1>2, <2>1 DEF process_pointer
  <2>3. p # v
    BY <1>1 DEF Core, Typed
  <2>4. {x \in edges' : x[1] = v} = {x \in edges : x[1] = v}
    BY <2>2, <2>3
  <2> QED
    BY <2>2, <2>4 DEF childs
<1>3. CASE choose_perms_idxs
  <2>1. PICK int, n, k, w, miss : Added(int, n, k, w, miss)
    BY <1>3, AddedParts
  <2>2. \A e \in edges' : e \in edges \/ e[1] \in {n + i : i \in 1..k}
    <3>1. edges' \subseteq edges \cup {<<n + i, w>> : i \in 1..k}
      BY <2>1 DEF Added
    <3>2. \A i : <<n + i, w>>[1] = n + i
      OBVIOUS
    <3> QED
      BY <3>1, <3>2
  <2>3. v \notin {n + i : i \in 1..k}
    <3>1. n \in Nat /\ k \in Nat /\ Len(type) <= n /\ v <= Len(type) /\ v \in Nat
      BY <1>1, <2>1 DEF Added, IsGraph
    <3> QED
      BY <3>1
  <2>4. edges \subseteq edges'
    <3> SUFFICES ASSUME NEW e \in edges PROVE e \in edges'
      OBVIOUS
    <3>1. e = <<e[1], e[2]>>
      BY <1>1 DEF IsGraph
    <3>2. <<e[1], e[2]>> \in edges => <<e[1], e[2]>> \in edges'
      BY <2>1 DEF Added
    <3> QED
      BY <3>1, <3>2
  <2>5. {x \in edges' : x[1] = v} = {x \in edges : x[1] = v}
    BY <2>2, <2>3, <2>4
  <2>6. \A u \in Vertices : type'[u] = type[u]
    BY <2>1 DEF Added
  <2>7. childs(v) \subseteq Vertices
    BY <1>1, ChildsInGraph DEF IsGraph
  <2> QED
    BY <2>5, <2>6, <2>7 DEF childs
<1>4. CASE Quiet
  BY <1>4 DEF Quiet, childs
<1> QED
  BY <1>2, <1>3, <1>4

\* Unification of the containers in S, on the way to the next phase.
LEMMA UnifiedFields ==
  ASSUME Core, Core', NEW S,
         (phase = "structs" /\ S = structs) \/ (phase = "arrays" /\ S = arrays),
         unify_subscalars(S), NEW v \in structs \cup arrays
  PROVE  /\ Cardinality(childs(v)') = Cardinality(childs(v))
         /\ \A s \in Scalars : Cardinality(like(v, s)') = Cardinality(like(v, s))
<1>1. IsGraph /\ IsGraph' /\ v \in Vertices /\ type' = type
  BY TypedGraph, TypedGraphPrimed, Tracked DEF Core, unify_subscalars
<1>2. \A K : Cardinality({u \in childs(v)' : type[u] \in K}) = Cardinality({u \in childs(v) : type[u] \in K})
  BY <1>1, UnifySwaps
<1>3. Cardinality(childs(v)') = Cardinality(childs(v))
  <2> DEFINE K == {type[u] : u \in childs(v) \cup childs(v)'}
  <2>1. {u \in childs(v)' : type[u] \in K} = childs(v)' /\ {u \in childs(v) : type[u] \in K} = childs(v)
    OBVIOUS
  <2> HIDE DEF K
  <2> QED
    BY <1>2, <2>1
<1>4. ASSUME NEW s \in Scalars
      PROVE  Cardinality(like(v, s)') = Cardinality(like(v, s))
  <2> DEFINE K == {scalar(s)}
  <2>1. like(v, s)' = {u \in childs(v)' : type[u] \in K} /\ like(v, s) = {u \in childs(v) : type[u] \in K}
    BY <1>1 DEF like
  <2> HIDE DEF K
  <2> QED
    BY <1>2, <2>1
<1> QED
  BY <1>3, <1>4

\* After the splits a container keeps what it consists of: unification exchanges a
\* field for one of the same type, and nothing else touches fields.
THEOREM FieldsAreKept == Spec => FieldsKept
<1> DEFINE Kept == phase \notin {"seed", "split"} => \A v \in structs \cup arrays :
                     /\ Cardinality(childs(v)') = Cardinality(childs(v))
                     /\ \A s \in Scalars : Cardinality(like(v, s)') = Cardinality(like(v, s))
<1>1. ASSUME Core, [Next]_vars
      PROVE  Kept
  <2> SUFFICES ASSUME phase \notin {"seed", "split"}, NEW v \in structs \cup arrays
               PROVE  /\ Cardinality(childs(v)') = Cardinality(childs(v))
                      /\ \A s \in Scalars : Cardinality(like(v, s)') = Cardinality(like(v, s))
    OBVIOUS
  <2>1. Core'
    BY <1>1, NextCore
  <2>2. CASE unify_structs
    <3>1. phase = "structs" /\ unify_subscalars(structs)
      BY <2>2 DEF unify_structs
    <3> QED
      BY <1>1, <2>1, <3>1, UnifiedFields
  <2>3. CASE unify_arrays
    <3>1. phase = "arrays" /\ unify_subscalars(arrays)
      BY <2>3 DEF unify_arrays
    <3> QED
      BY <1>1, <2>1, <3>1, UnifiedFields
  <2>4. CASE process_pointer \/ choose_perms_idxs \/ Quiet
    <3>1. childs(v)' = childs(v) /\ \A u \in childs(v) : type'[u] = type[u]
      BY <1>1, <2>4, OtherFields
    <3>2. \A s : like(v, s)' = like(v, s)
      BY <3>1 DEF like
    <3> QED
      BY <3>1, <3>2
  <2>5. ~seed /\ ~do_split
    BY DEF seed, do_split
  <2> QED
    BY <1>1, <2>2, <2>3, <2>4, <2>5, Steps
<1>2. Core /\ [Next]_vars => [Kept]_vars
  BY <1>1
<1> HIDE DEF Kept
<1>3. Spec => [][Kept]_vars
  BY <1>2, CoreInvariance, PTL DEF Spec
<1> QED
  BY <1>3 DEF FieldsKept, Kept

-----------------------------------------------------------------------------
(* Nesting                                                                 *)

\* A set of vertices, A of them arrays and T structures, within the limits.
Bounded(S, A, T) ==
  /\ Cardinality(S \cap A) <= Max({1, MaxArrPreds})
  /\ Cardinality(S \cap T) <= MaxStructPreds
  /\ Cardinality(S) <= Max({1, MaxPreds})

\* N gives the containers around each vertex, or more of them, but not too many.
Nesting(N, E, A, T) ==
  /\ \A e \in E : e[1] \in A \cup T /\ e[2] \in A \cup T => N[e[1]] \cup {e[1]} \subseteq N[e[2]]
  /\ \A v \in A \cup T : Bounded(N[v] \cup {v}, A, T)

\* Types nest within the limits. While splits go on these are the containers above a
\* type; then types are shared, but no container is.
Nested ==
  /\ phase \in {"seed", "split"} => \A v \in arrays \cup structs : Bounded(above(v) \cup {v}, arrays, structs)
  /\ phase \notin {"seed", "split"} => \E N \in [Vertices -> SUBSET Vertices] : Nesting(N, edges, arrays, structs)

LEMMA Limits ==
  /\ MaxArrPreds \in Nat /\ MaxStructPreds \in Nat /\ MaxPreds \in Nat
  /\ \A n \in Nat : Max({1, n}) \in Nat /\ 1 <= Max({1, n}) /\ n <= Max({1, n})
<1>1. ASSUME NEW n \in Nat
      PROVE  Max({1, n}) \in Nat /\ 1 <= Max({1, n}) /\ n <= Max({1, n})
  <2> DEFINE S == {1, n}
  <2>1. S \subseteq 0..(n + 1) /\ S # {} /\ n + 1 \in Nat
    OBVIOUS
  <2>2. 1 \in S /\ n \in S /\ \A x \in S : x \in Nat
    OBVIOUS
  <2> HIDE DEF S
  <2>3. Max(S) \in S /\ \A k \in S : k <= Max(S)
    BY <2>1, MaxOf
  <2>4. Max(S) \in Nat /\ 1 <= Max(S) /\ n <= Max(S)
    BY <2>2, <2>3
  <2> QED
    BY <2>4 DEF S
<1> QED
  BY <1>1, OptionsAssumption

\* A part of what is within the limits is so too.
LEMMA BoundedPart ==
  ASSUME NEW R, IsFiniteSet(R), NEW A, NEW T, Bounded(R, A, T), NEW S, S \subseteq R
  PROVE  Bounded(S, A, T)
<1>1. Max({1, MaxArrPreds}) \in Nat /\ Max({1, MaxPreds}) \in Nat /\ MaxStructPreds \in Nat
  BY Limits
<1>2. \A X, Y : X \subseteq R /\ Y \subseteq X =>
        Cardinality(X) \in Nat /\ Cardinality(Y) \in Nat /\ Cardinality(Y) <= Cardinality(X)
  <2> SUFFICES ASSUME NEW X, NEW Y, X \subseteq R, Y \subseteq X
               PROVE  Cardinality(X) \in Nat /\ Cardinality(Y) \in Nat /\ Cardinality(Y) <= Cardinality(X)
    OBVIOUS
  <2>1. IsFiniteSet(X) /\ Cardinality(X) \in Nat
    BY Smaller
  <2> QED
    BY <2>1, Smaller
<1>3. /\ R \cap A \subseteq R /\ R \cap T \subseteq R
      /\ S \cap A \subseteq R \cap A /\ S \cap T \subseteq R \cap T
  OBVIOUS
<1>4. /\ Cardinality(S \cap A) <= Cardinality(R \cap A) /\ Cardinality(S \cap A) \in Nat
      /\ Cardinality(R \cap A) \in Nat
      /\ Cardinality(S \cap T) <= Cardinality(R \cap T) /\ Cardinality(S \cap T) \in Nat
      /\ Cardinality(R \cap T) \in Nat
      /\ Cardinality(S) <= Cardinality(R) /\ Cardinality(S) \in Nat /\ Cardinality(R) \in Nat
  BY <1>2, <1>3
<1> QED
  BY <1>1, <1>4 DEF Bounded

\* The vertices are finite in number.
LEMMA FiniteGraph == IsGraph => IsFiniteSet(Vertices) /\ \A S : S \subseteq Vertices => IsFiniteSet(S)
<1> SUFFICES ASSUME IsGraph PROVE IsFiniteSet(Vertices) /\ \A S : S \subseteq Vertices => IsFiniteSet(S)
  OBVIOUS
<1>1. IsFiniteSet(Vertices)
  BY FS_Interval DEF IsGraph
<1> QED
  BY <1>1, Smaller

\* What is above a vertex is in the graph, and above what the vertex leads to.
LEMMA AboveNests ==
  IsGraph => /\ \A v : above(v) \subseteq Vertices
             /\ \A e \in edges : above(e[1]) \cup {e[1]} \subseteq above(e[2])
<1> SUFFICES ASSUME IsGraph
             PROVE  /\ \A v : above(v) \subseteq Vertices
                    /\ \A e \in edges : above(e[1]) \cup {e[1]} \subseteq above(e[2])
  OBVIOUS
<1>1. \A v : Closure(backwards, preds(v), above(v))
  BY AboveClosure
<1>2. \A v : preds(v) \subseteq Vertices
  BY DEF preds, IsGraph
<1>3. ASSUME NEW v
      PROVE  above(v) \subseteq Vertices
  <2>1. Closed(backwards, Vertices)
    BY DEF Closed, backwards, IsGraph
  <2> QED
    BY <1>1, <1>2, <2>1 DEF Closure
<1>4. ASSUME NEW e \in edges
      PROVE  above(e[1]) \cup {e[1]} \subseteq above(e[2])
  <2>1. e = <<e[1], e[2]>>
    BY DEF IsGraph
  <2>2. e[1] \in preds(e[2])
    BY <2>1, Preds
  <2>3. preds(e[2]) \subseteq above(e[2]) /\ Closed(backwards, above(e[2]))
    BY <1>1 DEF Closure
  <2>4. preds(e[1]) \subseteq above(e[2])
    <3> SUFFICES ASSUME NEW u \in preds(e[1]) PROVE u \in above(e[2])
      OBVIOUS
    <3>1. <<u, e[1]>> \in edges
      BY Preds
    <3>2. <<e[1], u>> \in backwards /\ <<e[1], u>>[1] = e[1] /\ <<e[1], u>>[2] = u
      BY <3>1 DEF backwards
    <3> QED
      BY <2>2, <2>3, <3>2 DEF Closed
  <2>5. above(e[1]) \subseteq above(e[2])
    BY <1>1, <2>3, <2>4 DEF Closure
  <2> QED
    BY <2>2, <2>3, <2>5
<1> QED
  BY <1>3, <1>4

\* N gives all the containers around a container that types are enclosed by.
LEMMA Enclosed ==
  ASSUME Core, NEW N,
         \A e \in edges : e[1] \in arrays \cup structs /\ e[2] \in arrays \cup structs =>
           N[e[1]] \cup {e[1]} \subseteq N[e[2]],
         NEW v \in arrays \cup structs
  PROVE  enclosing(v) \subseteq N[v]
<1> SUFFICES ASSUME NEW u \in arrays \cup structs, v \in parts(u)
             PROVE  u \in N[v]
  BY DEF enclosing
<1>1. IsGraph
  BY TypedGraph DEF Core
<1> DEFINE X == {w \in Vertices : w \in arrays \cup structs => u \in N[w]}
<1>2. childs(u) \subseteq X
  <2> SUFFICES ASSUME NEW w \in childs(u) PROVE w \in X
    OBVIOUS
  <2>1. <<u, w>> \in edges /\ <<u, w>>[1] = u /\ <<u, w>>[2] = w /\ w \in Vertices
    BY <1>1, Childs DEF IsGraph
  <2> QED
    BY <2>1
<1>3. Closed(stored, X)
  <2> SUFFICES ASSUME NEW e \in stored, e[1] \in X PROVE e[2] \in X
    BY DEF Closed
  <2>1. e \in edges /\ e[1] \in Vertices /\ e[2] \in Vertices /\ type[e[1]].cat # "POINTER"
    BY <1>1 DEF stored, IsGraph
  <2>2. type[e[1]].cat # "SCALAR" /\ type[e[1]] \in Kinds
    BY <1>1, <2>1 DEF Core, Directed, Typed, IsGraph
  <2>3. e[1] \in arrays \cup structs
    BY <2>1, <2>2, Cats, Tracked DEF Core
  <2> QED
    BY <2>1, <2>3
<1>4. Closure(stored, childs(u), parts(u))
  BY <1>1, PartsClosure
<1>5. v \in X
  <2> HIDE DEF X
  <2> QED
    BY <1>2, <1>3, <1>4 DEF Closure
<1> QED
  BY <1>5

LEMMA NestedBounds == Core /\ Nested => NestingBounded
<1> SUFFICES ASSUME Core, Nested, NEW v \in arrays \cup structs
             PROVE  Bounded(enclosing(v) \cup {v}, arrays, structs)
  BY DEF NestingBounded, Bounded
<1>1. IsGraph
  BY TypedGraph DEF Core
<1>2. v \in Vertices /\ arrays \cup structs \subseteq Vertices
  BY Tracked DEF Core
<1>3. \E N \in [Vertices -> SUBSET Vertices] : Nesting(N, edges, arrays, structs)
  <2>1. CASE phase \in {"seed", "split"}
    <3> DEFINE N == [w \in Vertices |-> above(w)]
    <3>1. N \in [Vertices -> SUBSET Vertices]
      BY <1>1, AboveNests
    <3>2. \A e \in edges : N[e[1]] \cup {e[1]} \subseteq N[e[2]]
      BY <1>1, AboveNests DEF IsGraph
    <3>3. \A w \in arrays \cup structs : Bounded(N[w] \cup {w}, arrays, structs)
      BY <1>2, <2>1 DEF Nested
    <3> HIDE DEF N
    <3> QED
      BY <3>1, <3>2, <3>3 DEF Nesting
  <2> QED
    BY <2>1 DEF Nested
<1>4. PICK N \in [Vertices -> SUBSET Vertices] : Nesting(N, edges, arrays, structs)
  BY <1>3
<1>5. enclosing(v) \subseteq N[v] /\ Bounded(N[v] \cup {v}, arrays, structs)
  BY <1>4, Enclosed DEF Nesting
<1>6. N[v] \cup {v} \subseteq Vertices
  BY <1>2
<1>7. IsFiniteSet(N[v] \cup {v}) /\ enclosing(v) \cup {v} \subseteq N[v] \cup {v}
  BY <1>1, <1>5, <1>6, FiniteGraph
<1> QED
  BY <1>5, <1>7, BoundedPart

\* The vertex that is split is above none, and nothing gets above an old vertex.
LEMMA SplitAbove ==
  ASSUME Core, Core', phase = "split", NEW v, NEW c, NEW k, NEW m, Split(v, c, k, m), NEW w \in Vertices
  PROVE  above(w) \subseteq Vertices \ {v} /\ above(w)' \subseteq above(w)
<1> DEFINE n == Len(type)
<1>1. IsGraph /\ IsGraph'
  BY TypedGraph, TypedGraphPrimed DEF Core
<1>2. /\ n \in Nat /\ Vertices = 1..n
      /\ \A e \in edges : e[1] # v /\ e[1] \in Vertices /\ e[2] \in Vertices
      /\ \A e : e \in edges' <=> e \in edges \/ \E i \in 1..k : e = <<v, n + i>>
      /\ \A i \in 1..k : n + i \in Vertices' \ Vertices
  BY SplitAdds
<1> HIDE DEF n
<1>3. \A x, y : y \in Vertices /\ <<x, y>> \in edges' => <<x, y>> \in edges
  BY <1>2
<1>4. above(w) \subseteq Vertices \ {v}
  <2>1. preds(w) \subseteq Vertices \ {v}
    BY <1>2 DEF preds
  <2>2. Closed(backwards, Vertices \ {v})
    BY <1>2 DEF Closed, backwards
  <2>3. Closure(backwards, preds(w), above(w))
    BY <1>1, AboveClosure
  <2> QED
    BY <2>1, <2>2, <2>3 DEF Closure
<1>5. PICK X : X = above(w)
  OBVIOUS
<1>6. preds(w) \subseteq X /\ Closed(backwards, X)
  BY <1>1, <1>5, AboveClosure DEF Closure
<1>7. preds(w)' \subseteq X
  <2> SUFFICES ASSUME NEW x \in preds(w)' PROVE x \in X
    OBVIOUS
  <2>1. <<x, w>> \in edges'
    BY <1>1, PredsPrimed
  <2>2. x \in preds(w)
    BY <1>1, <1>3, <2>1, Preds
  <2> QED
    BY <1>6, <2>2
<1>8. Closed(backwards, X)'
  <2> SUFFICES ASSUME NEW e \in backwards', e[1] \in X PROVE e[2] \in X
    BY DEF Closed
  <2>1. PICK f \in edges' : e = <<f[2], f[1]>>
    BY DEF backwards
  <2>2. f = <<f[1], f[2]>> /\ f[2] \in Vertices
    BY <1>1, <1>4, <1>5, <2>1 DEF IsGraph
  <2>3. f \in edges
    BY <1>3, <2>2
  <2>4. e \in backwards
    BY <2>1, <2>3 DEF backwards
  <2> QED
    BY <1>6, <2>4 DEF Closed
<1>9. above(w)' \subseteq X
  <2>1. Closure(backwards, preds(w), above(w))'
    BY <1>1, AboveClosurePrimed
  <2> QED
    BY <1>7, <1>8, <2>1 DEF Closure, Closed
<1> QED
  BY <1>4, <1>5, <1>9

\* While splits go on, only containers are above anything.
LEMMA AboveContainers ==
  ASSUME Core, phase = "split", NEW v
  PROVE  above(v) \subseteq arrays \cup structs
<1>1. IsGraph
  BY TypedGraph DEF Core
<1>2. \A e \in edges : e[1] \in arrays \cup structs
  <2> TAKE e \in edges
  <2>1. e[1] \in Vertices /\ type[e[1]] \in Kinds
    BY <1>1 DEF Core, Typed, IsGraph
  <2>2. type[e[1]].cat # "SCALAR" /\ e[1] \notin pointers
    BY DEF Core, Directed
  <2> QED
    BY <2>1, <2>2, Cats, Tracked DEF Core
<1>3. preds(v) \subseteq arrays \cup structs
  BY <1>2 DEF preds
<1>4. Closed(backwards, arrays \cup structs)
  BY <1>2 DEF Closed, backwards
<1>5. Closure(backwards, preds(v), above(v))
  BY <1>1, AboveClosure
<1> QED
  BY <1>3, <1>4, <1>5 DEF Closure

\* One container more is within the limits if may_split allows it.
LEMMA OneMore ==
  ASSUME Core, phase = "split", NEW v \in Vertices, v \notin arrays \cup structs, may_split(v),
         NEW A, NEW T, \/ A = arrays \cup {v} /\ T = structs
                       \/ A = arrays /\ T = structs \cup {v}
  PROVE  Bounded(above(v) \cup {v}, A, T)
<1> DEFINE S == above(v)
           a == Cardinality(S \cap arrays)
           t == Cardinality(S \cap structs)
<1>1. arrays = of_cat("ARRAY") /\ structs = of_cat("STRUCT") /\ arrays \cap structs = {}
  BY DEF Core, SetsTracked, of_cat
<1>2. a < MaxArrPreds /\ t < MaxStructPreds /\ a + t < MaxPreds
  BY <1>1 DEF may_split
<1>3. S \subseteq arrays \cup structs /\ IsFiniteSet(S)
  <2>1. IsGraph
    BY TypedGraph DEF Core
  <2> QED
    BY <2>1, AboveContainers, AboveNests, FiniteGraph
<1>4. v \notin S
  BY <1>3
<1> HIDE DEF S
<1>5. IsFiniteSet(S \cap arrays) /\ IsFiniteSet(S \cap structs) /\ a \in Nat /\ t \in Nat
  BY <1>3, Smaller
<1>6. Cardinality(S) = a + t
  <2> DEFINE P == S \cap arrays
             Q == S \cap structs
  <2>1. P \cap Q = {} /\ P \cup Q = S
    BY <1>1, <1>3
  <2>2. Cardinality(P) = a /\ Cardinality(Q) = t /\ IsFiniteSet(P) /\ IsFiniteSet(Q)
    BY <1>5
  <2> HIDE DEF P, Q
  <2>3. Cardinality(P \cup Q) = Cardinality(P) + Cardinality(Q) - Cardinality(P \cap Q)
    BY <2>2, FS_Union
  <2>4. Cardinality(P \cap Q) = 0
    BY <2>1, FS_EmptySet
  <2>5. a \in Nat /\ t \in Nat
    BY <1>5
  <2> HIDE DEF a, t
  <2>6. Cardinality(P \cup Q) = a + t
    BY <2>2, <2>3, <2>4, <2>5
  <2> QED
    BY <2>1, <2>6
<1>7. \A U : IsFiniteSet(U) /\ v \notin U => Cardinality(U \cup {v}) = Cardinality(U) + 1
  BY FS_AddElement
<1>8. Cardinality(S \cup {v}) = a + t + 1
  BY <1>3, <1>4, <1>6, <1>7
<1>9. /\ MaxArrPreds \in Nat /\ MaxStructPreds \in Nat /\ MaxPreds \in Nat
      /\ Max({1, MaxArrPreds}) \in Nat /\ MaxArrPreds <= Max({1, MaxArrPreds})
      /\ Max({1, MaxPreds}) \in Nat /\ MaxPreds <= Max({1, MaxPreds})
  BY Limits
<1>10. Cardinality(S \cup {v}) <= Max({1, MaxPreds})
  <2> HIDE DEF a, t
  <2> QED
    BY <1>2, <1>5, <1>8, <1>9
<1>11. CASE A = arrays \cup {v} /\ T = structs
  <2>1. (S \cup {v}) \cap A = (S \cap arrays) \cup {v} /\ (S \cup {v}) \cap T = S \cap structs
    BY <1>4, <1>11
  <2>2. Cardinality((S \cup {v}) \cap A) = a + 1
    BY <1>4, <1>5, <1>7, <2>1
  <2>3. Cardinality((S \cup {v}) \cap T) = t
    BY <2>1
  <2> HIDE DEF a, t
  <2> QED
    BY <1>2, <1>5, <1>9, <1>10, <2>2, <2>3 DEF Bounded, S
<1>12. CASE A = arrays /\ T = structs \cup {v}
  <2>1. (S \cup {v}) \cap A = S \cap arrays /\ (S \cup {v}) \cap T = (S \cap structs) \cup {v}
    BY <1>4, <1>12
  <2>2. Cardinality((S \cup {v}) \cap T) = t + 1
    BY <1>4, <1>5, <1>7, <2>1
  <2>3. Cardinality((S \cup {v}) \cap A) = a
    BY <2>1
  <2> HIDE DEF a, t
  <2> QED
    BY <1>2, <1>5, <1>9, <1>10, <2>2, <2>3 DEF Bounded, S
<1> QED
  BY <1>11, <1>12

LEMMA SplitNested ==
  ASSUME Core, Core', Nested, do_split
  PROVE  Nested'
<1>1. phase = "split" /\ phase' = "split"
      /\ \E v \in leafs, c \in Containers : \E k \in Nat, m \in Nat :
           may_split(v) /\ Split(v, c, k, m)
  BY SplitParts DEF Core
<1>2. PICK v, c, k, m : may_split(v) /\ Split(v, c, k, m)
  BY <1>1
<1>3. v \in Vertices /\ type[v].cat = "SCALAR"
  BY <1>1, <1>2, SplitAdds
<1>4. v \notin arrays \cup structs
  BY <1>3, Tracked DEF Core
<1>5. \/ arrays' = arrays \cup {v} /\ structs' = structs
      \/ arrays' = arrays /\ structs' = structs \cup {v}
  BY <1>2 DEF Split
<1>6. IsGraph
  BY TypedGraph DEF Core
<1> SUFFICES ASSUME NEW w \in (arrays \cup structs) \cup {v}
             PROVE  Bounded(above(w)' \cup {w}, arrays', structs')
  BY <1>1, <1>5 DEF Nested
<1>7. w \in Vertices
  BY <1>3, Tracked DEF Core
<1>8. above(w) \subseteq Vertices \ {v} /\ above(w)' \subseteq above(w)
  BY <1>1, <1>2, <1>7, SplitAbove
<1>9. IsFiniteSet(above(w) \cup {w})
  <2>1. above(w) \cup {w} \subseteq Vertices
    BY <1>7, <1>8
  <2> QED
    BY <1>6, <2>1, FiniteGraph
<1>10. Bounded(above(w) \cup {w}, arrays', structs')
  <2>1. CASE w = v
    BY <1>1, <1>2, <1>3, <1>4, <1>5, <2>1, OneMore
  <2>2. CASE w # v
    <3>1. Bounded(above(w) \cup {w}, arrays, structs)
      BY <1>1, <2>2 DEF Nested
    <3>2. v \notin above(w) \cup {w}
      BY <1>8, <2>2
    <3>3. /\ (above(w) \cup {w}) \cap arrays' = (above(w) \cup {w}) \cap arrays
          /\ (above(w) \cup {w}) \cap structs' = (above(w) \cup {w}) \cap structs
      BY <1>5, <3>2
    <3> QED
      BY <3>1, <3>3 DEF Bounded
  <2> QED
    BY <2>1, <2>2
<1> QED
  BY <1>8, <1>9, <1>10, BoundedPart

\* After the splits, steps lead from no container to another that it did not lead to.
LEMMA KeptNested ==
  ASSUME phase \notin {"seed", "split"}, phase' \notin {"seed", "split"},
         Nested, Vertices' = Vertices, arrays' = arrays, structs' = structs,
         \A e \in edges' : e \in edges \/ e[1] \notin arrays \cup structs \/ e[2] \notin arrays \cup structs
  PROVE  Nested'
<1>1. PICK N \in [Vertices -> SUBSET Vertices] : Nesting(N, edges, arrays, structs)
  BY DEF Nested
<1>2. Nesting(N, edges', arrays', structs')
  BY <1>1 DEF Nesting
<1> QED
  BY <1>2 DEF Nested

\* The arrays that are added are in no container.
LEMMA ChooseNested ==
  ASSUME Core, Nested, choose_perms_idxs
  PROVE  Nested'
<1>1. phase = "perms" /\ phase' = "done" /\ structs' = structs
  BY AddedParts DEF choose_perms_idxs
<1>2. PICK N \in [Vertices -> SUBSET Vertices] : Nesting(N, edges, arrays, structs)
  BY <1>1 DEF Nested
<1>3. PICK int, n, k, w, miss : Added(int, n, k, w, miss)
  BY AddedParts
<1>4. IsGraph /\ arrays \cup structs \subseteq Vertices
  BY TypedGraph, Tracked DEF Core
<1>5. /\ n \in Nat /\ k \in Nat /\ Vertices' = 1..(n + k)
      /\ \A u \in Vertices : u \in Vertices' /\ u \notin (n + 1)..(n + k)
      /\ \A u \in (n + 1)..(n + k) : u \in Vertices'
  BY <1>3, <1>4 DEF Added, IsGraph
<1>6. \A u : u \in arrays' <=> u \in arrays \/ u \in (n + 1)..(n + k)
  BY <1>3 DEF Added
<1>7. w \notin arrays' \cup structs'
  <2>1. Core'
    BY ChooseCore
  <2>2. w \in Vertices' /\ type'[w].cat = "SCALAR"
    <3>1. w \in 1..n /\ type'[w] \in Integral
      BY <1>3 DEF Added
    <3> QED
      BY <1>5, <3>1, Cats DEF Integral
  <2>3. of_cat("ARRAY")' = arrays' /\ of_cat("STRUCT")' = structs'
    BY <2>1 DEF Core, SetsTracked
  <2> QED
    BY <2>2, <2>3 DEF of_cat
<1> DEFINE M == [u \in Vertices' |-> IF u \in Vertices THEN N[u] ELSE {}]
<1>8. M \in [Vertices' -> SUBSET Vertices'] /\ \A u \in Vertices : M[u] = N[u]
  BY <1>5
<1>9. \A u \in (n + 1)..(n + k) : M[u] = {}
  BY <1>5
<1> HIDE DEF M
<1>10. ASSUME NEW e \in edges', e[1] \in arrays' \cup structs', e[2] \in arrays' \cup structs'
       PROVE  M[e[1]] \cup {e[1]} \subseteq M[e[2]]
  <2>1. edges' \subseteq edges \cup {<<n + i, w>> : i \in 1..k}
    BY <1>3 DEF Added
  <2>2. e \in edges
    BY <1>7, <1>10, <2>1
  <2>3. e[1] \in Vertices /\ e[2] \in Vertices
    BY <1>4, <2>2 DEF IsGraph
  <2>4. e[1] \in arrays \cup structs /\ e[2] \in arrays \cup structs
    BY <1>1, <1>5, <1>6, <1>10, <2>3
  <2> QED
    BY <1>2, <1>8, <2>2, <2>3, <2>4 DEF Nesting
<1>11. ASSUME NEW u \in arrays' \cup structs'
       PROVE  Bounded(M[u] \cup {u}, arrays', structs')
  <2>1. CASE u \in arrays \cup structs
    <3>1. Bounded(N[u] \cup {u}, arrays, structs)
      BY <1>2, <2>1 DEF Nesting
    <3>2. N[u] \cup {u} \subseteq Vertices /\ M[u] = N[u]
      BY <1>2, <1>4, <1>8, <2>1
    <3>3. (N[u] \cup {u}) \cap arrays' = (N[u] \cup {u}) \cap arrays
      BY <1>5, <1>6, <3>2
    <3> QED
      BY <1>1, <3>1, <3>2, <3>3 DEF Bounded
  <2>2. CASE u \in (n + 1)..(n + k)
    <3>1. M[u] \cup {u} = {u}
      BY <1>9, <2>2
    <3>2. {u} \cap arrays' = {u} /\ {u} \cap structs' = {}
      BY <1>1, <1>4, <1>5, <1>6, <2>2
    <3>3. Cardinality({u}) = 1 /\ Cardinality({}) = 0
      BY FS_Singleton, FS_EmptySet
    <3>4. Max({1, MaxArrPreds}) \in Nat /\ 1 <= Max({1, MaxArrPreds})
          /\ Max({1, MaxPreds}) \in Nat /\ 1 <= Max({1, MaxPreds})
          /\ MaxStructPreds \in Nat /\ 0 <= MaxStructPreds
      BY Limits
    <3> QED
      BY <3>1, <3>2, <3>3, <3>4 DEF Bounded
  <2> QED
    BY <1>1, <1>6, <2>1, <2>2
<1>12. Nesting(M, edges', arrays', structs')
  BY <1>10, <1>11 DEF Nesting
<1> QED
  BY <1>1, <1>8, <1>12 DEF Nested

LEMMA NextNested ==
  ASSUME Core, Nested, [Next]_vars
  PROVE  Nested'
<1>1. Core'
  BY NextCore
<1>2. IsGraph /\ arrays \cup structs \subseteq Vertices
  BY TypedGraph, Tracked DEF Core
<1>3. CASE seed
  BY <1>3, SeedCore DEF Nested
<1>4. CASE do_split
  BY <1>1, <1>4, SplitNested
<1>5. ASSUME NEW S, S \subseteq Vertices, unify_subscalars(S),
             phase \in {"structs", "arrays"}, phase' \in {"arrays", "pointers"}
      PROVE  Nested'
  <2>1. Vertices' = Vertices /\ arrays' = arrays /\ structs' = structs
    BY <1>5 DEF unify_subscalars, sets, Vertices
  <2>2. ASSUME NEW e \in edges', e \notin edges
        PROVE  e[2] \notin arrays \cup structs
    <3>1. \E s : e[2] \in Vertices /\ type[e[2]] = scalar(s)
      BY <1>5, <2>2, UnifiedEdges DEF Core
    <3> QED
      BY <3>1, Cats, Tracked DEF Core
  <2> QED
    BY <1>5, <2>1, <2>2, KeptNested
<1>6. CASE unify_structs
  BY <1>2, <1>5, <1>6 DEF unify_structs
<1>7. CASE unify_arrays
  BY <1>2, <1>5, <1>7 DEF unify_arrays
<1>8. CASE process_pointer
  <2>1. PICK p \in todo : p = Min(todo)
    <3>1. todo \subseteq Nat /\ todo # {}
      BY <1>8 DEF Core, Typed, SetsTracked, of_cat, Vertices, process_pointer
    <3> QED
      BY <3>1, MinOf
  <2>2. PICK u : edges' = edges \cup {<<p, u>>}
    BY <1>8, <2>1 DEF process_pointer
  <2>3. p \notin arrays \cup structs
    <3>1. p \in pointers
      BY DEF Core, Typed
    <3> QED
      BY <3>1, Tracked DEF Core
  <2>4. Vertices' = Vertices /\ arrays' = arrays /\ structs' = structs /\ phase' = phase /\ phase = "pointers"
    BY <1>8 DEF process_pointer, sets, Vertices
  <2>5. \A e \in edges' : e \in edges \/ e[1] \notin arrays \cup structs
    BY <2>2, <2>3
  <2> QED
    BY <2>4, <2>5, KeptNested
<1>9. CASE choose_perms_idxs
  BY <1>9, ChooseNested
<1>10. CASE Quiet
  <2>1. /\ Vertices' = Vertices /\ arrays' = arrays /\ structs' = structs /\ edges' = edges
        /\ type' = type
    BY <1>10 DEF Quiet, sets, Vertices
  <2>2. phase' \in {"seed", "split"} => phase' = phase
    BY <1>10 DEF Quiet, SamePhases
  <2>3. CASE phase' \in {"seed", "split"}
    <3>1. \A v : above(v)' = above(v)
      BY <2>1 DEF above, preds
    <3> QED
      BY <2>1, <2>2, <2>3, <3>1 DEF Nested
  <2>4. CASE phase' \notin {"seed", "split"} /\ phase \notin {"seed", "split"}
    BY <2>1, <2>4, KeptNested
  <2>5. CASE phase' \notin {"seed", "split"} /\ phase \in {"seed", "split"}
    <3> DEFINE N == [v \in Vertices |-> above(v)]
    <3>1. N \in [Vertices -> SUBSET Vertices]
      BY <1>2, AboveNests
    <3>2. \A e \in edges : N[e[1]] \cup {e[1]} \subseteq N[e[2]]
      BY <1>2, AboveNests DEF IsGraph
    <3>3. \A v \in arrays \cup structs : Bounded(N[v] \cup {v}, arrays, structs)
      BY <1>2, <2>5 DEF Nested
    <3> HIDE DEF N
    <3>4. Nesting(N, edges, arrays, structs)
      BY <3>2, <3>3 DEF Nesting
    <3> QED
      BY <2>1, <2>5, <3>1, <3>4 DEF Nested
  <2> QED
    BY <2>3, <2>4, <2>5
<1> QED
  BY <1>3, <1>4, <1>6, <1>7, <1>8, <1>9, <1>10, Steps

\* Containers are not nested deeper than the options allow.
THEOREM NestingStaysBounded == Spec => []NestingBounded
<1>1. Init => Nested
  BY DEF Init, Nested
<1>2. Core /\ Nested /\ [Next]_vars => Nested'
  BY NextNested
<1>3. Spec => []Nested
  BY <1>1, <1>2, CoreInvariance, PTL DEF Spec
<1> QED
  BY <1>3, CoreInvariance, NestedBounds, PTL

-----------------------------------------------------------------------------
(* The analysis of a finished graph                                        *)

\* What acc_ is while it is computed, and its rounds.
Accs == [any : SUBSET (Vertices \X Vertices), direct : SUBSET (Vertices \X Vertices)]

Rounds(g) == g[0] = adjacent /\ \A k \in 1..Len(type) : g[k] = by_way_of(g[k - 1], k)

LEMMA AdjacentAccs == IsGraph => adjacent \in Accs
BY DEF IsGraph, Accs, adjacent

LEMMA ByWayOf ==
  ASSUME NEW acc \in Accs, NEW k
  PROVE  /\ by_way_of(acc, k) \in Accs
         /\ \A x, y : <<x, y>> \in by_way_of(acc, k).any <=>
              <<x, y>> \in acc.any \/ (<<x, k>> \in acc.any /\ <<k, y>> \in acc.any)
         /\ \A x, y : <<x, y>> \in by_way_of(acc, k).direct =>
              <<x, y>> \in acc.direct \/ (<<x, k>> \in acc.direct /\ <<k, y>> \in acc.direct)
<1> DEFINE thru(E) == {<<e[1], f[2]>> : e \in {h \in E : h[2] = k}, f \in {h \in E : h[1] = k}}
<1>1. acc.any \subseteq Vertices \X Vertices /\ acc.direct \subseteq Vertices \X Vertices
  BY DEF Accs
<1>2. by_way_of(acc, k) = [any |-> acc.any \cup thru(acc.any), direct |-> acc.direct \cup (thru(acc.direct) \ acc.any)]
  BY DEF by_way_of
<1>3. ASSUME NEW E, E \subseteq Vertices \X Vertices
      PROVE  /\ thru(E) \subseteq Vertices \X Vertices
             /\ \A x, y : <<x, y>> \in thru(E) <=> <<x, k>> \in E /\ <<k, y>> \in E
  <2>1. ASSUME NEW e \in E, NEW f \in E, e[2] = k, f[1] = k
        PROVE  /\ <<e[1], k>> \in E /\ <<k, f[2]>> \in E
               /\ <<e[1], f[2]>> \in Vertices \X Vertices
    <3>1. e = <<e[1], e[2]>> /\ f = <<f[1], f[2]>> /\ e[1] \in Vertices /\ f[2] \in Vertices
      BY <1>3
    <3> QED
      BY <2>1, <3>1
  <2>2. thru(E) \subseteq Vertices \X Vertices
    <3> SUFFICES ASSUME NEW e \in {h \in E : h[2] = k}, NEW f \in {h \in E : h[1] = k}
                 PROVE  <<e[1], f[2]>> \in Vertices \X Vertices
      OBVIOUS
    <3>1. e \in E /\ f \in E /\ e[2] = k /\ f[1] = k
      OBVIOUS
    <3> QED
      BY <2>1, <3>1
  <2>3. ASSUME NEW x, NEW y, <<x, y>> \in thru(E)
        PROVE  <<x, k>> \in E /\ <<k, y>> \in E
    <3>1. PICK e \in {h \in E : h[2] = k}, f \in {h \in E : h[1] = k} : <<x, y>> = <<e[1], f[2]>>
      BY <2>3
    <3>2. x = e[1] /\ y = f[2]
      BY <3>1
    <3> QED
      BY <2>1, <3>2
  <2>4. ASSUME NEW x, NEW y, <<x, k>> \in E, <<k, y>> \in E
        PROVE  <<x, y>> \in thru(E)
    <3>1. <<x, k>> \in {e \in E : e[2] = k} /\ <<k, y>> \in {e \in E : e[1] = k}
      BY <2>4
    <3>2. <<x, y>> = <<(<<x, k>>)[1], (<<k, y>>)[2]>>
      OBVIOUS
    <3> QED
      BY <3>1, <3>2
  <2> HIDE DEF thru
  <2> QED
    BY <2>2, <2>3, <2>4
<1> HIDE DEF thru
<1>4. by_way_of(acc, k) \in Accs
  BY <1>1, <1>2, <1>3 DEF Accs
<1>5. /\ by_way_of(acc, k).any = acc.any \cup thru(acc.any)
      /\ by_way_of(acc, k).direct = acc.direct \cup (thru(acc.direct) \ acc.any)
  BY <1>2
<1> QED
  BY <1>1, <1>3, <1>4, <1>5

\* acc_ is what the rounds come to.
LEMMA LastRound ==
  IsGraph => \E g \in [0..Len(type) -> Accs] : Rounds(g) /\ acc_ = g[Len(type)]
<1> SUFFICES ASSUME IsGraph
             PROVE  \E g \in [0..Len(type) -> Accs] : Rounds(g) /\ acc_ = g[Len(type)]
  OBVIOUS
<1> DEFINE n == Len(type)
           round[k \in 0..n] == IF k = 0 THEN adjacent ELSE by_way_of(round[k - 1], k)
           F == [p \in (1..n) \X Accs |-> by_way_of(p[2], p[1])]
<1>1. n \in Nat
  BY DEF IsGraph
<1>2. acc_ = round[n]
  BY DEF acc_
<1>3. adjacent \in Accs
  BY AdjacentAccs
<1>4. F \in [(1..n) \X Accs -> Accs] /\ \A i \in 1..n : \A a \in Accs : F[<<i, a>>] = by_way_of(a, i)
  <2>1. \A p \in (1..n) \X Accs : p[2] \in Accs
    OBVIOUS
  <2>2. \A p \in (1..n) \X Accs : by_way_of(p[2], p[1]) \in Accs
    BY <2>1, ByWayOf
  <2> QED
    BY <2>2
<1> HIDE DEF n, F
<1>5. PICK g \in [0..n -> Accs] : g[0] = adjacent /\ \A i \in 1..n : g[i] = F[<<i, g[i - 1]>>]
  <2>1. Iterated(n, Accs, adjacent, F)
    BY <1>1, <1>3, <1>4, IterateExists
  <2> QED
    BY <2>1 DEF Iterated
<1>6. \A i \in 1..n : g[i] = by_way_of(g[i - 1], i)
  <2> TAKE i \in 1..n
  <2>1. g[i - 1] \in Accs
    BY <1>1, <1>5
  <2> QED
    BY <1>4, <1>5, <2>1
<1>7. g = [i \in 0..n |-> IF i = 0 THEN adjacent ELSE by_way_of(g[i - 1], i)]
  BY <1>1, <1>5, <1>6
<1>8. round = [i \in 0..n |-> IF i = 0 THEN adjacent ELSE by_way_of(round[i - 1], i)]
  BY <1>7
<1> HIDE DEF round
<1>9. round[0] = g[0] /\ \A i \in 1..n : round[i - 1] = g[i - 1] => round[i] = g[i]
  BY <1>1, <1>5, <1>6, <1>8
<1>10. round[n] = g[n]
  BY <1>1, <1>9, SameLast
<1> QED
  BY <1>2, <1>5, <1>6, <1>10 DEF Rounds, n

\* Edges lead on from where they have led.
LEMMA ReachSteps ==
  ASSUME IsGraph, NEW E, E \subseteq Vertices \X Vertices
  PROVE  /\ \A x, y : <<x, y>> \in E => y \in reach(x, E)
         /\ \A x, y, z : x \in Vertices /\ y \in Vertices /\ y \in reach(x, E) /\ z \in reach(y, E)
                         => z \in reach(x, E)
<1>1. \A x \in Vertices : x \in reach(x, E) /\ Closed(E, reach(x, E))
  BY ReachClosure DEF Closure
<1>2. ASSUME NEW x, NEW y, <<x, y>> \in E
      PROVE  y \in reach(x, E)
  <2>1. x \in Vertices /\ <<x, y>>[1] = x /\ <<x, y>>[2] = y
    BY <1>2
  <2> QED
    BY <1>1, <1>2, <2>1 DEF Closed
<1>3. ASSUME NEW x \in Vertices, NEW y \in Vertices, NEW z, y \in reach(x, E), z \in reach(y, E)
      PROVE  z \in reach(x, E)
  <2>1. Closure(E, {y}, reach(y, E))
    BY ReachClosure
  <2>2. {y} \subseteq reach(x, E) /\ Closed(E, reach(x, E))
    BY <1>1, <1>3
  <2>3. reach(y, E) \subseteq reach(x, E)
    BY <2>1, <2>2 DEF Closure
  <2> QED
    BY <1>3, <2>3
<1> QED
  BY <1>2, <1>3

\* After the rounds over 1..k, acc has all the ways by these vertices, and each of
\* them is a way.
Halfway(acc, k) ==
  /\ adjacent.any \subseteq acc.any
  /\ \A x, y : <<x, y>> \in acc.any => y \in reach(x, adjacent.any)
  /\ \A x, y : <<x, y>> \in acc.direct => y \in reach(x, adjacent.direct)
  /\ \A j \in 1..k : \A x, y : <<x, j>> \in acc.any /\ <<j, y>> \in acc.any => <<x, y>> \in acc.any

LEMMA RoundHalfway ==
  ASSUME IsGraph, NEW k \in 1..Len(type), NEW acc \in Accs, Halfway(acc, k - 1)
  PROVE  Halfway(by_way_of(acc, k), k)
<1>1. adjacent \in Accs
  BY AdjacentAccs
<1>2. /\ acc.any \subseteq Vertices \X Vertices /\ acc.direct \subseteq Vertices \X Vertices
      /\ adjacent.any \subseteq Vertices \X Vertices /\ adjacent.direct \subseteq Vertices \X Vertices
  BY <1>1 DEF Accs
<1>3. k \in Vertices /\ k \in Nat
  BY DEF IsGraph
<1> DEFINE new == by_way_of(acc, k)
<1>4. /\ \A x, y : <<x, y>> \in new.any <=>
           <<x, y>> \in acc.any \/ (<<x, k>> \in acc.any /\ <<k, y>> \in acc.any)
      /\ \A x, y : <<x, y>> \in new.direct =>
           <<x, y>> \in acc.direct \/ (<<x, k>> \in acc.direct /\ <<k, y>> \in acc.direct)
  BY ByWayOf
<1> HIDE DEF new
<1>5. adjacent.any \subseteq new.any
  <2>1. \A x, y : <<x, y>> \in adjacent.any => <<x, y>> \in new.any
    BY <1>4 DEF Halfway
  <2> QED
    BY <1>2, <2>1
<1>6. ASSUME NEW x, NEW y, <<x, y>> \in new.any
      PROVE  y \in reach(x, adjacent.any)
  <2>1. CASE <<x, y>> \in acc.any
    BY <2>1 DEF Halfway
  <2>2. CASE <<x, k>> \in acc.any /\ <<k, y>> \in acc.any
    <3>1. k \in reach(x, adjacent.any) /\ y \in reach(k, adjacent.any) /\ x \in Vertices
      BY <1>2, <2>2 DEF Halfway
    <3> QED
      BY <1>2, <1>3, <3>1, ReachSteps
  <2> QED
    BY <1>4, <1>6, <2>1, <2>2
<1>7. ASSUME NEW x, NEW y, <<x, y>> \in new.direct
      PROVE  y \in reach(x, adjacent.direct)
  <2>1. CASE <<x, y>> \in acc.direct
    BY <2>1 DEF Halfway
  <2>2. CASE <<x, k>> \in acc.direct /\ <<k, y>> \in acc.direct
    <3>1. k \in reach(x, adjacent.direct) /\ y \in reach(k, adjacent.direct) /\ x \in Vertices
      BY <1>2, <2>2 DEF Halfway
    <3> QED
      BY <1>2, <1>3, <3>1, ReachSteps
  <2> QED
    BY <1>4, <1>7, <2>1, <2>2
<1>8. ASSUME NEW j \in 1..k, NEW x, NEW y, <<x, j>> \in new.any, <<j, y>> \in new.any
      PROVE  <<x, y>> \in new.any
  <2>1. CASE j = k
    BY <1>4, <1>8, <2>1
  <2>2. CASE j # k
    <3>1. j \in 1..(k - 1)
      BY <1>3, <2>2
    <3>2. \A a, b : <<a, j>> \in acc.any /\ <<j, b>> \in acc.any => <<a, b>> \in acc.any
      BY <3>1 DEF Halfway
    <3> QED
      BY <1>4, <1>8, <3>2
  <2> QED
    BY <2>1, <2>2
<1> QED
  BY <1>5, <1>6, <1>7, <1>8 DEF Halfway, new

\* After the last round acc_ has all ways, and no other pairs.
LEMMA AccComplete ==
  IsGraph => acc_ \in Accs /\ Halfway(acc_, Len(type))
<1> SUFFICES ASSUME IsGraph PROVE acc_ \in Accs /\ Halfway(acc_, Len(type))
  OBVIOUS
<1>1. Len(type) \in Nat /\ adjacent \in Accs
  BY AdjacentAccs DEF IsGraph
<1>2. PICK g \in [0..Len(type) -> Accs] : Rounds(g) /\ acc_ = g[Len(type)]
  BY LastRound
<1>3. Halfway(adjacent, 0)
  <2>1. adjacent.any \subseteq Vertices \X Vertices /\ adjacent.direct \subseteq Vertices \X Vertices
    BY <1>1 DEF Accs
  <2> QED
    BY <2>1, ReachSteps DEF Halfway
<1> DEFINE T == {k \in 0..Len(type) : Halfway(g[k], k)}
<1>4. 0 \in T
  BY <1>1, <1>2, <1>3 DEF Rounds
<1>5. \A k \in 1..Len(type) : k - 1 \in T => k \in T
  <2> SUFFICES ASSUME NEW k \in 1..Len(type), Halfway(g[k - 1], k - 1)
               PROVE  Halfway(g[k], k)
    BY <1>1
  <2>1. g[k - 1] \in Accs /\ g[k] = by_way_of(g[k - 1], k)
    BY <1>1, <1>2 DEF Rounds
  <2> QED
    BY <2>1, RoundHalfway
<1>6. 0..Len(type) \subseteq T
  <2> HIDE DEF T
  <2> QED
    BY <1>1, <1>4, <1>5, Induction
<1>7. Halfway(g[Len(type)], Len(type)) /\ g[Len(type)] \in Accs
  BY <1>1, <1>2, <1>6
<1> QED
  BY <1>2, <1>7

LEMMA GraphAccess == IsGraph => AccessExact
<1> SUFFICES ASSUME IsGraph, NEW v \in Vertices
             PROVE  /\ {e[2] : e \in {x \in acc_.any : x[1] = v}} = reach(v, adjacent.any)
                    /\ {e[2] : e \in {x \in acc_.direct : x[1] = v}} \subseteq reach(v, adjacent.direct)
  BY DEF AccessExact
<1> DEFINE E == adjacent.any
           R == acc_.any
           D == acc_.direct
<1>1. /\ E \subseteq Vertices \X Vertices /\ R \subseteq Vertices \X Vertices
      /\ D \subseteq Vertices \X Vertices
  BY AdjacentAccs, AccComplete DEF Accs
<1>2. /\ E \subseteq R
      /\ \A x, y : <<x, y>> \in R => y \in reach(x, E)
      /\ \A x, y : <<x, y>> \in D => y \in reach(x, adjacent.direct)
      /\ \A j \in Vertices : \A x, y : <<x, j>> \in R /\ <<j, y>> \in R => <<x, y>> \in R
  BY AccComplete DEF Halfway, IsGraph
<1>3. <<v, v>> \in E
  BY DEF adjacent
<1> HIDE DEF E, R, D
<1>4. ASSUME NEW Q, Q \subseteq Vertices \X Vertices
      PROVE  \A y : y \in {e[2] : e \in {x \in Q : x[1] = v}} <=> <<v, y>> \in Q
  <2>1. \A e \in Q : e = <<e[1], e[2]>>
    BY <1>4
  <2>2. \A y : <<v, y>>[1] = v /\ <<v, y>>[2] = y
    OBVIOUS
  <2> QED
    BY <2>1, <2>2
<1> DEFINE X == {y \in Vertices : <<v, y>> \in R}
<1>5. v \in X
  BY <1>2, <1>3
<1>6. Closed(E, X)
  <2> SUFFICES ASSUME NEW e \in E, e[1] \in X PROVE e[2] \in X
    BY DEF Closed
  <2>1. e = <<e[1], e[2]>> /\ e[1] \in Vertices /\ e[2] \in Vertices
    BY <1>1
  <2>2. <<e[1], e[2]>> \in R
    BY <1>2, <2>1
  <2> QED
    BY <1>2, <2>1, <2>2
<1>7. reach(v, E) \subseteq X
  <2>1. Closure(E, {v}, reach(v, E))
    BY <1>1, ReachClosure
  <2>2. {v} \subseteq X
    BY <1>5
  <2> HIDE DEF X
  <2> QED
    BY <1>6, <2>1, <2>2 DEF Closure
<1>8. \A y : <<v, y>> \in R <=> y \in reach(v, E)
  BY <1>2, <1>7
<1>9. {e[2] : e \in {x \in R : x[1] = v}} = reach(v, E)
  <2>1. \A y : y \in {e[2] : e \in {x \in R : x[1] = v}} <=> y \in reach(v, E)
    BY <1>1, <1>4, <1>8
  <2> QED
    BY <2>1
<1>10. {e[2] : e \in {x \in D : x[1] = v}} \subseteq reach(v, adjacent.direct)
  <2>1. \A y : y \in {e[2] : e \in {x \in D : x[1] = v}} => y \in reach(v, adjacent.direct)
    BY <1>1, <1>2, <1>4
  <2> QED
    BY <2>1
<1> QED
  BY <1>9, <1>10 DEF E, R, D

\* The closure finds all access there is through members, elements and pointees, and
\* no other; it calls direct only what is stored in the type itself.
THEOREM AccessIsExact == Spec => []AccessExact
<1>1. Core => AccessExact
  BY TypedGraph, GraphAccess DEF Core
<1> QED
  BY <1>1, CoreInvariance, PTL
==============================================================================
