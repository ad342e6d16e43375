-------------------------- MODULE VarAssignProofs ---------------------------
(* What holds of the variables of a program whatever its types, functions   *)
(* and options are: every variable has one owner and one purpose, whatever  *)
(* it consists of is served, and permutators fit their arrays.              *)
EXTENDS VarAssign, FiniteSetTheorems, WellFoundedInduction, TLAPS

-----------------------------------------------------------------------------
(* Naturals and functions that iterate                                     *)

\* A set of naturals that is not empty has a least element.
LEMMA Least ==
  ASSUME NEW T, T \subseteq Nat, T # {}
  PROVE  \E m \in T : \A k \in T : m <= k
<1>1. IsWellFoundedOn(OpToRel(<, Nat), Nat)
  BY NatLessThanWellFounded
<1>2. PICK x \in T : \A y \in T : ~ (<<y, x>> \in OpToRel(<, Nat))
  BY <1>1, WFMin
<1>3. \A y \in T : ~(y < x)
  BY <1>2 DEF OpToRel
<1> QED
  BY <1>3

\* What holds of 0 and of the successor of what it holds of holds up to n.
LEMMA Induction ==
  ASSUME NEW n \in Nat, NEW T, 0 \in T, \A i \in 1..n : i - 1 \in T => i \in T
  PROVE  0..n \subseteq T
<1> SUFFICES ASSUME NEW j \in 0..n, j \notin T PROVE FALSE
  OBVIOUS
<1> DEFINE U == (0..n) \ T
<1>0. U \subseteq Nat /\ U # {}
  OBVIOUS
<1>1. PICK m \in U : \A k \in U : m <= k
  <2> HIDE DEF U
  <2> QED
    BY <1>0, Least
<1>2. m \in 1..n /\ m - 1 \in T
  BY <1>1
<1> QED
  BY <1>1, <1>2

\* F takes A on in n steps.
Iterated(n, D, A, F) ==
  \E g \in [0..n -> D] : g[0] = A /\ \A i \in 1..n : g[i] = F[<<i, g[i - 1]>>]

\* So it is for functions of a step and a member of a set to that set.
LEMMA IterateExists ==
  ASSUME NEW n \in Nat, NEW D, NEW A \in D, NEW F \in [(1..n) \X D -> D]
  PROVE  Iterated(n, D, A, F)
<1> DEFINE Upto(k) == \E g \in [0..k -> D] : g[0] = A /\ \A i \in 1..k : g[i] = F[<<i, g[i - 1]>>]
           T == {k \in 0..n : Upto(k)}
<1>1. Upto(0)
  <2> DEFINE g == [i \in 0..0 |-> A]
  <2>1. g \in [0..0 -> D] /\ g[0] = A /\ \A i \in 1..0 : g[i] = F[<<i, g[i - 1]>>]
    OBVIOUS
  <2> QED
    BY <2>1
<1>2. ASSUME NEW k \in 1..n, Upto(k - 1)
      PROVE  Upto(k)
  <2>1. PICK g \in [0..(k - 1) -> D] : g[0] = A /\ \A i \in 1..(k - 1) : g[i] = F[<<i, g[i - 1]>>]
    BY <1>2
  <2> DEFINE last == F[<<k, g[k - 1]>>]
             h == [i \in 0..k |-> IF i = k THEN last ELSE g[i]]
  <2>2. last \in D
    <3>1. g[k - 1] \in D
      BY <2>1
    <3> QED
      BY <3>1
  <2>3. h \in [0..k -> D]
    BY <2>1, <2>2
  <2>4. h[0] = A /\ \A i \in 1..(k - 1) : h[i] = g[i] /\ h[i - 1] = g[i - 1]
    BY <2>1
  <2>5. h[k] = F[<<k, h[k - 1]>>]
    <3>1. h[k] = last
      OBVIOUS
    <3>2. h[k - 1] = g[k - 1]
      OBVIOUS
    <3> HIDE DEF h
    <3> QED
      BY <3>1, <3>2
  <2>6. \A i \in 1..k : h[i] = F[<<i, h[i - 1]>>]
    <3> HIDE DEF h
    <3> TAKE i \in 1..k
    <3>1. CASE i = k
      BY <2>5, <3>1
    <3>2. CASE i # k
      <4>1. i \in 1..(k - 1)
        BY <3>2
      <4> QED
        BY <2>1, <2>4, <4>1
    <3> QED
      BY <3>1, <3>2
  <2> HIDE DEF h
  <2> QED
    BY <2>3, <2>4, <2>6
<1> HIDE DEF Upto
<1>3. 0 \in T /\ \A i \in 1..n : i - 1 \in T => i \in T
  BY <1>1, <1>2
<1>4. Upto(n)
  <2>1. 0..n \subseteq T
    <3> HIDE DEF T
    <3> QED
      BY <1>3, Induction
  <2> QED
    BY <2>1
<1>5. PICK g \in [0..n -> D] : g[0] = A /\ \A i \in 1..n : g[i] = F[<<i, g[i - 1]>>]
  BY <1>4 DEF Upto
<1> QED
  BY <1>5 DEF Iterated

-----------------------------------------------------------------------------

LEMMA SameLast ==
  ASSUME NEW n \in Nat, NEW f, NEW g, f[0] = g[0],
         \A i \in 1..n : f[i - 1] = g[i - 1] => f[i] = g[i]
  PROVE  f[n] = g[n]
<1> DEFINE T == {i \in 0..n : f[i] = g[i]}
<1>1. 0 \in T /\ \A i \in 1..n : i - 1 \in T => i \in T
  OBVIOUS
<1>2. 0..n \subseteq T
  <2> HIDE DEF T
  <2> QED
    BY <1>1, Induction
<1> QED
  BY <1>2

-----------------------------------------------------------------------------
(* Sequences                                                               *)

\* No element of s occurs twice.
Distinct(s) == \A i, j \in 1..Len(s) : s[i] = s[j] => i = j

LEMMA RangeIn ==
  ASSUME NEW S, NEW s \in Seq(S)
  PROVE  Range(s) \subseteq S
BY DEF Range

LEMMA SequenceOf ==
  ASSUME NEW S, NEW k \in Nat, NEW f \in [1..k -> S]
  PROVE  f \in Seq(S) /\ Len(f) = k /\ \A i \in 1..k : f[i] \in S
OBVIOUS

\* Both, one after the other.
Joined(a, b, s) ==
  /\ Len(s) = Len(a) + Len(b)
  /\ \A i \in 1..Len(a) : s[i] = a[i]
  /\ \A i \in 1..Len(b) : s[Len(a) + i] = b[i]

LEMMA Joins ==
  ASSUME NEW S, NEW a \in Seq(S), NEW b \in Seq(S)
  PROVE  a \o b \in Seq(S) /\ Joined(a, b, a \o b)
BY DEF Joined

Appended(a, e, s) ==
  Len(s) = Len(a) + 1 /\ s[Len(a) + 1] = e /\ \A i \in 1..Len(a) : s[i] = a[i]

LEMMA Appends ==
  ASSUME NEW S, NEW a \in Seq(S), NEW e \in S
  PROVE  Append(a, e) \in Seq(S) /\ Appended(a, e, Append(a, e))
BY DEF Appended

\* The variables that are created next continue a list of earlier ones.
LEMMA Longer ==
  ASSUME NEW n \in Nat, NEW m \in Nat, n <= m, NEW s \in Seq(1..n), NEW ids \in Seq((n + 1)..m),
         Distinct(s),
         Distinct(ids)
  PROVE  /\ s \o ids \in Seq(1..m) /\ Range(s \o ids) = Range(s) \cup Range(ids)
         /\ Distinct(s \o ids)
<1> DEFINE t == s \o ids
           k == Len(s)
           l == Len(ids)
<1>1. /\ k \in Nat /\ l \in Nat /\ DOMAIN s = 1..k /\ DOMAIN ids = 1..l
      /\ \A i \in 1..k : s[i] \in 1..n
      /\ \A i \in 1..l : ids[i] \in (n + 1)..m
  OBVIOUS
<1>2. Len(t) = k + l /\ DOMAIN t = 1..(k + l)
      /\ \A i \in 1..(k + l) : t[i] = IF i <= k THEN s[i] ELSE ids[i - k]
  OBVIOUS
<1>3. \A i \in 1..(k + l) : i <= k => i \in 1..k /\ t[i] = s[i]
  BY <1>1, <1>2
<1>4. \A i \in 1..(k + l) : ~(i <= k) => i - k \in 1..l /\ t[i] = ids[i - k]
  BY <1>1, <1>2
<1>5. t \in Seq(1..m)
  OBVIOUS
<1> HIDE DEF t, k, l
<1>6. ASSUME NEW i \in 1..(k + l), NEW j \in 1..(k + l), t[i] = t[j]
      PROVE  i = j
  <2>1. CASE i <= k /\ j <= k
    BY <1>1, <1>3, <1>6, <2>1 DEF k, Distinct
  <2>2. CASE ~(i <= k) /\ ~(j <= k)
    <3>1. i - k = j - k
      BY <1>4, <1>6, <2>2 DEF l, Distinct
    <3> QED
      BY <1>1, <3>1
  <2>3. CASE i <= k /\ ~(j <= k)
    <3>1. t[i] \in 1..n /\ t[j] \in (n + 1)..m
      BY <1>1, <1>3, <1>4, <2>3
    <3> QED
      BY <1>6, <3>1
  <2>4. CASE ~(i <= k) /\ j <= k
    <3>1. t[j] \in 1..n /\ t[i] \in (n + 1)..m
      BY <1>1, <1>3, <1>4, <2>4
    <3> QED
      BY <1>6, <3>1
  <2> QED
    BY <2>1, <2>2, <2>3, <2>4
<1>7. Range(t) = Range(s) \cup Range(ids)
  <2>1. ASSUME NEW x \in Range(t)
        PROVE  x \in Range(s) \cup Range(ids)
    <3>1. PICK i \in 1..(k + l) : t[i] = x
      BY <1>2, <2>1 DEF Range
    <3> QED
      BY <1>1, <1>3, <1>4, <3>1 DEF Range
  <2>2. ASSUME NEW x \in Range(s)
        PROVE  x \in Range(t)
    <3>1. PICK i \in 1..k : s[i] = x
      BY <1>1, <2>2 DEF Range
    <3>2. i \in 1..(k + l) /\ i <= k
      BY <1>1
    <3> QED
      BY <1>2, <1>3, <3>1, <3>2 DEF Range
  <2>3. ASSUME NEW x \in Range(ids)
        PROVE  x \in Range(t)
    <3>1. PICK i \in 1..l : ids[i] = x
      BY <1>1, <2>3 DEF Range
    <3>2. k + i \in 1..(k + l) /\ ~(k + i <= k) /\ (k + i) - k = i
      BY <1>1
    <3>3. t[k + i] = x
      BY <1>4, <3>1, <3>2
    <3> QED
      BY <1>2, <3>2, <3>3 DEF Range
  <2> QED
    BY <2>1, <2>2, <2>3
<1> QED
  BY <1>2, <1>5, <1>6, <1>7 DEF t, Distinct

\* One more at the end.
LEMMA OneLonger ==
  ASSUME NEW T, NEW s \in Seq(T), NEW x \in T, x \notin Range(s),
         Distinct(s)
  PROVE  /\ Append(s, x) \in Seq(T) /\ Range(Append(s, x)) = Range(s) \cup {x}
         /\ Distinct(Append(s, x))
<1> DEFINE t == Append(s, x)
           k == Len(s)
<1>1. k \in Nat /\ DOMAIN s = 1..k /\ t \in Seq(T)
  OBVIOUS
<1>2. Len(t) = k + 1 /\ DOMAIN t = 1..(k + 1) /\ t[k + 1] = x /\ \A i \in 1..k : t[i] = s[i]
  OBVIOUS
<1> HIDE DEF t
<1>3. \A i \in 1..k : t[i] \in Range(s)
  BY <1>1, <1>2 DEF Range
<1>4. ASSUME NEW i \in 1..(k + 1), NEW j \in 1..(k + 1), t[i] = t[j]
      PROVE  i = j
  <2>1. CASE i = k + 1 \/ j = k + 1
    <3>1. i \in 1..k => t[i] \in Range(s)
      BY <1>3
    <3>2. j \in 1..k => t[j] \in Range(s)
      BY <1>3
    <3> QED
      BY <1>1, <1>2, <1>4, <2>1, <3>1, <3>2
  <2>2. CASE i \in 1..k /\ j \in 1..k
    BY <1>2, <1>4, <2>2 DEF Distinct
  <2> QED
    BY <1>1, <2>1, <2>2
<1>5. Range(t) = Range(s) \cup {x}
  <2>1. \A i \in 1..(k + 1) : i \in 1..k \/ i = k + 1
    BY <1>1
  <2>2. 1..k \subseteq 1..(k + 1) /\ k + 1 \in 1..(k + 1)
    BY <1>1
  <2>3. \A i \in 1..k : s[i] = t[i]
    BY <1>2
  <2> HIDE DEF k
  <2> QED
    BY <1>1, <1>2, <2>1, <2>2, <2>3 DEF Range
<1> QED
  BY <1>1, <1>2, <1>4, <1>5 DEF t, Distinct

\* What is selected from a sequence, if nothing of it occurs in there twice.
LEMMA Selected ==
  ASSUME NEW T, NEW s \in Seq(T), NEW S,
         \A i, j \in 1..Len(s) : s[i] \in S /\ s[i] = s[j] => i = j
  PROVE  /\ selected(s, S) \in Seq(T \cap S) /\ Range(selected(s, S)) = Range(s) \cap S
         /\ Distinct(selected(s, S))
<1> DEFINE n == Len(s)
           D == Seq(T \cap S)
           next(i, q) == IF s[i] \in S THEN Append(q, s[i]) ELSE q
           F == [p \in (1..n) \X D |-> next(p[1], p[2])]
           upto[i \in 0..n] == IF i = 0 THEN <<>> ELSE next(i, upto[i - 1])
           prefix(i) == {s[j] : j \in 1..i} \cap S
           Fits(i, q) == q \in D /\ Range(q) = prefix(i) /\ Distinct(q)
<1>1. selected(s, S) = upto[n] /\ n \in Nat /\ \A i \in 1..n : s[i] \in T
  BY DEF selected
<1>2. <<>> \in D
  OBVIOUS
<1>3. ASSUME NEW i \in 1..n, NEW q \in D
      PROVE  next(i, q) \in D
  <2>1. CASE s[i] \in S
    <3>1. s[i] \in T \cap S
      BY <1>1, <2>1
    <3> QED
      BY <2>1, <3>1
  <2> QED
    BY <2>1
<1>4. ASSUME NEW i \in 1..n, NEW q \in D, Fits(i - 1, q)
      PROVE  Fits(i, next(i, q))
  <2>0. {s[j] : j \in 1..i} = {s[j] : j \in 1..(i - 1)} \cup {s[i]}
    <3>1. \A j : j \in 1..i <=> j \in 1..(i - 1) \/ j = i
      BY <1>1
    <3> QED
      BY <3>1
  <2>1. CASE s[i] \in S
    <3>1. s[i] \in T \cap S
      BY <1>1, <2>1
    <3>2. s[i] \notin Range(q)
      <4>1. \A j \in 1..(i - 1) : j \in 1..n /\ j # i
        BY <1>1
      <4>2. \A j \in 1..(i - 1) : s[j] # s[i]
        BY <2>1, <4>1
      <4> QED
        BY <1>4, <4>2
    <3>3. next(i, q) = Append(q, s[i])
      BY <2>1
    <3>4. prefix(i) = prefix(i - 1) \cup {s[i]}
      BY <2>0, <2>1
    <3> DEFINE x == s[i]
               R == T \cap S
    <3>5. x \in R /\ x \notin Range(q) /\ q \in Seq(R) /\ Distinct(q)
      BY <1>4, <3>1, <3>2
    <3> HIDE DEF x, R
    <3>6. /\ Append(q, x) \in Seq(R) /\ Range(Append(q, x)) = Range(q) \cup {x}
          /\ Distinct(Append(q, x))
      BY <3>5, OneLonger
    <3>7. Range(q) = prefix(i - 1)
      BY <1>4
    <3> HIDE DEF prefix, next
    <3> QED
      BY <3>3, <3>4, <3>6, <3>7 DEF x, R
  <2>2. CASE s[i] \notin S
    <3>1. next(i, q) = q
      BY <2>2
    <3>2. prefix(i) = prefix(i - 1)
      BY <2>0, <2>2
    <3>3. Fits(i, q)
      BY <1>4, <3>2
    <3> HIDE DEF Fits, next
    <3> QED
      BY <3>1, <3>3
  <2> HIDE DEF Fits, next
  <2> QED
    BY <2>1, <2>2
<1> HIDE DEF next
<1>5. F \in [(1..n) \X D -> D] /\ \A i \in 1..n : \A q \in D : F[<<i, q>>] = next(i, q)
  BY <1>3
<1> HIDE DEF D, F
<1>6. PICK g \in [0..n -> D] : g[0] = <<>> /\ \A i \in 1..n : g[i] = F[<<i, g[i - 1]>>]
  <2>1. Iterated(n, D, <<>>, F)
    BY <1>1, <1>2, <1>5, IterateExists
  <2> QED
    BY <2>1 DEF Iterated
<1>7. \A i \in 1..n : g[i - 1] \in D /\ g[i] = next(i, g[i - 1])
  <2>1. \A i \in 1..n : g[i - 1] \in D
    BY <1>1, <1>6
  <2> QED
    BY <1>5, <1>6, <2>1
<1>8. g = [i \in 0..n |-> IF i = 0 THEN <<>> ELSE next(i, g[i - 1])]
  BY <1>1, <1>6, <1>7
<1>9. upto = [i \in 0..n |-> IF i = 0 THEN <<>> ELSE next(i, upto[i - 1])]
  BY <1>8
<1> HIDE DEF upto
<1>10. upto[0] = <<>> /\ \A i \in 1..n : upto[i] = next(i, upto[i - 1])
  BY <1>1, <1>9
<1>11. upto[n] = g[n]
  <2>1. upto[0] = g[0] /\ \A i \in 1..n : upto[i - 1] = g[i - 1] => upto[i] = g[i]
    BY <1>6, <1>7, <1>10
  <2> HIDE DEF n
  <2> QED
    BY <1>1, <2>1, SameLast
<1>12. Fits(0, g[0])
  <2>1. prefix(0) = {} /\ Range(<<>>) = {} /\ Distinct(<<>>)
    BY DEF Range, Distinct
  <2> QED
    BY <1>2, <1>6, <2>1
<1> DEFINE U == {i \in 0..n : Fits(i, g[i])}
<1>13. 0 \in U
  BY <1>1, <1>12
<1>14. ASSUME NEW i \in 1..n, i - 1 \in U
       PROVE  i \in U
  BY <1>1, <1>4, <1>7, <1>14
<1>15. 0..n \subseteq U
  <2> HIDE DEF U, n
  <2> QED
    BY <1>1, <1>13, <1>14, Induction
<1>16. Fits(n, g[n])
  BY <1>1, <1>15
<1>17. prefix(n) = Range(s) \cap S
  <2>1. DOMAIN s = 1..n
    OBVIOUS
  <2> QED
    BY <2>1 DEF Range
<1> QED
  BY <1>1, <1>11, <1>16, <1>17 DEF D

-----------------------------------------------------------------------------
(* What types consist of                                                   *)

Complex(S)  == {t \in S : is_complex(t)}
Pointers(S) == {t \in S : is(t, "POINTER")}
ChildsOf(S) == UNION {Range(Types[u].childs) : u \in S}

\* What the assumptions say of a single type.
LEMMA TypeParts ==
  ASSUME NEW t \in TypeIds
  PROVE  /\ Types[t].childs \in Seq(TypeIds) /\ Range(Types[t].childs) \subseteq TypeIds
         /\ Types[t].nitems \in Nat
         /\ is(t, "ARRAY") \/ is(t, "POINTER") => get_pointee(t) \in TypeIds
         /\ is_complex(t) => is(t, "ARRAY") \/ is(t, "STRUCT")
         /\ is(t, "ARRAY") \/ is(t, "STRUCT") => is_complex(t) /\ ~is(t, "SCALAR")
         /\ is(t, "POINTER") => ~is_complex(t) /\ ~is(t, "SCALAR")
<1> DEFINE R == [cat : {"SCALAR", "ARRAY", "POINTER", "STRUCT"}, childs : Seq(TypeIds),
                 nitems : Nat, integral : BOOLEAN]
<1>1. Types \in Seq(R)
  BY TypesAssumption
<1>2. Types[t] \in R
  <2> HIDE DEF R
  <2> QED
    BY <1>1 DEF TypeIds
<1>3. Types[t].childs \in Seq(TypeIds) /\ Types[t].nitems \in Nat
  BY <1>2
<1>4. Range(Types[t].childs) \subseteq TypeIds
  BY <1>3 DEF Range
<1>5. ASSUME is(t, "ARRAY") \/ is(t, "POINTER")
      PROVE  get_pointee(t) \in TypeIds
  <2>1. Len(Types[t].childs) = 1
    BY <1>5, TypesAssumption
  <2> QED
    BY <1>3, <2>1 DEF get_pointee
<1> QED
  BY <1>3, <1>4, <1>5 DEF is, is_complex

\* A child that is no scalar has one parent, which has it once.
LEMMA OneParent ==
  ASSUME NEW u \in Complex(TypeIds), NEW w \in Complex(TypeIds),
         NEW i \in 1..Len(Types[u].childs), NEW j \in 1..Len(Types[w].childs),
         Types[u].childs[i] = Types[w].childs[j], ~is(Types[u].childs[i], "SCALAR")
  PROVE  u = w /\ i = j
<1>1. u \in TypeIds /\ w \in TypeIds /\ is_complex(u) /\ is_complex(w)
  BY DEF Complex
<1>2. i \in DOMAIN Types[u].childs /\ j \in DOMAIN Types[w].childs
  BY <1>1, TypeParts
<1> QED
  BY <1>1, <1>2, TypesAssumption

LEMMA OneParentOf ==
  ASSUME NEW u \in Complex(TypeIds), NEW w \in Complex(TypeIds), NEW c,
         c \in Range(Types[u].childs), c \in Range(Types[w].childs), ~is(c, "SCALAR")
  PROVE  u = w
<1>1. /\ Types[u].childs \in Seq(TypeIds) /\ DOMAIN Types[u].childs = 1..Len(Types[u].childs)
      /\ Types[w].childs \in Seq(TypeIds) /\ DOMAIN Types[w].childs = 1..Len(Types[w].childs)
  BY TypeParts DEF Complex
<1>2. PICK i \in 1..Len(Types[u].childs) : Types[u].childs[i] = c
  BY <1>1 DEF Range
<1>3. PICK j \in 1..Len(Types[w].childs) : Types[w].childs[j] = c
  BY <1>1 DEF Range
<1> QED
  BY <1>2, <1>3, OneParent

\* The children of a complex type in a set S without scalars, in their order.
LEMMA ChildsSelected ==
  ASSUME NEW u \in Complex(TypeIds), NEW S, S \subseteq TypeIds, \A c \in S : ~is(c, "SCALAR")
  PROVE  LET q == selected(Types[u].childs, S)
         IN  /\ q \in Seq(S) /\ Range(q) = Range(Types[u].childs) \cap S
             /\ Distinct(q)
<1> DEFINE s == Types[u].childs
<1>1. s \in Seq(TypeIds) /\ TypeIds \cap S = S
  BY TypeParts DEF Complex
<1>2. \A i, j \in 1..Len(s) : s[i] \in S /\ s[i] = s[j] => i = j
  BY OneParent
<1> HIDE DEF s
<1>3. /\ selected(s, S) \in Seq(TypeIds \cap S) /\ Range(selected(s, S)) = Range(s) \cap S
      /\ Distinct(selected(s, S))
  BY <1>1, <1>2, Selected
<1> QED
  BY <1>1, <1>3 DEF s

\* subtypes are the least set that has the type and what its members consist of.
LEMMA Subtypes ==
  ASSUME NEW t \in TypeIds
  PROVE  /\ t \in subtypes[t] /\ subtypes[t] \subseteq TypeIds /\ whole(subtypes[t])
         /\ \A S \in SUBSET TypeIds : t \in S /\ whole(S) => subtypes[t] \subseteq S
<1>1. \A u : u \in subtypes[t] <=> u \in TypeIds /\ \A S \in SUBSET TypeIds : t \in S /\ whole(S) => u \in S
  BY DEF subtypes
<1>2. ASSUME NEW u \in subtypes[t], is_complex(u), NEW c \in Range(Types[u].childs)
      PROVE  c \in subtypes[t]
  <2>1. u \in TypeIds
    BY <1>1
  <2>2. c \in TypeIds
    BY <1>2, <2>1, TypeParts
  <2>3. ASSUME NEW S \in SUBSET TypeIds, t \in S, whole(S)
        PROVE  c \in S
    <3>1. u \in S
      BY <1>1, <2>3
    <3> QED
      BY <1>2, <2>3, <3>1 DEF whole
  <2> QED
    BY <1>1, <2>2, <2>3
<1>3. whole(subtypes[t])
  BY <1>2 DEF whole
<1> QED
  BY <1>1, <1>3

\* What is not complex consists of itself.
LEMMA SimpleSubtypes ==
  ASSUME NEW t \in TypeIds, ~is_complex(t)
  PROVE  subtypes[t] = {t}
<1>1. whole({t})
  BY DEF whole
<1> QED
  BY <1>1, Subtypes

\* The queue q of what is still to be looked at in t, when D was.
Halfway(t, D, q) ==
  /\ D \subseteq Complex(subtypes[t]) /\ q \in Seq(Complex(subtypes[t]))
  /\ Distinct(q)
  /\ D \cap Range(q) = {} /\ t \in D \cup Range(q)
  /\ Complex(ChildsOf(D)) \subseteq D \cup Range(q)
  /\ D \cup Range(q) \subseteq {t} \cup ChildsOf(D)

\* At first there is the type alone, at last there is nothing left.
LEMMA HalfwayFirst ==
  ASSUME NEW t \in TypeIds, is_complex(t)
  PROVE  Halfway(t, {}, <<t>>)
<1>1. t \in Complex(subtypes[t])
  BY Subtypes DEF Complex
<1>2. Range(<<t>>) = {t}
  BY DEF Range
<1>3. <<t>> \in Seq(Complex(subtypes[t])) /\ \A i, j \in 1..Len(<<t>>) : i = j
  BY <1>1
<1>4. ChildsOf({}) = {} /\ Complex({}) = {}
  BY DEF ChildsOf, Complex
<1> DEFINE q == <<t>>
<1>5. Range(q) = {t} /\ q \in Seq(Complex(subtypes[t])) /\ \A i, j \in 1..Len(q) : i = j
  BY <1>2, <1>3
<1> HIDE DEF q
<1>6. Halfway(t, {}, q)
  BY <1>4, <1>5 DEF Halfway, Distinct
<1> QED
  BY <1>6 DEF q

LEMMA HalfwayLast ==
  ASSUME NEW t \in TypeIds, NEW D, Halfway(t, D, <<>>)
  PROVE  /\ {u \in D : is(u, "ARRAY")} = {u \in subtypes[t] : is(u, "ARRAY")}
         /\ Pointers(ChildsOf(D)) = Pointers(subtypes[t])
<1>1. Range(<<>>) = {}
  BY DEF Range
<1>2. D \subseteq Complex(subtypes[t]) /\ t \in D /\ Complex(ChildsOf(D)) \subseteq D
  BY <1>1 DEF Halfway
<1>3. D \subseteq TypeIds /\ subtypes[t] \subseteq TypeIds /\ whole(subtypes[t]) /\ \A u \in D : is_complex(u)
  BY <1>2, Subtypes DEF Complex
<1> DEFINE S == D \cup ChildsOf(D)
<1>4. S \subseteq subtypes[t]
  BY <1>2, <1>3 DEF ChildsOf, Complex, whole
<1>5. whole(S)
  <2>1. ASSUME NEW u \in S, is_complex(u)
        PROVE  u \in D
    BY <1>2, <2>1 DEF Complex
  <2> QED
    BY <2>1 DEF whole, ChildsOf
<1>6. S = subtypes[t]
  <2>1. S \in SUBSET TypeIds /\ t \in S
    BY <1>2, <1>3, <1>4
  <2> HIDE DEF S
  <2> QED
    BY <1>4, <1>5, <2>1, Subtypes
<1>7. \A u \in subtypes[t] : /\ is(u, "ARRAY") => is_complex(u)
                             /\ is(u, "POINTER") => ~is_complex(u)
  BY <1>3, TypeParts
<1>8. \A u \in subtypes[t] : is_complex(u) => u \in D
  BY <1>2, <1>6 DEF Complex
<1>9. \A u \in subtypes[t] : is(u, "POINTER") => u \in ChildsOf(D)
  BY <1>3, <1>6, <1>7
<1>10. D \subseteq subtypes[t] /\ ChildsOf(D) \subseteq subtypes[t]
  BY <1>4
<1> QED
  BY <1>7, <1>8, <1>9, <1>10 DEF Pointers

\* In between the head of the queue is looked at, for the first time, and what
\* is complex in it is queued.
LEMMA HalfwayNext ==
  ASSUME NEW t \in TypeIds, NEW D, NEW q, Halfway(t, D, q), q # <<>>
  PROVE  /\ Head(q) \in Complex(TypeIds) /\ Head(q) \notin D
         /\ Halfway(t, D \cup {Head(q)}, Tail(q) \o queued(Head(q)))
         /\ Pointers(Range(Types[Head(q)].childs)) \cap Pointers(ChildsOf(D)) = {}
<1> DEFINE C == Complex(subtypes[t])
           h == Head(q)
           r == Tail(q)
           S == {u \in TypeIds : is_complex(u)}
           w == queued(h)
<1>1. /\ D \subseteq C /\ q \in Seq(C) /\ Distinct(q)
      /\ D \cap Range(q) = {} /\ t \in D \cup Range(q)
      /\ Complex(ChildsOf(D)) \subseteq D \cup Range(q) /\ D \cup Range(q) \subseteq {t} \cup ChildsOf(D)
  BY DEF Halfway
<1>2. C \subseteq Complex(TypeIds) /\ whole(subtypes[t]) /\ C \subseteq TypeIds /\ C \subseteq subtypes[t]
      /\ \A u \in C : is_complex(u)
  BY Subtypes DEF Complex
<1> HIDE DEF C
<1>3. /\ h \in C /\ r \in Seq(C) /\ Len(r) \in Nat /\ Len(q) \in Nat /\ Len(q) = Len(r) + 1
      /\ h = q[1] /\ \A i \in 1..Len(r) : r[i] = q[i + 1] /\ i + 1 \in 1..Len(q) /\ i + 1 # 1
      /\ 1 \in 1..Len(q)
  BY <1>1
<1> HIDE DEF h, r
<1>4. Range(q) = {h} \cup Range(r) /\ h \notin Range(r)
  <2>1. DOMAIN q = 1..Len(q) /\ DOMAIN r = 1..Len(r)
    BY <1>1, <1>3
  <2>2. \A i \in 1..Len(q) : i = 1 \/ (i - 1 \in 1..Len(r) /\ (i - 1) + 1 = i)
    BY <1>3
  <2>3. ASSUME NEW x \in Range(q)
        PROVE  x = h \/ x \in Range(r)
    <3>1. PICK i \in 1..Len(q) : q[i] = x
      BY <2>1, <2>3 DEF Range
    <3>2. CASE i # 1
      <4>1. i - 1 \in 1..Len(r) /\ r[i - 1] = x
        BY <1>3, <2>2, <3>1, <3>2
      <4> QED
        BY <2>1, <4>1 DEF Range
    <3> QED
      BY <1>3, <3>1, <3>2
  <2>4. h \in Range(q)
    BY <1>3, <2>1 DEF Range
  <2>5. Range(r) \subseteq Range(q)
    BY <1>3, <2>1 DEF Range
  <2>6. h \notin Range(r)
    BY <1>1, <1>3, <2>1 DEF Range, Distinct
  <2> QED
    BY <2>3, <2>4, <2>5, <2>6
<1>5. /\ w \in Seq(S) /\ Range(w) = Range(Types[h].childs) \cap S
      /\ Distinct(w)
  <2>1. h \in Complex(TypeIds) /\ S \subseteq TypeIds /\ \A c \in S : ~is(c, "SCALAR")
    BY <1>2, <1>3, TypeParts
  <2> HIDE DEF S
  <2> QED
    BY <2>1, ChildsSelected DEF queued, S
<1>6. Range(Types[h].childs) \subseteq subtypes[t] /\ Range(Types[h].childs) \subseteq TypeIds
  BY <1>2, <1>3, Subtypes DEF whole
<1>7. Range(w) = Complex(Range(Types[h].childs)) /\ Range(w) \subseteq C
  BY <1>5, <1>6 DEF Complex, C
<1>8. w \in Seq(C)
  <2>1. Len(w) \in Nat /\ DOMAIN w = 1..Len(w) /\ w = [i \in 1..Len(w) |-> w[i]]
    BY <1>5
  <2>2. \A i \in 1..Len(w) : w[i] \in C
    BY <1>7, <2>1 DEF Range
  <2> HIDE DEF w
  <2> QED
    BY <2>1, <2>2
<1> HIDE DEF w
<1>9. \A c \in Range(w) : c \notin D /\ c \notin Range(q)
  <2> SUFFICES ASSUME NEW c \in Range(w), c \in D \cup Range(q)
               PROVE  FALSE
    OBVIOUS
  <2>1. c \in Range(Types[h].childs) /\ c \in C /\ ~is(c, "SCALAR")
    BY <1>2, <1>5, <1>7, TypeParts
  <2>2. c # t
    BY <1>2, <1>3, <2>1, TypesAssumption
  <2>3. c \in ChildsOf(D)
    BY <1>1, <2>2
  <2>4. PICK u \in D : c \in Range(Types[u].childs)
    BY <2>3 DEF ChildsOf
  <2>5. u = h
    BY <1>1, <1>2, <1>3, <2>1, <2>4, OneParentOf
  <2> QED
    BY <1>1, <1>4, <2>4, <2>5
<1> DEFINE s == r \o w
           k == Len(r)
           l == Len(w)
<1>10. /\ Len(r) \in Nat /\ Len(w) \in Nat /\ s \in Seq(C) /\ Len(s) = k + l
       /\ \A i \in 1..(k + l) : s[i] = IF i <= k THEN r[i] ELSE w[i - k]
  BY <1>3, <1>8
<1>11. DOMAIN s = 1..(k + l) /\ DOMAIN r = 1..k /\ DOMAIN w = 1..l
  BY <1>3, <1>8, <1>10
<1> HIDE DEF s, k, l
<1>12. k \in Nat /\ l \in Nat
  BY <1>10 DEF k, l
<1>13. \A i \in 1..(k + l) : i <= k => i \in 1..k /\ s[i] = r[i] /\ s[i] \in Range(r)
  BY <1>10, <1>11, <1>12 DEF Range
<1>14. \A i \in 1..(k + l) : ~(i <= k) => i - k \in 1..l /\ s[i] = w[i - k] /\ s[i] \in Range(w)
  BY <1>10, <1>11, <1>12 DEF Range
<1>15. Range(s) = Range(r) \cup Range(w)
  <2>1. \A x \in Range(r) : x \in Range(s)
    <3> TAKE x \in Range(r)
    <3>1. PICK i \in 1..k : r[i] = x
      BY <1>11 DEF Range
    <3>2. i \in 1..(k + l) /\ i <= k
      BY <1>12
    <3> QED
      BY <1>11, <1>13, <3>1, <3>2 DEF Range
  <2>2. \A x \in Range(w) : x \in Range(s)
    <3> TAKE x \in Range(w)
    <3>1. PICK i \in 1..l : w[i] = x
      BY <1>11 DEF Range
    <3>2. k + i \in 1..(k + l) /\ ~(k + i <= k) /\ (k + i) - k = i
      BY <1>12
    <3>3. s[k + i] = x
      BY <1>14, <3>1, <3>2
    <3> QED
      BY <1>11, <3>2, <3>3 DEF Range
  <2>3. \A x \in Range(s) : x \in Range(r) \cup Range(w)
    BY <1>11, <1>13, <1>14 DEF Range
  <2> QED
    BY <2>1, <2>2, <2>3
<1>16. ASSUME NEW i \in 1..(k + l), NEW j \in 1..(k + l), s[i] = s[j]
       PROVE  i = j
  <2>1. Range(r) \cap Range(w) = {}
    BY <1>4, <1>9
  <2>2. CASE i <= k /\ j <= k
    <3>1. i + 1 = j + 1
      BY <1>1, <1>3, <1>13, <1>16, <2>2 DEF k, Distinct
    <3> QED
      BY <1>12, <3>1
  <2>3. CASE ~(i <= k) /\ ~(j <= k)
    <3>1. i - k = j - k
      BY <1>5, <1>14, <1>16, <2>3 DEF l, Distinct
    <3> QED
      BY <1>12, <3>1
  <2> QED
    BY <1>13, <1>14, <1>16, <2>1, <2>2, <2>3
<1> DEFINE E == D \cup {h}
<1>17. ChildsOf(E) = ChildsOf(D) \cup Range(Types[h].childs)
  BY DEF ChildsOf
<1>18. Halfway(t, E, s)
  <2>1. E \subseteq C
    BY <1>1, <1>3
  <2>2. E \cap Range(s) = {}
    BY <1>1, <1>4, <1>9, <1>15
  <2>3. t \in E \cup Range(s)
    BY <1>1, <1>4, <1>15
  <2>4. Complex(ChildsOf(E)) \subseteq E \cup Range(s)
    BY <1>1, <1>4, <1>7, <1>15, <1>17 DEF Complex
  <2>5. E \cup Range(s) \subseteq {t} \cup ChildsOf(E)
    BY <1>1, <1>4, <1>7, <1>15, <1>17 DEF Complex
  <2> QED
    BY <1>10, <1>16, <2>1, <2>2, <2>3, <2>4, <2>5 DEF Halfway, C, k, l, Distinct
<1>19. ASSUME NEW c \in Pointers(Range(Types[h].childs)), c \in Pointers(ChildsOf(D))
       PROVE  FALSE
  <2>1. PICK u \in D : c \in Range(Types[u].childs)
    BY <1>19 DEF Pointers, ChildsOf
  <2>2. c \in Range(Types[h].childs) /\ ~is(c, "SCALAR")
    BY <1>6, <1>19, TypeParts DEF Pointers
  <2>3. u = h
    BY <1>1, <1>2, <1>3, <2>1, <2>2, OneParentOf
  <2> QED
    BY <1>1, <1>4, <2>1, <2>3
<1> QED
  BY <1>1, <1>2, <1>3, <1>4, <1>18, <1>19 DEF h, r, s, w

-----------------------------------------------------------------------------
(* The variables of a function                                             *)

\* Those that serve no other; x is the func_vars of a function.
Plain(x) == Range(x.vars) \ (x.perms \cup x.indexes \cup Range(x.pointees))

IsMap(m, D) == m = [k \in DOMAIN m |-> m[k]] /\ DOMAIN m \subseteq D

\* Of n variables, of which G are global, a function has each once and for one
\* purpose.
Owns(n, G, x) ==
  /\ x = [vars |-> x.vars, perms |-> x.perms, indexes |-> x.indexes, args |-> x.args,
          pointees |-> x.pointees, accidxs |-> x.accidxs, permutators |-> x.permutators]
  /\ x.vars \in Seq(1..n) /\ Distinct(x.vars)
  /\ IsMap(x.pointees, Plain(x) \X TypeIds) /\ IsMap(x.accidxs, Plain(x)) /\ IsMap(x.permutators, Plain(x))
  /\ \A k, l \in DOMAIN x.pointees : x.pointees[k] = x.pointees[l] => k = l
  /\ x.perms \cup x.indexes \cup x.args \cup Range(x.pointees) \subseteq Range(x.vars) \ G
  /\ x.perms \cap x.indexes = {} /\ x.perms \cap x.args = {} /\ x.indexes \cap x.args = {}
  /\ Range(x.pointees) \cap (x.perms \cup x.indexes \cup x.args) = {}

\* The permutators of arrays are arrays of as many integers.
Permuted(V, x) ==
  \A v \in DOMAIN x.permutators :
    /\ is(V[v], "ARRAY") /\ x.permutators[v] \in Seq(x.perms)
    /\ \A i \in 1..Len(x.permutators[v]) : V[x.permutators[v][i]] \in perm_types(Types[V[v]].nitems)

accs_of(x, v) == IF v \in DOMAIN x.accidxs THEN x.accidxs[v] ELSE <<>>

\* v has an index for each array in D and a pointee for each pointer in P.
Supplied(V, x, v, D, P) ==
  /\ accs_of(x, v) \in Seq(x.indexes)
  /\ \A i \in 1..Len(accs_of(x, v)) : V[accs_of(x, v)[i]] \in index_types
  /\ Len(accs_of(x, v)) = Cardinality({t \in D : is(t, "ARRAY")})
  /\ \A t : <<v, t>> \in DOMAIN x.pointees <=> t \in P
  /\ \A t \in P : V[x.pointees[<<v, t>>]] = get_pointee(t)

Served(V, x, v) == Supplied(V, x, v, subtypes[V[v]], Pointers(subtypes[V[v]]))

\* V continues to W.
Continues(V, W) == Len(V) <= Len(W) /\ \A i \in 1..Len(V) : W[i] = V[i]

\* x and y have the same for v.
SameFor(x, y, v) ==
  /\ accs_of(y, v) = accs_of(x, v) /\ x.indexes \subseteq y.indexes
  /\ \A t : <<v, t>> \in DOMAIN y.pointees <=> <<v, t>> \in DOMAIN x.pointees
  /\ \A t : <<v, t>> \in DOMAIN x.pointees => y.pointees[<<v, t>>] = x.pointees[<<v, t>>]

\* What is supplied stays supplied.
LEMMA StaysSupplied ==
  ASSUME NEW V \in Seq(TypeIds), NEW W \in Seq(TypeIds), Continues(V, W), NEW G,
         NEW x, Owns(Len(V), G, x), NEW y, NEW v, SameFor(x, y, v),
         NEW D, NEW P, Supplied(V, x, v, D, P)
  PROVE  Supplied(W, y, v, D, P)
<1>1. Range(x.vars) \subseteq 1..Len(V)
  <2>1. x.vars \in Seq(1..Len(V))
    BY DEF Owns
  <2> QED
    BY <2>1 DEF Range
<1>2. x.indexes \subseteq 1..Len(V) /\ Range(x.pointees) \subseteq 1..Len(V)
  BY <1>1 DEF Owns
<1> DEFINE a == accs_of(x, v)
<1>3. /\ a \in Seq(x.indexes) /\ \A i \in 1..Len(a) : V[a[i]] \in index_types
      /\ Len(a) = Cardinality({t \in D : is(t, "ARRAY")})
      /\ \A t : <<v, t>> \in DOMAIN x.pointees <=> t \in P
      /\ \A t \in P : V[x.pointees[<<v, t>>]] = get_pointee(t)
  BY DEF Supplied
<1>4. accs_of(y, v) = a /\ x.indexes \subseteq y.indexes
  BY DEF SameFor
<1> HIDE DEF a
<1>5. a \in Seq(y.indexes)
  BY <1>3, <1>4
<1>6. \A i \in 1..Len(a) : W[a[i]] \in index_types
  <2> TAKE i \in 1..Len(a)
  <2>1. a[i] \in x.indexes
    BY <1>3
  <2>2. W[a[i]] = V[a[i]]
    BY <1>2, <2>1 DEF Continues
  <2> QED
    BY <1>3, <2>2
<1>7. \A t : <<v, t>> \in DOMAIN y.pointees <=> t \in P
  BY <1>3 DEF SameFor
<1>8. \A t \in P : W[y.pointees[<<v, t>>]] = get_pointee(t)
  <2> TAKE t \in P
  <2>1. <<v, t>> \in DOMAIN x.pointees
    BY <1>3
  <2>2. y.pointees[<<v, t>>] = x.pointees[<<v, t>>]
    BY <2>1 DEF SameFor
  <2>3. x.pointees[<<v, t>>] \in 1..Len(V)
    BY <1>2, <2>1 DEF Range
  <2> QED
    BY <1>3, <2>2, <2>3 DEF Continues
<1> QED
  BY <1>3, <1>4, <1>5, <1>6, <1>7, <1>8 DEF Supplied

LEMMA StaysServed ==
  ASSUME NEW V \in Seq(TypeIds), NEW W \in Seq(TypeIds), Continues(V, W), NEW G,
         NEW x, Owns(Len(V), G, x), NEW y, NEW v \in 1..Len(V), SameFor(x, y, v), Served(V, x, v)
  PROVE  Served(W, y, v)
<1>1. W[v] = V[v]
  BY DEF Continues
<1> DEFINE D == subtypes[V[v]]
           P == Pointers(subtypes[V[v]])
<1>2. Supplied(V, x, v, D, P)
  BY DEF Served
<1> HIDE DEF D, P
<1>3. Supplied(W, y, v, D, P)
  BY <1>2, StaysSupplied
<1> QED
  BY <1>1, <1>3 DEF Served, D, P

\* So do permutators that are not replaced.
LEMMA StaysPermuted ==
  ASSUME NEW V \in Seq(TypeIds), NEW W \in Seq(TypeIds), Continues(V, W), NEW G,
         NEW x, Owns(Len(V), G, x), NEW y, x.perms \subseteq y.perms,
         y.permutators = x.permutators, Permuted(V, x)
  PROVE  Permuted(W, y)
<1>1. Range(x.vars) \subseteq 1..Len(V)
  <2>1. x.vars \in Seq(1..Len(V))
    BY DEF Owns
  <2> QED
    BY <2>1 DEF Range
<1>2. x.perms \subseteq 1..Len(V) /\ DOMAIN x.permutators \subseteq 1..Len(V)
  BY <1>1 DEF Owns, Plain, IsMap
<1> SUFFICES ASSUME NEW v \in DOMAIN x.permutators
             PROVE  /\ is(W[v], "ARRAY") /\ x.permutators[v] \in Seq(y.perms)
                    /\ \A i \in 1..Len(x.permutators[v]) :
                         W[x.permutators[v][i]] \in perm_types(Types[W[v]].nitems)
  BY DEF Permuted
<1> DEFINE s == x.permutators[v]
<1>3. /\ is(V[v], "ARRAY") /\ s \in Seq(x.perms)
      /\ \A i \in 1..Len(s) : V[s[i]] \in perm_types(Types[V[v]].nitems)
  BY DEF Permuted
<1>4. W[v] = V[v]
  BY <1>2 DEF Continues
<1> HIDE DEF s
<1>5. s \in Seq(y.perms) /\ \A i \in 1..Len(s) : s[i] \in 1..Len(V)
  BY <1>2, <1>3
<1>6. \A i \in 1..Len(s) : W[s[i]] = V[s[i]]
  BY <1>5 DEF Continues
<1> QED
  BY <1>3, <1>4, <1>5, <1>6 DEF s

\* The numbers after n, up to m.
later(n, m) == (n + 1)..m

\* P, I, A and what Q has differ, and are in N.
Apart(P, I, A, Q, N) ==
  /\ P \cup I \cup A \cup Range(Q) \subseteq N
  /\ P \cap I = {} /\ P \cap A = {} /\ I \cap A = {} /\ Range(Q) \cap (P \cup I \cup A) = {}
  /\ \A k, l \in DOMAIN Q : Q[k] = Q[l] => k = l

\* y has what x has and the variables after the first n, up to m, at the end of
\* its list: P as permutators, I as indexes, A as arguments and those of Q as
\* pointees.
Gains(n, m, x, y, P, I, A, Q) ==
  /\ y = [vars |-> y.vars, perms |-> y.perms, indexes |-> y.indexes, args |-> y.args,
          pointees |-> y.pointees, accidxs |-> y.accidxs, permutators |-> y.permutators]
  /\ \E ids \in Seq(later(n, m)) :
       /\ y.vars = x.vars \o ids /\ Range(ids) = later(n, m)
       /\ Distinct(ids)
  /\ y.perms = x.perms \cup P /\ y.indexes = x.indexes \cup I /\ y.args = x.args \cup A
  /\ y.pointees = entered(x.pointees, Q)
  /\ IsMap(Q, Plain(x) \X TypeIds) /\ DOMAIN Q \cap DOMAIN x.pointees = {}
  /\ Apart(P, I, A, Q, later(n, m))
  /\ IsMap(y.accidxs, Plain(x)) /\ IsMap(y.permutators, Plain(x))

\* What y then has, and what of it serves no other.
HasGained(n, m, x, y, P, I, Q) ==
  /\ Range(y.vars) = Range(x.vars) \cup later(n, m)
  /\ Plain(y) = Plain(x) \cup (later(n, m) \ (P \cup I \cup Range(Q)))

\* Of these it then has each once, too.
LEMMA OwnsGains ==
  ASSUME NEW n \in Nat, NEW m \in Nat, n <= m, NEW G, G \subseteq 1..n, NEW x, Owns(n, G, x),
         NEW y, NEW P, NEW I, NEW A, NEW Q, Gains(n, m, x, y, P, I, A, Q)
  PROVE  Owns(m, G, y) /\ HasGained(n, m, x, y, P, I, Q)
<1> DEFINE New == later(n, m)
<1>1. /\ x.vars \in Seq(1..n) /\ Distinct(x.vars)
      /\ Range(x.vars) \subseteq 1..n /\ New \cap 1..n = {}
  <2>1. x.vars \in Seq(1..n) /\ Distinct(x.vars)
    BY DEF Owns
  <2> QED
    BY <2>1 DEF Range, later
<1>2. PICK ids \in Seq(New) : /\ y.vars = x.vars \o ids /\ Range(ids) = New
                              /\ Distinct(ids)
  BY DEF Gains
<1>3. /\ y.vars \in Seq(1..m) /\ Range(y.vars) = Range(x.vars) \cup New
      /\ Distinct(y.vars)
  <2> DEFINE s == x.vars
  <2>1. s \in Seq(1..n) /\ Distinct(s)
    BY <1>1
  <2> HIDE DEF s
  <2>2. /\ s \o ids \in Seq(1..m) /\ Range(s \o ids) = Range(s) \cup Range(ids)
        /\ Distinct(s \o ids)
    BY <1>2, <2>1, Longer DEF later
  <2> QED
    BY <1>2, <2>2 DEF s
<1> HIDE DEF New
<1>4. /\ y.perms = x.perms \cup P /\ y.indexes = x.indexes \cup I /\ y.args = x.args \cup A
      /\ y.pointees = entered(x.pointees, Q)
      /\ P \cup I \cup A \cup Range(Q) \subseteq New
      /\ P \cap I = {} /\ P \cap A = {} /\ I \cap A = {} /\ Range(Q) \cap (P \cup I \cup A) = {}
      /\ DOMAIN Q \cap DOMAIN x.pointees = {} /\ \A k, l \in DOMAIN Q : Q[k] = Q[l] => k = l
      /\ IsMap(Q, Plain(x) \X TypeIds)
  BY DEF Gains, Apart, New
<1>5. /\ x.perms \cup x.indexes \cup x.args \cup Range(x.pointees) \subseteq Range(x.vars) \ G
      /\ x.perms \cap x.indexes = {} /\ x.perms \cap x.args = {} /\ x.indexes \cap x.args = {}
      /\ Range(x.pointees) \cap (x.perms \cup x.indexes \cup x.args) = {}
      /\ \A k, l \in DOMAIN x.pointees : x.pointees[k] = x.pointees[l] => k = l
      /\ IsMap(x.pointees, Plain(x) \X TypeIds)
  BY DEF Owns
<1>6. /\ DOMAIN y.pointees = DOMAIN x.pointees \cup DOMAIN Q
      /\ \A k \in DOMAIN x.pointees : y.pointees[k] = x.pointees[k]
      /\ \A k \in DOMAIN Q : y.pointees[k] = Q[k]
      /\ y.pointees = [k \in DOMAIN y.pointees |-> y.pointees[k]]
  BY <1>4 DEF entered
<1>7. Range(y.pointees) = Range(x.pointees) \cup Range(Q)
  <2>1. \A z : z \in Range(y.pointees) <=> z \in Range(x.pointees) \/ z \in Range(Q)
    BY <1>6 DEF Range
  <2> QED
    BY <2>1
<1>8. Range(x.vars) \cap New = {} /\ New \cap G = {}
  BY <1>1
<1>9. Plain(y) = Plain(x) \cup (New \ (P \cup I \cup Range(Q)))
  BY <1>3, <1>4, <1>5, <1>7, <1>8 DEF Plain
<1>10. \A k, l \in DOMAIN y.pointees : y.pointees[k] = y.pointees[l] => k = l
  <2>1. \A k \in DOMAIN x.pointees : y.pointees[k] \in Range(x.pointees)
    BY <1>6 DEF Range
  <2>2. \A k \in DOMAIN Q : y.pointees[k] \in Range(Q)
    BY <1>6 DEF Range
  <2>3. Range(x.pointees) \cap Range(Q) = {}
    BY <1>4, <1>5, <1>8
  <2> QED
    BY <1>4, <1>5, <1>6, <2>1, <2>2, <2>3
<1>11. IsMap(y.pointees, Plain(y) \X TypeIds) /\ IsMap(y.accidxs, Plain(y)) /\ IsMap(y.permutators, Plain(y))
  <2>1. Plain(x) \subseteq Plain(y) /\ Plain(x) \X TypeIds \subseteq Plain(y) \X TypeIds
    BY <1>9
  <2>2. IsMap(y.accidxs, Plain(x)) /\ IsMap(y.permutators, Plain(x))
    BY DEF Gains
  <2> QED
    BY <1>4, <1>5, <1>6, <2>1, <2>2 DEF IsMap
<1>12. /\ y.perms \cup y.indexes \cup y.args \cup Range(y.pointees) \subseteq Range(y.vars) \ G
       /\ y.perms \cap y.indexes = {} /\ y.perms \cap y.args = {} /\ y.indexes \cap y.args = {}
       /\ Range(y.pointees) \cap (y.perms \cup y.indexes \cup y.args) = {}
  BY <1>3, <1>4, <1>5, <1>7, <1>8
<1>13. y = [vars |-> y.vars, perms |-> y.perms, indexes |-> y.indexes, args |-> y.args,
            pointees |-> y.pointees, accidxs |-> y.accidxs, permutators |-> y.permutators]
  BY DEF Gains
<1> QED
  BY <1>3, <1>9, <1>10, <1>11, <1>12, <1>13 DEF Owns, New, HasGained

-----------------------------------------------------------------------------
(* The inductive invariant                                                 *)

\* Where process_var is in the variable p.vid of the function with x.
InProcess(V, x, p) ==
  /\ p.vid \in Plain(x)
  /\ \/ /\ p = [stage |-> "pointee", vid |-> p.vid]
        /\ is(V[p.vid], "POINTER") /\ Supplied(V, x, p.vid, {}, {})
     \/ /\ p = [stage |-> "permutators", vid |-> p.vid]
        /\ is(V[p.vid], "ARRAY") /\ Supplied(V, x, p.vid, {}, {})
     \/ /\ p = [stage |-> "accessors", vid |-> p.vid, chlds |-> p.chlds] /\ p.chlds # <<>>
        /\ is_complex(V[p.vid])
        /\ \E D \in SUBSET TypeIds :
             Halfway(V[p.vid], D, p.chlds) /\ Supplied(V, x, p.vid, D, Pointers(ChildsOf(D)))

Typed ==
  /\ pc \in {"globals", "indexes", "choose", "locals", "arguments", "done"}
  /\ vars_ \in Seq(TypeIds) /\ func \in Functions
  /\ globals_ \subseteq 1..Len(vars_) /\ todo \subseteq globals_
  /\ fvars = [f \in Functions |-> fvars[f]]

\* Whose the variables are: a global may be had by any function, another by one.
Owned ==
  /\ \A f \in Functions : Owns(Len(vars_), globals_, fvars[f])
  /\ \A f, g \in Functions : f # g => Range(fvars[f].vars) \cap Range(fvars[g].vars) \subseteq globals_
  /\ \A v \in 1..Len(vars_) : v \notin globals_ => \E f \in Functions : v \in Range(fvars[f].vars)

AllPermuted == \A f \in Functions : Permuted(vars_, fvars[f])

\* All are served but for the one that process_var is in.
AllServed ==
  \A f \in Functions : \A v \in Plain(fvars[f]) :
    Served(vars_, fvars[f], v) \/ (f = func /\ proc # idle /\ proc.vid = v)

\* What the steps of the constructor rely on: functions to come have nothing, and
\* no global is chosen twice.
Stages ==
  /\ \A f \in Functions : f > func \/ pc = "globals" => fvars[f] = func_vars
  /\ pc \in {"globals", "indexes", "done"} => proc = idle
  /\ pc = "indexes" => Range(fv.vars) \cap globals_ = {}
  /\ pc = "choose" => Range(fv.vars) \cap todo = {}
  /\ pc = "done" => func = Len(ArgTypes)
  /\ proc # idle => InProcess(vars_, fv, proc)

IndInv == Typed /\ Owned /\ AllPermuted /\ AllServed /\ Stages

\* Other functions keep what they have when there are more variables.
LEMMA OthersKeep ==
  ASSUME NEW V \in Seq(TypeIds), NEW W \in Seq(TypeIds), Continues(V, W), NEW G, NEW x, Owns(Len(V), G, x)
  PROVE  /\ Owns(Len(W), G, x)
         /\ Permuted(V, x) => Permuted(W, x)
         /\ \A v \in Plain(x) : v \in 1..Len(V) /\ (Served(V, x, v) => Served(W, x, v))
<1>1. x.vars \in Seq(1..Len(V)) /\ Len(V) \in Nat /\ Len(W) \in Nat /\ Len(V) <= Len(W)
  BY DEF Owns, Continues
<1>2. x.vars \in Seq(1..Len(W))
  <2>1. 1..Len(V) \subseteq 1..Len(W)
    BY <1>1
  <2> QED
    BY <1>1, <2>1
<1>3. Owns(Len(W), G, x)
  BY <1>2 DEF Owns
<1>4. Permuted(V, x) => Permuted(W, x)
  BY StaysPermuted
<1>5. \A v : SameFor(x, x, v)
  BY DEF SameFor
<1>6. Plain(x) \subseteq 1..Len(V)
  BY <1>1 DEF Plain, Range
<1>7. \A v \in Plain(x) : Served(V, x, v) => Served(W, x, v)
  BY <1>5, <1>6, StaysServed
<1> QED
  BY <1>3, <1>4, <1>6, <1>7

\* The function at work gets y, and the others keep what they have.
LEMMA Edited ==
  ASSUME IndInv, pc # "globals", NEW y,
         vars_' \in Seq(TypeIds), Continues(vars_, vars_'),
         fvars' = [fvars EXCEPT ![func] = y], UNCHANGED <<globals_, func>>,
         Owns(Len(vars_'), globals_, y), Permuted(vars_', y),
         Range(y.vars) \subseteq Range(fv.vars) \cup globals_ \cup later(Len(vars_), Len(vars_')),
         Range(fv.vars) \cup later(Len(vars_), Len(vars_')) \subseteq Range(y.vars),
         \A v \in Plain(y) : Served(vars_', y, v) \/ (proc' # idle /\ proc'.vid = v),
         proc' # idle => InProcess(vars_', y, proc'),
         pc' \in {"indexes", "choose", "locals", "arguments"}, todo' \subseteq globals_,
         pc' = "indexes" => proc' = idle /\ Range(y.vars) \cap globals_ = {},
         pc' = "choose" => Range(y.vars) \cap todo' = {}
  PROVE  IndInv'
<1> DEFINE V == vars_
           W == vars_'
<1>1. /\ Typed /\ Owned /\ AllPermuted /\ AllServed /\ Stages /\ fv = fvars[func]
  BY DEF IndInv, fv
<1>2. /\ V \in Seq(TypeIds) /\ W \in Seq(TypeIds) /\ Len(V) \in Nat /\ Len(W) \in Nat /\ Len(V) <= Len(W)
      /\ func \in Functions /\ globals_ \subseteq 1..Len(V) /\ fvars = [f \in Functions |-> fvars[f]]
  BY <1>1 DEF Typed, Continues
<1>3. fvars'[func] = y /\ (\A f \in Functions : f # func => fvars'[f] = fvars[f])
      /\ fvars' = [f \in Functions |-> fvars'[f]]
  BY <1>2
<1>4. Typed'
  BY <1>2, <1>3 DEF Typed
<1>5. \A f \in Functions : Owns(Len(V), globals_, fvars[f]) /\ Range(fvars[f].vars) \subseteq 1..Len(V)
  <2>1. \A f \in Functions : Owns(Len(V), globals_, fvars[f])
    BY <1>1 DEF Owned
  <2>2. \A f \in Functions : fvars[f].vars \in Seq(1..Len(V))
    BY <2>1 DEF Owns
  <2> QED
    BY <2>1, <2>2 DEF Range
<1>6. ASSUME NEW f \in Functions, f # func
      PROVE  /\ Owns(Len(W), globals_, fvars[f]) /\ Permuted(W, fvars[f])
             /\ \A v \in Plain(fvars[f]) : Served(W, fvars[f], v)
  <2>1. Owns(Len(V), globals_, fvars[f]) /\ Permuted(V, fvars[f])
    BY <1>1, <1>5 DEF AllPermuted
  <2>2. \A v \in Plain(fvars[f]) : Served(V, fvars[f], v)
    BY <1>1, <1>6 DEF AllServed
  <2> QED
    BY <1>2, <2>1, <2>2, OthersKeep
<1>7. Owned'
  <2>1. \A f \in Functions : Owns(Len(W), globals_, fvars'[f])
    BY <1>3, <1>6
  <2>2. ASSUME NEW f \in Functions, f # func
        PROVE  Range(fvars[f].vars) \cap Range(y.vars) \subseteq globals_
    <3>1. Range(fvars[f].vars) \cap Range(fv.vars) \subseteq globals_
      BY <1>1, <1>2, <2>2 DEF Owned
    <3>2. Range(fvars[f].vars) \cap later(Len(V), Len(W)) = {}
      BY <1>2, <1>5 DEF later
    <3> QED
      BY <3>1, <3>2
  <2>3. \A f, g \in Functions : f # g => Range(fvars'[f].vars) \cap Range(fvars'[g].vars) \subseteq globals_
    <3> TAKE f, g \in Functions
    <3>1. CASE f = func \/ g = func
      BY <1>3, <2>2, <3>1
    <3>2. CASE f # func /\ g # func
      BY <1>1, <1>3, <3>2 DEF Owned
    <3> QED
      BY <3>1, <3>2
  <2>4. ASSUME NEW v \in 1..Len(W), v \notin globals_
        PROVE  \E f \in Functions : v \in Range(fvars'[f].vars)
    <3>1. CASE v \in later(Len(V), Len(W))
      BY <1>2, <1>3, <3>1
    <3>2. CASE v \in 1..Len(V)
      <4>1. PICK f \in Functions : v \in Range(fvars[f].vars)
        BY <1>1, <2>4, <3>2 DEF Owned
      <4>2. CASE f = func
        BY <1>1, <1>2, <1>3, <4>1, <4>2
      <4>3. CASE f # func
        BY <1>3, <4>1, <4>3
      <4> QED
        BY <4>2, <4>3
    <3> QED
      BY <1>2, <3>1, <3>2 DEF later
  <2> QED
    BY <2>1, <2>3, <2>4 DEF Owned
<1>8. AllPermuted'
  BY <1>3, <1>6 DEF AllPermuted
<1>9. AllServed'
  BY <1>3, <1>6 DEF AllServed
<1>10. Stages'
  <2>1. \A f \in Functions : f > func => f # func /\ fvars[f] = func_vars
    BY <1>1, <1>2, FunctionsAssumption DEF Stages
  <2>2. fv' = y
    BY <1>3 DEF fv
  <2>3. \A f \in Functions : f > func' \/ pc' = "globals" => fvars'[f] = func_vars
    BY <1>3, <2>1
  <2> QED
    BY <2>2, <2>3 DEF Stages
<1> QED
  BY <1>4, <1>7, <1>8, <1>9, <1>10 DEF IndInv

\* Where a function gains neither an index nor a pointee it has the same.
LEMMA GainsSame ==
  ASSUME NEW n, NEW m, NEW x, NEW y, NEW P, NEW I, NEW A, NEW Q, Gains(n, m, x, y, P, I, A, Q),
         NEW v, accs_of(y, v) = accs_of(x, v), \A t : <<v, t>> \notin DOMAIN Q
  PROVE  SameFor(x, y, v)
<1>1. x.indexes \subseteq y.indexes /\ y.pointees = entered(x.pointees, Q)
  BY DEF Gains
<1>2. \A t : <<v, t>> \in DOMAIN y.pointees <=> <<v, t>> \in DOMAIN x.pointees
  BY <1>1 DEF entered
<1>3. \A t : <<v, t>> \in DOMAIN x.pointees => y.pointees[<<v, t>>] = x.pointees[<<v, t>>]
  BY <1>1 DEF entered
<1> QED
  BY <1>1, <1>2, <1>3 DEF SameFor

\* One variable more.
LEMMA OneVariable ==
  ASSUME NEW V \in Seq(TypeIds), NEW t \in TypeIds
  PROVE  /\ Append(V, t) \in Seq(TypeIds) /\ Continues(V, Append(V, t)) /\ Len(V) \in Nat
         /\ Len(Append(V, t)) = Len(V) + 1 /\ Append(V, t)[Len(V) + 1] = t
         /\ (Len(V) + 1)..(Len(V) + 1) = {Len(V) + 1}
BY DEF Continues

\* A step in which the function at work gets y instead, which has the variables
\* that are created, and process_var leaves the variable w or goes on in it.
Gain(y, P, I, A, Q, w) ==
  /\ pc # "globals" /\ vars_' \in Seq(TypeIds) /\ Continues(vars_, vars_')
  /\ Gains(Len(vars_), Len(vars_'), fv, y, P, I, A, Q)
  /\ fvars' = [fvars EXCEPT ![func] = y] /\ UNCHANGED <<globals_, func, todo>>
  /\ Permuted(vars_', y)
  /\ \A v : v # w => accs_of(y, v) = accs_of(fv, v) /\ \A t : <<v, t>> \notin DOMAIN Q
  /\ proc # idle => proc.vid = w
  /\ \A v \in later(Len(vars_), Len(vars_')) \ (P \cup I \cup Range(Q)) : v = w
  /\ w \in Plain(y) => Served(vars_', y, w) \/ (proc' # idle /\ proc'.vid = w)
  /\ proc' # idle => InProcess(vars_', y, proc')
  /\ pc' \in {"indexes", "choose", "locals", "arguments"}
  /\ pc' = "indexes" => pc = "indexes" /\ proc' = idle
  /\ pc' = "choose" => pc = "choose"

LEMMA Gained ==
  ASSUME IndInv, NEW y, NEW P, NEW I, NEW A, NEW Q, NEW w, Gain(y, P, I, A, Q, w)
  PROVE  IndInv'
<1> USE DEF Gain
<1> DEFINE V == vars_
           W == vars_'
           New == later(Len(V), Len(W))
<1>1. /\ V \in Seq(TypeIds) /\ W \in Seq(TypeIds) /\ Len(V) \in Nat /\ Len(W) \in Nat /\ Len(V) <= Len(W)
      /\ func \in Functions /\ globals_ \subseteq 1..Len(V) /\ todo \subseteq globals_
      /\ Owns(Len(V), globals_, fv) /\ AllServed /\ Stages /\ fv = fvars[func]
  BY DEF IndInv, Typed, Owned, Continues, fv
<1>2. /\ Owns(Len(W), globals_, y) /\ Range(y.vars) = Range(fv.vars) \cup New
      /\ Plain(y) = Plain(fv) \cup (New \ (P \cup I \cup Range(Q)))
  <2> DEFINE n == Len(V)
             m == Len(W)
             x == fv
  <2>1. n \in Nat /\ m \in Nat /\ n <= m /\ globals_ \subseteq 1..n /\ Owns(n, globals_, x) /\ Gains(n, m, x, y, P, I, A, Q)
    BY <1>1
  <2> HIDE DEF n, m, x
  <2>2. Owns(m, globals_, y) /\ HasGained(n, m, x, y, P, I, Q)
    BY <2>1, OwnsGains
  <2> QED
    BY <2>2 DEF n, m, x, HasGained
<1>3. ASSUME NEW v \in Plain(y), v # w
      PROVE  Served(W, y, v)
  <2>1. v \in Plain(fv)
    BY <1>2, <1>3
  <2>2. Served(V, fv, v)
    BY <1>1, <1>3, <2>1 DEF AllServed
  <2>3. v \in 1..Len(V)
    BY <1>1, <2>1, OthersKeep
  <2>4. SameFor(fv, y, v)
    BY <1>3, GainsSame
  <2> QED
    BY <1>1, <2>2, <2>3, <2>4, StaysServed
<1>4. New \cap globals_ = {}
  BY <1>1 DEF later
<1>5. pc' = "indexes" => proc' = idle /\ Range(y.vars) \cap globals_ = {}
  BY <1>1, <1>2, <1>4 DEF Stages
<1>6. pc' = "choose" => Range(y.vars) \cap todo' = {}
  BY <1>1, <1>2, <1>4 DEF Stages
<1> QED
  BY <1>1, <1>2, <1>3, <1>5, <1>6, Edited

-----------------------------------------------------------------------------
(* The steps that leave what functions have                                *)

\* A function that has nothing.
LEMMA NothingOwned ==
  ASSUME NEW n \in Nat, NEW G
  PROVE  /\ Owns(n, G, func_vars) /\ Plain(func_vars) = {} /\ Range(func_vars.vars) = {}
         /\ \A V : Permuted(V, func_vars)
<1> DEFINE x == func_vars
           e == <<>>
<1>1. /\ x.vars = e /\ x.perms = {} /\ x.indexes = {} /\ x.args = {}
      /\ x.pointees = e /\ x.accidxs = e /\ x.permutators = e
      /\ x = [vars |-> x.vars, perms |-> x.perms, indexes |-> x.indexes, args |-> x.args,
              pointees |-> x.pointees, accidxs |-> x.accidxs, permutators |-> x.permutators]
  BY DEF func_vars
<1>2. /\ DOMAIN e = {} /\ Range(e) = {} /\ Len(e) = 0 /\ e \in Seq(1..n)
      /\ e = [k \in DOMAIN e |-> e[k]]
  BY DEF Range
<1> HIDE DEF x, e
<1>3. Distinct(e)
  BY <1>2 DEF Distinct
<1>4. Plain(x) = {}
  BY <1>1, <1>2 DEF Plain
<1>5. \A D : IsMap(e, D)
  BY <1>2 DEF IsMap
<1>6. Owns(n, G, x)
  BY <1>1, <1>2, <1>3, <1>5 DEF Owns
<1>7. \A V : Permuted(V, x)
  BY <1>1, <1>2 DEF Permuted
<1> QED
  BY <1>1, <1>2, <1>4, <1>6, <1>7 DEF x

LEMMA InitInv == Init => IndInv
<1> SUFFICES ASSUME Init PROVE IndInv
  OBVIOUS
<1>1. Len(vars_) = 0 /\ vars_ \in Seq(TypeIds) /\ 1 \in Functions
  BY FunctionsAssumption DEF Init
<1>2. \A f \in Functions : fvars[f] = func_vars
  BY DEF Init
<1>3. 0 \in Nat /\ 1..0 = {}
  OBVIOUS
<1>4. Typed
  BY <1>1 DEF Init, Typed
<1>5. Owned /\ AllPermuted /\ AllServed
  BY <1>1, <1>2, <1>3, NothingOwned DEF Owned, AllPermuted, AllServed
<1>6. Stages
  BY <1>2 DEF Init, Stages
<1> QED
  BY <1>4, <1>5, <1>6 DEF IndInv

\* While there are but globals no function has anything.
LEMMA GlobalCreated ==
  ASSUME IndInv, create_global
  PROVE  IndInv'
<1> DEFINE n == Len(vars_)
<1>1. Typed /\ Owned /\ Stages
  BY DEF IndInv
<1>2. PICK t \in TypeIds : vars_' = Append(vars_, t)
  BY DEF create_global
<1>3. /\ pc = "globals" /\ globals_' = globals_ \cup {n + 1}
      /\ UNCHANGED <<pc, fvars, func, todo, left, proc>>
  BY DEF create_global, new
<1>4. /\ n \in Nat /\ globals_ \subseteq 1..n /\ vars_ \in Seq(TypeIds) /\ todo \subseteq globals_
      /\ func \in Functions /\ fvars = [f \in Functions |-> fvars[f]]
  BY <1>1 DEF Typed
<1>5. vars_' \in Seq(TypeIds) /\ Len(vars_') = n + 1
  BY <1>2, <1>4
<1> HIDE DEF n
<1>6. \A f \in Functions : fvars'[f] = func_vars /\ fvars[f] = func_vars
  BY <1>1, <1>3 DEF Stages
<1>7. globals_' \subseteq 1..(n + 1)
  BY <1>3, <1>4
<1>8. Typed'
  BY <1>1, <1>3, <1>4, <1>5, <1>7 DEF Typed
<1>9. AllPermuted' /\ AllServed'
  BY <1>4, <1>6, NothingOwned DEF AllPermuted, AllServed
<1>10. Owned'
  <2>1. \A f \in Functions : Owns(n + 1, globals_', fvars'[f])
    <3>1. n + 1 \in Nat
      BY <1>4
    <3>2. \A G : Owns(n + 1, G, func_vars)
      BY <3>1, NothingOwned
    <3> QED
      BY <1>6, <3>2
  <2>2. \A f \in Functions : Range(fvars'[f].vars) = {} /\ Range(fvars[f].vars) = {}
    BY <1>4, <1>6, NothingOwned
  <2>3. ASSUME NEW v \in 1..(n + 1), v \notin globals_'
        PROVE  FALSE
    <3>1. v \in 1..n /\ v \notin globals_
      BY <1>3, <1>4, <2>3
    <3> QED
      BY <1>1, <2>2, <3>1 DEF Owned, n
  <2> QED
    BY <1>5, <2>1, <2>2, <2>3 DEF Owned
<1>11. Stages'
  BY <1>1, <1>3, <1>6 DEF Stages
<1> QED
  BY <1>8, <1>9, <1>10, <1>11 DEF IndInv

LEMMA GlobalsCreated ==
  ASSUME IndInv, globals_created
  PROVE  IndInv'
<1>1. /\ pc = "globals" /\ pc' = "indexes"
      /\ UNCHANGED <<vars_, globals_, fvars, func, todo, left, proc>>
  BY DEF globals_created
<1>2. Typed /\ Owned /\ AllPermuted /\ AllServed /\ Stages
  BY DEF IndInv
<1>3. Typed'
  BY <1>1, <1>2 DEF Typed
<1>4. Owned' /\ AllPermuted' /\ AllServed'
  BY <1>1, <1>2 DEF Owned, AllPermuted, AllServed
<1>5. Range(fv'.vars) \cap globals_ = {}
  <2>1. fv' = func_vars
    BY <1>1, <1>2 DEF Stages, Typed, fv
  <2>2. Range(func_vars.vars) = {}
    BY NothingOwned
  <2> QED
    BY <2>1, <2>2
<1>6. Stages'
  BY <1>1, <1>2, <1>5 DEF Stages
<1> QED
  BY <1>3, <1>4, <1>6 DEF IndInv

\* No function gets anything; the stage may change, and what process_var does
\* next with its variable.
LEMMA Unedited ==
  ASSUME IndInv, pc # "globals", UNCHANGED <<vars_, globals_, fvars, func>>,
         proc' # idle => InProcess(vars_, fv, proc'),
         proc # idle => proc' # idle /\ proc'.vid = proc.vid,
         pc' \in {"indexes", "choose", "locals", "arguments"}, todo' \subseteq globals_,
         pc' = "indexes" => proc' = idle /\ Range(fv.vars) \cap globals_ = {},
         pc' = "choose" => Range(fv.vars) \cap todo' = {}
  PROVE  IndInv'
<1>1. Typed /\ Owned /\ AllPermuted /\ AllServed /\ Stages
  BY DEF IndInv
<1>2. Typed'
  BY <1>1 DEF Typed
<1>3. Owned' /\ AllPermuted'
  BY <1>1 DEF Owned, AllPermuted
<1>4. AllServed'
  BY <1>1 DEF AllServed
<1>5. Stages'
  <2>1. fv' = fv
    BY DEF fv
  <2> QED
    BY <1>1, <2>1 DEF Stages
<1> QED
  BY <1>2, <1>3, <1>4, <1>5 DEF IndInv

LEMMA StagesTurn ==
  ASSUME IndInv, indexes_added \/ globals_chosen \/ locals_added
  PROVE  IndInv'
<1>1. /\ pc \in {"indexes", "choose", "locals"} /\ proc' = idle /\ proc = idle
      /\ UNCHANGED <<vars_, globals_, fvars, func>>
      /\ pc' \in {"choose", "locals", "arguments"} /\ todo' \subseteq globals_
      /\ pc' = "choose" => pc = "indexes" /\ todo' = globals_
  BY DEF IndInv, Typed, Stages, indexes_added, globals_chosen, locals_added
<1>2. pc' = "choose" => Range(fv.vars) \cap todo' = {}
  BY <1>1 DEF IndInv, Stages
<1> QED
  BY <1>1, <1>2, Unedited

\* The next function has nothing yet.
LEMMA FunctionDone ==
  ASSUME IndInv, function_done
  PROVE  IndInv'
<1>1. /\ pc = "arguments" /\ proc = idle
      /\ pc' = IF func = Len(ArgTypes) THEN "done" ELSE "indexes"
      /\ func' = IF func = Len(ArgTypes) THEN func ELSE func + 1
      /\ UNCHANGED <<vars_, globals_, fvars, todo, left, proc>>
  BY DEF function_done
<1>2. Typed /\ Owned /\ AllPermuted /\ AllServed /\ Stages
  BY DEF IndInv
<1>3. Functions = 1..Len(ArgTypes) /\ Len(ArgTypes) \in Nat /\ func \in Functions
  BY <1>2, FunctionsAssumption DEF Typed
<1>4. func' \in Functions
  BY <1>1, <1>3
<1>5. Typed'
  BY <1>1, <1>2, <1>4 DEF Typed
<1>6. Owned' /\ AllPermuted'
  BY <1>1, <1>2 DEF Owned, AllPermuted
<1>7. AllServed'
  BY <1>1, <1>2 DEF AllServed
<1>8. \A f \in Functions : f > func' => fvars'[f] = func_vars
  BY <1>1, <1>2, <1>3 DEF Stages
<1>9. pc' = "indexes" => Range(fv'.vars) \cap globals_ = {}
  <2> SUFFICES ASSUME pc' = "indexes" PROVE Range(fv'.vars) \cap globals_ = {}
    OBVIOUS
  <2>1. func' = func + 1 /\ func' > func
    BY <1>1, <1>3
  <2>2. fv' = func_vars
    BY <1>1, <1>2, <1>4, <2>1 DEF Stages, fv
  <2>3. Range(func_vars.vars) = {}
    BY NothingOwned
  <2> QED
    BY <2>2, <2>3
<1>10. Stages'
  BY <1>1, <1>3, <1>8, <1>9 DEF Stages
<1> QED
  BY <1>5, <1>6, <1>7, <1>10 DEF IndInv

-----------------------------------------------------------------------------
(* The steps that create or choose a variable                              *)

NoEntries == [k \in {} |-> k]

\* No entries, and one.
LEMMA FewEntries ==
  ASSUME NEW D
  PROVE  /\ IsMap(NoEntries, D) /\ DOMAIN NoEntries = {} /\ Range(NoEntries) = {}
         /\ \A m : IsMap(m, D) => entered(m, NoEntries) = m
         /\ \A k, x : DOMAIN [j \in {k} |-> x] = {k} /\ Range([j \in {k} |-> x]) = {x}
         /\ \A k \in D : \A x : IsMap([j \in {k} |-> x], D)
<1>1. IsMap(NoEntries, D) /\ DOMAIN NoEntries = {} /\ Range(NoEntries) = {}
  BY DEF IsMap, NoEntries, Range
<1>2. ASSUME NEW m, IsMap(m, D)
      PROVE  entered(m, NoEntries) = m
  BY <1>1, <1>2 DEF IsMap, entered
<1>3. \A k, x : DOMAIN [j \in {k} |-> x] = {k} /\ Range([j \in {k} |-> x]) = {x}
  BY DEF Range
<1>4. \A k \in D : \A x : IsMap([j \in {k} |-> x], D)
  BY DEF IsMap
<1> QED
  BY <1>1, <1>2, <1>3, <1>4

\* x with the variable v, which P, I, A or Q may have, and T for its permutators.
given(x, v, P, I, A, Q, T) ==
  [vars |-> Append(x.vars, v), perms |-> x.perms \cup P, indexes |-> x.indexes \cup I, args |-> x.args \cup A,
   pointees |-> entered(x.pointees, Q), accidxs |-> x.accidxs, permutators |-> T]

\* The function gains one variable.
LEMMA GainsOne ==
  ASSUME NEW n \in Nat, NEW G, NEW x, Owns(n, G, x), NEW P, NEW I, NEW A, NEW Q, NEW T,
         IsMap(T, Plain(x)), IsMap(Q, Plain(x) \X TypeIds), DOMAIN Q \cap DOMAIN x.pointees = {},
         Apart(P, I, A, Q, {n + 1})
  PROVE  Gains(n, n + 1, x, given(x, n + 1, P, I, A, Q, T), P, I, A, Q)
<1> DEFINE ids == <<n + 1>>
           y == given(x, n + 1, P, I, A, Q, T)
<1>1. later(n, n + 1) = {n + 1}
  BY DEF later
<1>2. ids \in Seq(later(n, n + 1)) /\ Range(ids) = later(n, n + 1) /\ Distinct(ids)
  BY <1>1 DEF Range, Distinct
<1>3. Append(x.vars, n + 1) = x.vars \o ids
  <2>1. PICK s \in Seq(1..n) : s = x.vars
    BY DEF Owns
  <2>2. Append(s, n + 1) = s \o ids
    BY <2>1
  <2> QED
    BY <2>1, <2>2
<1> HIDE DEF ids
<1>4. IsMap(x.accidxs, Plain(x))
  BY DEF Owns
<1>5. /\ y.perms = x.perms \cup P /\ y.indexes = x.indexes \cup I /\ y.args = x.args \cup A
      /\ y.pointees = entered(x.pointees, Q) /\ y.accidxs = x.accidxs /\ y.permutators = T
      /\ y.vars = Append(x.vars, n + 1)
      /\ y = [vars |-> y.vars, perms |-> y.perms, indexes |-> y.indexes, args |-> y.args,
              pointees |-> y.pointees, accidxs |-> y.accidxs, permutators |-> y.permutators]
  BY DEF given
<1> HIDE DEF y
<1>6. Gains(n, n + 1, x, y, P, I, A, Q)
  BY <1>1, <1>2, <1>3, <1>4, <1>5 DEF Gains
<1> QED
  BY <1>6 DEF y

\* A variable that the function did not have has no supply.
LEMMA Unsupplied ==
  ASSUME NEW n, NEW G, NEW x, Owns(n, G, x), NEW v, v \notin Range(x.vars), NEW V
  PROVE  /\ Supplied(V, x, v, {}, {}) /\ v \notin Plain(x) /\ accs_of(x, v) = <<>>
         /\ v \notin DOMAIN x.permutators
<1>1. v \notin Plain(x)
  BY DEF Plain
<1>2. /\ DOMAIN x.accidxs \subseteq Plain(x) /\ DOMAIN x.pointees \subseteq Plain(x) \X TypeIds
      /\ DOMAIN x.permutators \subseteq Plain(x)
  BY DEF Owns, IsMap
<1>3. accs_of(x, v) = <<>>
  BY <1>1, <1>2 DEF accs_of
<1>4. \A t : <<v, t>> \notin DOMAIN x.pointees
  BY <1>1, <1>2
<1> DEFINE e == <<>>
<1>5. e \in Seq(x.indexes) /\ Len(e) = 0 /\ 1..0 = {}
  OBVIOUS
<1>6. Cardinality({t \in {} : is(t, "ARRAY")}) = 0
  <2>1. {t \in {} : is(t, "ARRAY")} = {}
    OBVIOUS
  <2> QED
    BY <2>1, FS_EmptySet
<1> HIDE DEF e
<1>7. Supplied(V, x, v, {}, {})
  BY <1>3, <1>4, <1>5, <1>6 DEF Supplied, e
<1> QED
  BY <1>1, <1>2, <1>3, <1>7

\* Nothing is needed for a scalar.
LEMMA ScalarServed ==
  ASSUME NEW V, NEW x, NEW v, V[v] \in TypeIds, ~is_complex(V[v]), ~is(V[v], "POINTER"),
         Supplied(V, x, v, {}, {})
  PROVE  Served(V, x, v)
<1> DEFINE t == V[v]
<1>1. subtypes[t] = {t} /\ ~is(t, "ARRAY")
  BY SimpleSubtypes DEF is_complex, is
<1>2. {u \in subtypes[t] : is(u, "ARRAY")} = {u \in {} : is(u, "ARRAY")} /\ Pointers(subtypes[t]) = {}
  BY <1>1 DEF Pointers
<1> QED
  BY <1>2 DEF Served, Supplied

\* process_var is in its variable, unless nothing is needed for that.
LEMMA Entering ==
  ASSUME NEW V, NEW x, NEW v \in Plain(x), V[v] \in TypeIds, Supplied(V, x, v, {}, {})
  PROVE  LET p == process_var(v, V[v])
         IN  /\ Served(V, x, v) \/ (p # idle /\ p.vid = v)
             /\ p # idle => InProcess(V, x, p)
<1> DEFINE t == V[v]
           p == process_var(v, t)
<1>1. CASE is(t, "POINTER")
  <2>1. p = [stage |-> "pointee", vid |-> v]
    BY <1>1 DEF process_var, is
  <2>2. p.vid = v /\ p.stage = "pointee" /\ p # idle
    BY <2>1 DEF idle
  <2> QED
    BY <1>1, <2>1, <2>2 DEF InProcess
<1>2. CASE is(t, "ARRAY")
  <2>1. p = [stage |-> "permutators", vid |-> v]
    BY <1>2 DEF process_var, is
  <2>2. p.vid = v /\ p.stage = "permutators" /\ p # idle
    BY <2>1 DEF idle
  <2> QED
    BY <1>2, <2>1, <2>2 DEF InProcess
<1>3. CASE is(t, "STRUCT")
  <2>1. p = [stage |-> "accessors", vid |-> v, chlds |-> <<t>>]
    BY <1>3 DEF process_var, is
  <2>2. p.vid = v /\ p.stage = "accessors" /\ p # idle /\ p.chlds = <<t>> /\ p.chlds # <<>>
    BY <2>1 DEF idle
  <2>3. is_complex(t) /\ Halfway(t, {}, <<t>>)
    BY <1>3, TypeParts, HalfwayFirst
  <2>4. Pointers(ChildsOf({})) = {}
    BY DEF Pointers, ChildsOf
  <2>5. {} \in SUBSET TypeIds
    OBVIOUS
  <2>6. \E D \in SUBSET TypeIds : Halfway(t, D, p.chlds) /\ Supplied(V, x, v, D, Pointers(ChildsOf(D)))
    BY <2>2, <2>3, <2>4, <2>5
  <2> HIDE DEF p, t
  <2>7. InProcess(V, x, p)
    BY <2>1, <2>2, <2>3, <2>6 DEF InProcess, t
  <2> QED
    BY <2>2, <2>7 DEF p, t
<1>4. CASE ~is(t, "POINTER") /\ ~is(t, "ARRAY") /\ ~is(t, "STRUCT")
  <2>1. p = idle
    BY <1>4 DEF process_var
  <2>2. ~is_complex(t)
    BY <1>4, TypeParts
  <2>3. Served(V, x, v)
    BY <1>4, <2>2, ScalarServed
  <2> QED
    BY <2>1, <2>3
<1> QED
  BY <1>1, <1>2, <1>3, <1>4

\* What of the variable that is created next the function at work may gain.
MayGain(P, I, A, Q, T) ==
  /\ IsMap(T, Plain(fv)) /\ IsMap(Q, Plain(fv) \X TypeIds) /\ DOMAIN Q \cap DOMAIN fv.pointees = {}
  /\ Apart(P, I, A, Q, {new})

\* It has gained it: y is what it has then.
OneMore(t, y, P, I, A, Q, T) ==
  /\ vars_' \in Seq(TypeIds) /\ Continues(vars_, vars_') /\ vars_'[new] = t
  /\ Gains(Len(vars_), Len(vars_'), fv, y, P, I, A, Q) /\ later(Len(vars_), Len(vars_')) = {new}
  /\ T = fv.permutators => Permuted(vars_', y)
  /\ \A v : accs_of(y, v) = accs_of(fv, v)
  /\ new \notin Range(fv.vars) /\ new \in Nat /\ new \notin globals_
  /\ new \in P \cup I \cup Range(Q) => new \notin Plain(y)
  /\ ~(new \in P \cup I \cup Range(Q)) => new \in Plain(y)
  /\ Owns(Len(vars_'), globals_, y)

\* The function at work gains one variable, as GainsOne says.
LEMMA OneGained ==
  ASSUME IndInv, NEW t \in TypeIds, vars_' = Append(vars_, t), NEW P, NEW I, NEW A, NEW Q, NEW T,
         MayGain(P, I, A, Q, T), NEW y, y = given(fv, new, P, I, A, Q, T)
  PROVE  OneMore(t, y, P, I, A, Q, T)
<1>1. Typed /\ Owned /\ AllPermuted /\ fv = fvars[func]
  BY DEF IndInv, fv
<1>2. PICK n \in Nat : n = Len(vars_)
  BY <1>1 DEF Typed
<1>3. PICK m \in Nat : m = n + 1
  OBVIOUS
<1>4. PICK x : x = fv
  OBVIOUS
<1>5. PICK G : G = globals_
  OBVIOUS
<1>6. PICK V \in Seq(TypeIds) : V = vars_
  BY <1>1 DEF Typed
<1>7. Owns(n, G, x) /\ Permuted(V, x) /\ new = m /\ G \subseteq 1..n /\ n = Len(V)
  BY <1>1, <1>2, <1>3, <1>4, <1>5, <1>6 DEF Typed, Owned, AllPermuted, new
<1>8. PICK W \in Seq(TypeIds) : W = vars_' /\ Continues(V, W) /\ W[m] = t /\ Len(W) = m
  BY <1>2, <1>3, <1>6, OneVariable
<1>9. later(n, m) = {m}
  BY <1>3 DEF later
<1>10. m \notin Range(x.vars) /\ m \notin G
  <2>1. x.vars \in Seq(1..n)
    BY <1>7 DEF Owns
  <2> QED
    BY <1>3, <1>7, <2>1 DEF Range
<1>11. y = given(x, m, P, I, A, Q, T)
  BY <1>4, <1>7
<1>12. Gains(n, m, x, y, P, I, A, Q)
  BY <1>3, <1>4, <1>7, <1>11, GainsOne DEF MayGain
<1>13. T = x.permutators => Permuted(W, y)
  <2> SUFFICES ASSUME T = x.permutators PROVE Permuted(W, y)
    OBVIOUS
  <2>1. x.perms \subseteq y.perms /\ y.permutators = x.permutators
    BY <1>11 DEF given
  <2> QED
    BY <1>7, <1>8, <2>1, StaysPermuted
<1>14. \A v : accs_of(y, v) = accs_of(x, v)
  BY <1>11 DEF accs_of, given
<1>15. Owns(m, G, y) /\ HasGained(n, m, x, y, P, I, Q)
  <2>1. n <= m
    BY <1>3
  <2> QED
    BY <1>7, <1>12, <2>1, OwnsGains
<1>16. m \in P \cup I \cup Range(Q) => m \notin Plain(y)
  <2>1. m \notin Plain(x)
    BY <1>10 DEF Plain
  <2> QED
    BY <1>15, <2>1 DEF HasGained
<1>17. ~(m \in P \cup I \cup Range(Q)) => m \in Plain(y)
  BY <1>9, <1>15 DEF HasGained
<1> QED
  BY <1>2, <1>4, <1>5, <1>6, <1>7, <1>8, <1>9, <1>10, <1>12, <1>13, <1>14, <1>15, <1>16, <1>17 DEF OneMore

fields == {"vars", "perms", "indexes", "args", "pointees", "accidxs", "permutators"}
WithFields(x) == x = [k \in fields |-> x[k]]

\* What a function has is known by its fields.
LEMMA SameFields ==
  ASSUME NEW x, NEW y, WithFields(x), WithFields(y),
         x.vars = y.vars, x.perms = y.perms, x.indexes = y.indexes, x.args = y.args,
         x.pointees = y.pointees, x.accidxs = y.accidxs, x.permutators = y.permutators
  PROVE  x = y
<1>1. \A k \in fields : x[k] = y[k]
  BY DEF fields
<1> QED
  BY <1>1 DEF WithFields

\* The fields of one that is given a variable.
HasGiven(y, x, v, P, I, A, Q, T) ==
  /\ WithFields(y) /\ y.vars = Append(x.vars, v) /\ y.perms = x.perms \cup P
  /\ y.indexes = x.indexes \cup I /\ y.args = x.args \cup A
  /\ y.pointees = entered(x.pointees, Q) /\ y.accidxs = x.accidxs /\ y.permutators = T

LEMMA GivenFields ==
  ASSUME NEW x, NEW v, NEW P, NEW I, NEW A, NEW Q, NEW T, NEW y, y = given(x, v, P, I, A, Q, T)
  PROVE  HasGiven(y, x, v, P, I, A, Q, T)
<1>1. DOMAIN y = fields /\ y = [k \in DOMAIN y |-> y[k]]
  BY DEF given, fields
<1> QED
  BY <1>1 DEF WithFields, given, HasGiven

\* What the function at work has, field by field.
LEMMA FieldsOwned ==
  ASSUME IndInv
  PROVE  /\ Typed /\ Owned /\ AllPermuted /\ AllServed /\ Stages /\ func \in Functions /\ fv = fvars[func]
         /\ fvars = [f \in Functions |-> fvars[f]] /\ Owns(Len(vars_), globals_, fv) /\ WithFields(fv)
         /\ IsMap(fv.permutators, Plain(fv)) /\ IsMap(fv.pointees, Plain(fv) \X TypeIds)
         /\ entered(fv.pointees, NoEntries) = fv.pointees
         /\ fv.vars \in Seq(1..Len(vars_))
<1>1. Typed /\ Owned /\ AllPermuted /\ AllServed /\ Stages /\ func \in Functions /\ fv = fvars[func]
  BY DEF IndInv, Typed, fv
<1>2. fvars = [f \in Functions |-> fvars[f]] /\ Owns(Len(vars_), globals_, fv)
  BY <1>1 DEF Typed, Owned
<1>3. /\ IsMap(fv.permutators, Plain(fv)) /\ IsMap(fv.pointees, Plain(fv) \X TypeIds)
      /\ fv.vars \in Seq(1..Len(vars_))
  BY <1>2 DEF Owns
<1>4. entered(fv.pointees, NoEntries) = fv.pointees
  BY <1>3, FewEntries
<1>5. WithFields(fv)
  <2>1. PICK x : x = fv
    OBVIOUS
  <2>2. x = [vars |-> x.vars, perms |-> x.perms, indexes |-> x.indexes, args |-> x.args,
             pointees |-> x.pointees, accidxs |-> x.accidxs, permutators |-> x.permutators]
    BY <1>2, <2>1 DEF Owns
  <2>3. DOMAIN x = fields /\ x = [k \in DOMAIN x |-> x[k]]
    BY <2>2 DEF fields
  <2> QED
    BY <2>1, <2>3 DEF WithFields
<1> QED
  BY <1>1, <1>2, <1>3, <1>4, <1>5

LEMMA FreeIndexAdded ==
  ASSUME IndInv, add_free_index
  PROVE  IndInv'
<1>1. PICK t \in index_types : vars_' = Append(vars_, t)
  BY DEF add_free_index
<1>2. /\ pc = "indexes" /\ UNCHANGED <<pc, globals_, func, todo, left, proc>>
      /\ fvars' = [fvars EXCEPT ![func].indexes = @ \cup {new}, ![func].vars = Append(@, new)]
  BY DEF add_free_index
<1>3. t \in TypeIds /\ proc = idle
  BY <1>2, FieldsOwned DEF Stages, index_types
<1>4. PICK y : y = given(fv, new, {}, {new}, {}, NoEntries, fv.permutators)
  OBVIOUS
<1>5. fvars' = [fvars EXCEPT ![func] = y]
  <2>1. PICK x, z : x = fv /\ z = [x EXCEPT !.indexes = @ \cup {new}, !.vars = Append(@, new)]
    OBVIOUS
  <2>2. WithFields(x) /\ entered(x.pointees, NoEntries) = x.pointees
    BY <2>1, FieldsOwned
  <2>3. /\ WithFields(y) /\ y.vars = Append(x.vars, new) /\ y.perms = x.perms \cup {}
        /\ y.indexes = x.indexes \cup {new} /\ y.args = x.args \cup {}
        /\ y.pointees = x.pointees /\ y.accidxs = x.accidxs /\ y.permutators = x.permutators
    <3>1. y = given(x, new, {}, {new}, {}, NoEntries, x.permutators)
      BY <1>4, <2>1
    <3>2. HasGiven(y, x, new, {}, {new}, {}, NoEntries, x.permutators)
      BY <3>1, GivenFields
    <3> QED
      BY <2>2, <3>2 DEF HasGiven
  <2>4. /\ WithFields(z) /\ z.vars = Append(x.vars, new) /\ z.perms = x.perms
        /\ z.indexes = x.indexes \cup {new} /\ z.args = x.args
        /\ z.pointees = x.pointees /\ z.accidxs = x.accidxs /\ z.permutators = x.permutators
    BY <2>1, <2>2 DEF WithFields, fields
  <2>5. z = y
    BY <2>3, <2>4, SameFields
  <2> QED
    BY <1>2, <2>1, <2>5, FieldsOwned
<1>6. IsMap(NoEntries, Plain(fv) \X TypeIds) /\ DOMAIN NoEntries = {} /\ Range(NoEntries) = {}
  BY FewEntries
<1>7. MayGain({}, {new}, {}, NoEntries, fv.permutators)
  BY <1>6, FieldsOwned DEF MayGain, Apart
<1>8. OneMore(t, y, {}, {new}, {}, NoEntries, fv.permutators)
  BY <1>1, <1>3, <1>4, <1>7, OneGained
<1>9. /\ vars_' \in Seq(TypeIds) /\ Continues(vars_, vars_')
      /\ Gains(Len(vars_), Len(vars_'), fv, y, {}, {new}, {}, NoEntries) /\ later(Len(vars_), Len(vars_')) = {new}
      /\ Permuted(vars_', y) /\ new \notin Plain(y)
      /\ \A v : accs_of(y, v) = accs_of(fv, v)
  BY <1>8 DEF OneMore
<1>10. Gain(y, {}, {new}, {}, NoEntries, new)
  BY <1>2, <1>3, <1>5, <1>6, <1>9 DEF Gain
<1> QED
  BY <1>10, Gained

\* A local or an argument: process_var is entered with it.
LEMMA PlainAdded ==
  ASSUME IndInv, pc # "globals", proc = idle, NEW t \in TypeIds, vars_' = Append(vars_, t),
         NEW A, A \subseteq {new}, NEW y, y = given(fv, new, {}, {}, A, NoEntries, fv.permutators),
         fvars' = [fvars EXCEPT ![func] = y], proc' = process_var(new, t),
         UNCHANGED <<globals_, func, todo>>, pc' \in {"locals", "arguments"}
  PROVE  IndInv'
<1>1. IsMap(NoEntries, Plain(fv) \X TypeIds) /\ DOMAIN NoEntries = {} /\ Range(NoEntries) = {}
  BY FewEntries
<1>2. MayGain({}, {}, A, NoEntries, fv.permutators)
  BY <1>1, FieldsOwned DEF MayGain, Apart
<1>3. OneMore(t, y, {}, {}, A, NoEntries, fv.permutators)
  BY <1>2, OneGained
<1>4. /\ vars_' \in Seq(TypeIds) /\ Continues(vars_, vars_') /\ vars_'[new] = t
      /\ Gains(Len(vars_), Len(vars_'), fv, y, {}, {}, A, NoEntries) /\ later(Len(vars_), Len(vars_')) = {new}
      /\ Permuted(vars_', y) /\ new \in Plain(y)
      /\ \A v : accs_of(y, v) = accs_of(fv, v)
      /\ new \notin Range(fv.vars)
  BY <1>1, <1>3 DEF OneMore
<1>5. Supplied(vars_', y, new, {}, {})
  <2>1. PICK v : v = new
    OBVIOUS
  <2>2. PICK x : x = fv
    OBVIOUS
  <2>3. Supplied(vars_', x, v, {}, {})
    BY <1>4, <2>1, <2>2, FieldsOwned, Unsupplied
  <2>4. accs_of(y, v) = accs_of(x, v) /\ x.indexes \subseteq y.indexes /\ y.pointees = x.pointees
    <3>1. HasGiven(y, fv, new, {}, {}, A, NoEntries, fv.permutators)
      BY GivenFields
    <3> QED
      BY <1>4, <2>2, <3>1, FieldsOwned DEF HasGiven
  <2>5. accs_of(y, v) \in Seq(y.indexes)
    <3>1. PICK a \in Seq(x.indexes) : a = accs_of(x, v)
      BY <2>3 DEF Supplied
    <3> QED
      BY <2>4, <3>1
  <2>6. Supplied(vars_', y, v, {}, {})
    BY <2>3, <2>4, <2>5 DEF Supplied
  <2> QED
    BY <2>1, <2>6
<1>6. /\ Served(vars_', y, new) \/ (proc' # idle /\ proc'.vid = new)
      /\ proc' # idle => InProcess(vars_', y, proc')
  <2>1. PICK v, W : v = new /\ W = vars_'
    OBVIOUS
  <2>2. /\ Served(W, y, v) \/ (process_var(v, W[v]) # idle /\ process_var(v, W[v]).vid = v)
        /\ process_var(v, W[v]) # idle => InProcess(W, y, process_var(v, W[v]))
    BY <1>4, <1>5, <2>1, Entering
  <2>3. process_var(v, W[v]) = proc'
    BY <1>4, <2>1
  <2> QED
    BY <2>1, <2>2, <2>3
<1>7. Gain(y, {}, {}, A, NoEntries, new)
  BY <1>1, <1>4, <1>6 DEF Gain
<1> QED
  BY <1>7, Gained

LEMMA LocalAttempted ==
  ASSUME IndInv, attempt_local
  PROVE  IndInv'
<1>1. /\ pc = "locals" /\ proc = idle /\ UNCHANGED <<globals_, func, todo>>
      /\ pc' \in {"locals", "arguments"} /\ todo \subseteq globals_
  BY FieldsOwned DEF attempt_local, Typed
<1>2. PICK t \in TypeIds :
        IF t \in Accepts[func]
        THEN /\ vars_' = Append(vars_, t) /\ proc' = process_var(new, t)
             /\ fvars' = [fvars EXCEPT ![func].vars = Append(@, new)]
        ELSE UNCHANGED <<vars_, fvars, proc>>
  BY DEF attempt_local
<1>3. CASE t \in Accepts[func]
  <2>1. PICK y : y = given(fv, new, {}, {}, {}, NoEntries, fv.permutators)
    OBVIOUS
  <2>2. fvars' = [fvars EXCEPT ![func] = y]
    <3>1. PICK x, z : x = fv /\ z = [x EXCEPT !.vars = Append(@, new)]
      OBVIOUS
    <3>2. WithFields(x) /\ entered(x.pointees, NoEntries) = x.pointees
      BY <3>1, FieldsOwned
    <3>3. y = given(x, new, {}, {}, {}, NoEntries, x.permutators)
      BY <2>1, <3>1
    <3>4. HasGiven(y, x, new, {}, {}, {}, NoEntries, x.permutators)
      BY <3>3, GivenFields
    <3>5. WithFields(z)
      BY <3>1, <3>2 DEF WithFields, fields
    <3>6. /\ z.vars = Append(x.vars, new) /\ z.perms = x.perms /\ z.indexes = x.indexes /\ z.args = x.args
          /\ z.pointees = x.pointees /\ z.accidxs = x.accidxs /\ z.permutators = x.permutators
      BY <3>1, <3>2 DEF WithFields, fields
    <3>7. z = y
      BY <3>2, <3>4, <3>5, <3>6, SameFields DEF HasGiven
    <3> QED
      BY <1>2, <1>3, <3>1, <3>7, FieldsOwned
  <2> QED
    BY <1>1, <1>2, <1>3, <2>1, <2>2, PlainAdded
<1>4. CASE t \notin Accepts[func]
  BY <1>1, <1>2, <1>4, Unedited
<1> QED
  BY <1>3, <1>4

LEMMA ArgumentCreated ==
  ASSUME IndInv, create_argument
  PROVE  IndInv'
<1>1. /\ pc = "arguments" /\ proc = idle /\ UNCHANGED <<pc, globals_, func, todo>>
      /\ Cardinality(fv.args) < Len(argtypes)
  BY DEF create_argument
<1>2. PICK t : /\ t = argtypes[Cardinality(fv.args) + 1]
               /\ vars_' = Append(vars_, t) /\ proc' = process_var(new, t)
               /\ fvars' = [fvars EXCEPT ![func].args = @ \cup {new}, ![func].vars = Append(@, new)]
  BY DEF create_argument
<1>3. t \in TypeIds
  <2>1. PICK x : x = fv.args
    OBVIOUS
  <2>2. Cardinality(x) \in Nat
    <3>1. x \subseteq 1..Len(vars_)
      <4>1. PICK n : n = Len(vars_)
        OBVIOUS
      <4>2. PICK z : z = fv
        OBVIOUS
      <4>3. Owns(n, globals_, z)
        BY <4>1, <4>2, FieldsOwned
      <4>4. z.vars \in Seq(1..n) /\ z.args \subseteq Range(z.vars)
        BY <4>3 DEF Owns
      <4>5. Range(z.vars) \subseteq 1..n
        BY <4>4, RangeIn
      <4> QED
        BY <2>1, <4>1, <4>2, <4>4, <4>5
    <3>2. Len(vars_) \in Nat
      BY FieldsOwned DEF Typed
    <3>3. IsFiniteSet(1..Len(vars_))
      BY <3>2, FS_Interval
    <3> QED
      BY <3>1, <3>3, FS_Subset, FS_CardinalityType
  <2>3. PICK s \in Seq(TypeIds) : s = argtypes
    BY FieldsOwned, FunctionsAssumption DEF argtypes
  <2> QED
    BY <1>1, <1>2, <2>1, <2>2, <2>3
<1>4. PICK y : y = given(fv, new, {}, {}, {new}, NoEntries, fv.permutators)
  OBVIOUS
<1>5. fvars' = [fvars EXCEPT ![func] = y]
  <2>1. PICK x, z : x = fv /\ z = [x EXCEPT !.args = @ \cup {new}, !.vars = Append(@, new)]
    OBVIOUS
  <2>2. WithFields(x) /\ entered(x.pointees, NoEntries) = x.pointees
    BY <2>1, FieldsOwned
  <2>3. y = given(x, new, {}, {}, {new}, NoEntries, x.permutators)
    BY <1>4, <2>1
  <2>4. HasGiven(y, x, new, {}, {}, {new}, NoEntries, x.permutators)
    BY <2>3, GivenFields
  <2>5. /\ WithFields(z) /\ z.vars = Append(x.vars, new) /\ z.perms = x.perms /\ z.indexes = x.indexes
        /\ z.args = x.args \cup {new}
        /\ z.pointees = x.pointees /\ z.accidxs = x.accidxs /\ z.permutators = x.permutators
    BY <2>1, <2>2 DEF WithFields, fields
  <2>6. z = y
    BY <2>2, <2>4, <2>5, SameFields DEF HasGiven
  <2> QED
    BY <1>2, <2>1, <2>6, FieldsOwned
<1> QED
  BY <1>1, <1>2, <1>3, <1>4, <1>5, PlainAdded

-----------------------------------------------------------------------------
(* The steps of process_var                                                *)

\* The variable that process_var is in.
LEMMA Within ==
  ASSUME IndInv, proc # idle
  PROVE  /\ pc \in {"choose", "locals", "arguments"} /\ InProcess(vars_, fv, proc)
         /\ proc.vid \in Plain(fv) /\ proc.vid \in 1..Len(vars_) /\ vars_[proc.vid] \in TypeIds
         /\ proc.vid # new
<1>1. pc \in {"choose", "locals", "arguments"} /\ InProcess(vars_, fv, proc)
  BY FieldsOwned DEF Stages, Typed
<1>2. proc.vid \in Plain(fv)
  BY <1>1 DEF InProcess
<1>3. PICK s \in Seq(1..Len(vars_)) : s = fv.vars
  BY FieldsOwned
<1>4. Range(s) \subseteq 1..Len(vars_)
  BY DEF Range
<1>5. proc.vid \in 1..Len(vars_)
  BY <1>2, <1>3, <1>4 DEF Plain
<1>6. vars_ \in Seq(TypeIds) /\ Len(vars_) \in Nat
  BY FieldsOwned DEF Typed
<1> QED
  BY <1>1, <1>2, <1>5, <1>6 DEF new

LEMMA PointeeCreated ==
  ASSUME IndInv, create_pointee
  PROVE  IndInv'
<1>1. /\ proc.stage = "pointee" /\ proc' = idle /\ UNCHANGED <<pc, globals_, func, todo>>
      /\ vars_' = Append(vars_, get_pointee(vars_[proc.vid]))
      /\ fvars' = [fvars EXCEPT
           ![func].pointees = entered(@, [k \in {<<proc.vid, vars_[proc.vid]>>} |-> new]),
           ![func].vars = Append(@, new)]
  BY DEF create_pointee
<1>2. proc # idle
  BY <1>1 DEF idle
<1>3. PICK v, t : v = proc.vid /\ t = vars_[v]
  OBVIOUS
<1>4. /\ pc \in {"choose", "locals", "arguments"} /\ v \in Plain(fv) /\ v \in 1..Len(vars_) /\ t \in TypeIds
      /\ v # new
  BY <1>2, <1>3, Within
<1>5. is(t, "POINTER") /\ Supplied(vars_, fv, v, {}, {})
  BY <1>1, <1>2, <1>3, Within DEF InProcess
<1>6. /\ get_pointee(t) \in TypeIds /\ subtypes[t] = {t} /\ Pointers({t}) = {t}
      /\ {u \in {t} : is(u, "ARRAY")} = {u \in {} : is(u, "ARRAY")}
  BY <1>4, <1>5, SimpleSubtypes, TypeParts DEF Pointers, is, is_complex
<1>7. PICK Q : Q = [k \in {<<v, t>>} |-> new]
  OBVIOUS
<1>8. /\ IsMap(Q, Plain(fv) \X TypeIds) /\ DOMAIN Q = {<<v, t>>} /\ Range(Q) = {new}
      /\ Q[<<v, t>>] = new
  <2>1. PICK n, k, D : n = new /\ k = <<v, t>> /\ D = Plain(fv) \X TypeIds
    OBVIOUS
  <2>2. k \in D
    BY <1>4, <2>1
  <2>3. Q = [j \in {k} |-> n]
    BY <1>7, <2>1
  <2>4. IsMap(Q, D) /\ DOMAIN Q = {k} /\ Range(Q) = {n} /\ Q[k] = n
    BY <2>2, <2>3, FewEntries
  <2> QED
    BY <2>1, <2>4
<1>9. \A u : <<v, u>> \notin DOMAIN fv.pointees
  BY <1>5 DEF Supplied
<1>10. MayGain({}, {}, {}, Q, fv.permutators)
  BY <1>8, <1>9, FieldsOwned DEF MayGain, Apart
<1>11. PICK y : y = given(fv, new, {}, {}, {}, Q, fv.permutators)
  OBVIOUS
<1>12. OneMore(get_pointee(t), y, {}, {}, {}, Q, fv.permutators)
  BY <1>1, <1>3, <1>6, <1>10, <1>11, OneGained
<1>13. /\ vars_' \in Seq(TypeIds) /\ Continues(vars_, vars_') /\ vars_'[new] = get_pointee(t)
       /\ Gains(Len(vars_), Len(vars_'), fv, y, {}, {}, {}, Q) /\ later(Len(vars_), Len(vars_')) = {new}
       /\ Permuted(vars_', y)
       /\ \A w : accs_of(y, w) = accs_of(fv, w)
  BY <1>12 DEF OneMore
<1>14. HasGiven(y, fv, new, {}, {}, {}, Q, fv.permutators)
  BY <1>11, GivenFields
<1>15. fvars' = [fvars EXCEPT ![func] = y]
  <2>1. PICK x, z : x = fv /\ z = [x EXCEPT !.pointees = entered(@, Q), !.vars = Append(@, new)]
    OBVIOUS
  <2>2. WithFields(x)
    BY <2>1, FieldsOwned
  <2>3. HasGiven(y, x, new, {}, {}, {}, Q, x.permutators)
    BY <1>14, <2>1
  <2>4. /\ WithFields(z) /\ z.vars = Append(x.vars, new) /\ z.perms = x.perms /\ z.indexes = x.indexes
        /\ z.args = x.args /\ z.pointees = entered(x.pointees, Q)
        /\ z.accidxs = x.accidxs /\ z.permutators = x.permutators
    BY <2>1, <2>2 DEF WithFields, fields
  <2>5. z = y
    BY <2>3, <2>4, SameFields DEF HasGiven
  <2> QED
    BY <1>1, <1>3, <1>7, <2>1, <2>5, FieldsOwned
<1>16. Supplied(vars_', y, v, {t}, {t})
  <2>1. PICK a \in Seq(fv.indexes) :
          /\ a = accs_of(fv, v) /\ \A i \in 1..Len(a) : vars_[a[i]] \in index_types
          /\ Len(a) = Cardinality({u \in {} : is(u, "ARRAY")})
    BY <1>5 DEF Supplied
  <2>2. Len(a) = 0
    <3>1. {u \in {} : is(u, "ARRAY")} = {}
      OBVIOUS
    <3> QED
      BY <2>1, <3>1, FS_EmptySet
  <2>3. a \in Seq(y.indexes) /\ \A i \in 1..Len(a) : vars_'[a[i]] \in index_types
    BY <1>14, <2>2 DEF HasGiven
  <2>4. \A u : <<v, u>> \in DOMAIN y.pointees <=> u \in {t}
    BY <1>8, <1>9, <1>14 DEF HasGiven, entered
  <2>5. y.pointees[<<v, t>>] = new
    BY <1>8, <1>14 DEF HasGiven, entered
  <2> QED
    BY <1>6, <1>13, <2>1, <2>3, <2>4, <2>5 DEF Supplied
<1>17. Served(vars_', y, v)
  <2>1. vars_'[v] = t
    BY <1>3, <1>4, <1>13 DEF Continues
  <2> QED
    BY <1>6, <1>16, <2>1 DEF Served
<1>18. \A w : w # v => accs_of(y, w) = accs_of(fv, w) /\ \A u : <<w, u>> \notin DOMAIN Q
  BY <1>8, <1>13
<1>19. \A u \in later(Len(vars_), Len(vars_')) \ ({} \cup {} \cup Range(Q)) : u = v
  BY <1>8, <1>13
<1>20. /\ pc # "globals" /\ pc' \in {"indexes", "choose", "locals", "arguments"}
       /\ pc' = "indexes" => pc = "indexes" /\ proc' = idle
       /\ pc' = "choose" => pc = "choose"
  BY <1>1, <1>4
<1>21. Gain(y, {}, {}, {}, Q, v)
  BY <1>1, <1>3, <1>13, <1>15, <1>17, <1>18, <1>19, <1>20 DEF Gain
<1> QED
  BY <1>21, Gained

\* A new permutator fits when its type does, and the others do as before.
LEMMA PushedPermuted ==
  ASSUME NEW V \in Seq(TypeIds), NEW W \in Seq(TypeIds), Continues(V, W), NEW G,
         NEW x, Owns(Len(V), G, x), Permuted(V, x), NEW y, NEW m, NEW v \in 1..Len(V),
         y.perms = x.perms \cup {m}, y.permutators = pushed(x.permutators, v, m),
         is(V[v], "ARRAY"), W[m] \in perm_types(Types[V[v]].nitems)
  PROVE  Permuted(W, y)
<1> DEFINE z == [perms |-> y.perms, permutators |-> x.permutators]
<1>1. z.perms = y.perms /\ z.permutators = x.permutators
  OBVIOUS
<1> HIDE DEF z
<1>2. Permuted(W, z)
  BY <1>1, StaysPermuted
<1>3. W[v] = V[v]
  BY DEF Continues
<1>4. /\ DOMAIN y.permutators = DOMAIN x.permutators \cup {v}
      /\ \A u \in DOMAIN x.permutators : u # v => y.permutators[u] = x.permutators[u]
      /\ v \in DOMAIN x.permutators => y.permutators[v] = Append(x.permutators[v], m)
      /\ v \notin DOMAIN x.permutators => y.permutators[v] = <<m>>
  BY DEF pushed, entered
<1> SUFFICES ASSUME NEW u \in DOMAIN y.permutators
             PROVE  /\ is(W[u], "ARRAY") /\ y.permutators[u] \in Seq(y.perms)
                    /\ \A i \in 1..Len(y.permutators[u]) :
                         W[y.permutators[u][i]] \in perm_types(Types[W[u]].nitems)
  BY DEF Permuted
<1>5. CASE u # v
  BY <1>1, <1>2, <1>4, <1>5 DEF Permuted
<1>6. CASE u = v /\ v \in DOMAIN x.permutators
  <2>1. PICK s \in Seq(y.perms) : s = x.permutators[v] /\ \A i \in 1..Len(s) : W[s[i]] \in perm_types(Types[W[v]].nitems)
    BY <1>1, <1>2, <1>6 DEF Permuted
  <2>2. PICK r \in Seq(y.perms) : r = Append(s, m) /\ Len(r) = Len(s) + 1 /\ r[Len(s) + 1] = m
                                  /\ \A i \in 1..Len(s) : r[i] = s[i]
    <3>1. PICK S : S = y.perms /\ m \in S /\ s \in Seq(S)
      OBVIOUS
    <3>2. /\ Append(s, m) \in Seq(S) /\ Len(Append(s, m)) = Len(s) + 1 /\ Append(s, m)[Len(s) + 1] = m
          /\ \A i \in 1..Len(s) : Append(s, m)[i] = s[i]
      BY <3>1
    <3> QED
      BY <3>1, <3>2
  <2>3. \A i \in 1..Len(r) : W[r[i]] \in perm_types(Types[W[v]].nitems)
    <3> TAKE i \in 1..Len(r)
    <3>1. i \in 1..Len(s) \/ i = Len(s) + 1
      BY <2>2
    <3> QED
      BY <1>3, <2>1, <2>2, <3>1
  <2> QED
    BY <1>3, <1>4, <1>6, <2>1, <2>2, <2>3
<1>7. CASE u = v /\ v \notin DOMAIN x.permutators
  <2>1. <<m>> \in Seq(y.perms) /\ \A i \in 1..Len(<<m>>) : <<m>>[i] = m
    OBVIOUS
  <2> QED
    BY <1>3, <1>4, <1>7, <2>1
<1> QED
  BY <1>5, <1>6, <1>7

\* process_var turns to the accessors of its variable.
LEMMA AccessorsEntered ==
  ASSUME NEW V, NEW x, NEW v \in Plain(x), V[v] \in TypeIds, is_complex(V[v]), Supplied(V, x, v, {}, {}),
         NEW p, p = [stage |-> "accessors", vid |-> v, chlds |-> <<V[v]>>]
  PROVE  InProcess(V, x, p)
<1>1. PICK t : t = V[v]
  OBVIOUS
<1>2. p.vid = v /\ p.chlds = <<t>> /\ p.chlds # <<>> /\ p = [stage |-> "accessors", vid |-> p.vid, chlds |-> p.chlds]
  BY <1>1
<1>3. Halfway(t, {}, <<t>>) /\ Pointers(ChildsOf({})) = {} /\ {} \in SUBSET TypeIds
  BY <1>1, HalfwayFirst DEF Pointers, ChildsOf
<1>4. \E D \in SUBSET TypeIds : Halfway(t, D, p.chlds) /\ Supplied(V, x, v, D, Pointers(ChildsOf(D)))
  BY <1>2, <1>3
<1> QED
  BY <1>1, <1>2, <1>4 DEF InProcess

LEMMA PermutatorsDone ==
  ASSUME IndInv, permutators_done
  PROVE  IndInv'
<1>1. /\ proc.stage = "permutators" /\ proc' = accessors
      /\ UNCHANGED <<pc, vars_, globals_, fvars, func, todo>>
  BY DEF permutators_done
<1>2. proc # idle
  BY <1>1 DEF idle
<1>3. /\ pc \in {"choose", "locals", "arguments"} /\ proc.vid \in Plain(fv) /\ vars_[proc.vid] \in TypeIds
      /\ is(vars_[proc.vid], "ARRAY") /\ Supplied(vars_, fv, proc.vid, {}, {})
  BY <1>1, <1>2, Within DEF InProcess
<1>4. InProcess(vars_, fv, proc')
  BY <1>1, <1>3, TypeParts, AccessorsEntered DEF accessors
<1>5. proc' # idle /\ proc'.vid = proc.vid
  BY <1>1 DEF accessors, idle
<1>6. todo \subseteq globals_ /\ (pc = "choose" => Range(fv.vars) \cap todo = {})
  BY FieldsOwned DEF Typed, Stages
<1> QED
  BY <1>1, <1>3, <1>4, <1>5, <1>6, Unedited

LEMMA PermutatorAdded ==
  ASSUME IndInv, add_permutator
  PROVE  IndInv'
<1>1. /\ proc.stage = "permutators" /\ UNCHANGED <<pc, globals_, func, todo>>
      /\ fvars' = [fvars EXCEPT ![func].perms = @ \cup {new},
                                ![func].permutators = pushed(@, proc.vid, new),
                                ![func].vars = Append(@, new)]
      /\ proc' = accessors \/ proc' = proc
  BY DEF add_permutator
<1>2. PICK v : v = proc.vid
  OBVIOUS
<1>3. PICK t \in perm_types(Types[vars_[v]].nitems) : vars_' = Append(vars_, t)
  BY <1>2 DEF add_permutator
<1>4. proc # idle
  BY <1>1 DEF idle
<1>5. /\ pc \in {"choose", "locals", "arguments"} /\ v \in Plain(fv) /\ v \in 1..Len(vars_) /\ vars_[v] \in TypeIds
      /\ v # new /\ t \in TypeIds
  BY <1>2, <1>4, Within DEF perm_types
<1>6. is(vars_[v], "ARRAY") /\ Supplied(vars_, fv, v, {}, {}) /\ proc = [stage |-> "permutators", vid |-> v]
  BY <1>1, <1>2, <1>4, Within DEF InProcess
<1>7. IsMap(NoEntries, Plain(fv) \X TypeIds) /\ DOMAIN NoEntries = {} /\ Range(NoEntries) = {}
  BY FewEntries
<1>8. PICK T : T = pushed(fv.permutators, v, new)
  OBVIOUS
<1>9. IsMap(T, Plain(fv))
  <2>1. DOMAIN T = DOMAIN fv.permutators \cup {v} /\ T = [k \in DOMAIN T |-> T[k]]
    BY <1>8 DEF pushed, entered
  <2> QED
    BY <1>5, <2>1, FieldsOwned DEF IsMap
<1>10. MayGain({new}, {}, {}, NoEntries, T)
  BY <1>7, <1>9 DEF MayGain, Apart
<1>11. PICK y : y = given(fv, new, {new}, {}, {}, NoEntries, T)
  OBVIOUS
<1>12. OneMore(t, y, {new}, {}, {}, NoEntries, T)
  BY <1>3, <1>5, <1>10, <1>11, OneGained
<1>13. /\ vars_' \in Seq(TypeIds) /\ Continues(vars_, vars_') /\ vars_'[new] = t
       /\ Gains(Len(vars_), Len(vars_'), fv, y, {new}, {}, {}, NoEntries) /\ later(Len(vars_), Len(vars_')) = {new}
       /\ \A w : accs_of(y, w) = accs_of(fv, w)
       /\ Owns(Len(vars_'), globals_, y)
  BY <1>12 DEF OneMore
<1>14. HasGiven(y, fv, new, {new}, {}, {}, NoEntries, T)
  BY <1>11, GivenFields
<1>15. fvars' = [fvars EXCEPT ![func] = y]
  <2>1. PICK x, z : x = fv /\ z = [x EXCEPT !.perms = @ \cup {new}, !.permutators = pushed(@, v, new), !.vars = Append(@, new)]
    OBVIOUS
  <2>2. WithFields(x) /\ entered(x.pointees, NoEntries) = x.pointees /\ T = pushed(x.permutators, v, new)
    BY <1>8, <2>1, FieldsOwned
  <2>3. HasGiven(y, x, new, {new}, {}, {}, NoEntries, T)
    BY <1>14, <2>1
  <2>4. /\ WithFields(z) /\ z.vars = Append(x.vars, new) /\ z.perms = x.perms \cup {new} /\ z.indexes = x.indexes
        /\ z.args = x.args /\ z.pointees = x.pointees
        /\ z.accidxs = x.accidxs /\ z.permutators = T
    BY <2>1, <2>2 DEF WithFields, fields
  <2>5. z = y
    BY <2>2, <2>3, <2>4, SameFields DEF HasGiven
  <2> QED
    BY <1>1, <1>2, <2>1, <2>5, FieldsOwned
<1>16. Permuted(vars_', y)
  <2>1. PICK V, W, x, m : V = vars_ /\ W = vars_' /\ x = fv /\ m = new
    OBVIOUS
  <2>2. V \in Seq(TypeIds) /\ W \in Seq(TypeIds) /\ Continues(V, W) /\ Owns(Len(V), globals_, x) /\ Permuted(V, x)
    BY <1>13, <2>1, FieldsOwned DEF Typed, AllPermuted
  <2>3. y.perms = x.perms \cup {m} /\ y.permutators = pushed(x.permutators, v, m)
    BY <1>8, <1>14, <2>1 DEF HasGiven
  <2>4. v \in 1..Len(V) /\ is(V[v], "ARRAY") /\ W[m] \in perm_types(Types[V[v]].nitems)
    BY <1>5, <1>6, <1>13, <2>1
  <2> QED
    BY <2>1, <2>2, <2>3, <2>4, PushedPermuted
<1>17. Supplied(vars_', y, v, {}, {})
  <2>1. SameFor(fv, y, v)
    BY <1>7, <1>13, GainsSame
  <2> QED
    BY <1>6, <1>13, <2>1, FieldsOwned, StaysSupplied DEF Typed
<1>18. v \in Plain(y)
  <2>1. HasGained(Len(vars_), Len(vars_'), fv, y, {new}, {}, NoEntries)
    <3>1. Len(vars_) \in Nat /\ Len(vars_') \in Nat /\ Len(vars_) <= Len(vars_') /\ globals_ \subseteq 1..Len(vars_)
      BY <1>13, FieldsOwned DEF Typed, Continues
    <3> QED
      BY <1>13, <3>1, FieldsOwned, OwnsGains
  <2> QED
    BY <1>5, <2>1 DEF HasGained
<1>19. vars_'[v] = vars_[v]
  BY <1>5, <1>13 DEF Continues
<1>20. InProcess(vars_', y, proc') /\ proc' # idle /\ proc'.vid = v
  <2>1. CASE proc' = proc
    BY <1>4, <1>6, <1>17, <1>18, <1>19, <2>1 DEF InProcess
  <2>2. CASE proc' = accessors
    <3>1. proc' = [stage |-> "accessors", vid |-> v, chlds |-> <<vars_'[v]>>]
      BY <1>2, <1>19, <2>2 DEF accessors
    <3>2. is_complex(vars_'[v]) /\ vars_'[v] \in TypeIds
      BY <1>5, <1>6, <1>19, TypeParts
    <3> QED
      BY <1>17, <1>18, <3>1, <3>2, AccessorsEntered DEF idle
  <2> QED
    BY <1>1, <2>1, <2>2
<1>21. Gain(y, {new}, {}, {}, NoEntries, v)
  BY <1>1, <1>2, <1>5, <1>7, <1>13, <1>15, <1>16, <1>20 DEF Gain
<1> QED
  BY <1>21, Gained

\* y is x with the variable g.
Chosen(x, y, g) ==
  /\ WithFields(y) /\ y.vars = Append(x.vars, g) /\ y.perms = x.perms /\ y.indexes = x.indexes
  /\ y.args = x.args /\ y.pointees = x.pointees /\ y.accidxs = x.accidxs /\ y.permutators = x.permutators

OwnsToo(n, G, x, y, g) ==
  Owns(n, G, y) /\ Plain(y) = Plain(x) \cup {g} /\ Range(y.vars) = Range(x.vars) \cup {g}

\* A function owns what it did when it may use a global, too.
LEMMA OwnsChosen ==
  ASSUME NEW n \in Nat, NEW G, G \subseteq 1..n, NEW x, Owns(n, G, x), NEW g \in G, g \notin Range(x.vars),
         NEW y, Chosen(x, y, g)
  PROVE  OwnsToo(n, G, x, y, g)
<1> USE DEF Chosen
<1>1. PICK S, s : S = 1..n /\ s = x.vars /\ s \in Seq(S) /\ Distinct(s) /\ g \in S /\ g \notin Range(s)
  BY DEF Owns
<1>2. Append(s, g) \in Seq(S) /\ Range(Append(s, g)) = Range(s) \cup {g} /\ Distinct(Append(s, g))
  BY <1>1, OneLonger
<1>3. y.vars \in Seq(1..n) /\ Range(y.vars) = Range(x.vars) \cup {g} /\ Distinct(y.vars)
  BY <1>1, <1>2
<1>4. /\ x.perms \cup x.indexes \cup x.args \cup Range(x.pointees) \subseteq Range(x.vars) \ G
      /\ x.perms \cap x.indexes = {} /\ x.perms \cap x.args = {} /\ x.indexes \cap x.args = {}
      /\ Range(x.pointees) \cap (x.perms \cup x.indexes \cup x.args) = {}
      /\ \A k, l \in DOMAIN x.pointees : x.pointees[k] = x.pointees[l] => k = l
      /\ IsMap(x.pointees, Plain(x) \X TypeIds) /\ IsMap(x.accidxs, Plain(x)) /\ IsMap(x.permutators, Plain(x))
  BY DEF Owns
<1>5. Plain(y) = Plain(x) \cup {g}
  BY <1>3, <1>4 DEF Plain
<1>6. IsMap(y.pointees, Plain(y) \X TypeIds) /\ IsMap(y.accidxs, Plain(y)) /\ IsMap(y.permutators, Plain(y))
  <2>1. Plain(x) \subseteq Plain(y) /\ Plain(x) \X TypeIds \subseteq Plain(y) \X TypeIds
    BY <1>5
  <2> QED
    BY <1>4, <2>1 DEF IsMap
<1>7. y = [vars |-> y.vars, perms |-> y.perms, indexes |-> y.indexes, args |-> y.args,
           pointees |-> y.pointees, accidxs |-> y.accidxs, permutators |-> y.permutators]
  <2>1. PICK z : z = [vars |-> y.vars, perms |-> y.perms, indexes |-> y.indexes, args |-> y.args,
                      pointees |-> y.pointees, accidxs |-> y.accidxs, permutators |-> y.permutators]
    OBVIOUS
  <2>2. DOMAIN z = fields /\ z = [k \in DOMAIN z |-> z[k]]
    BY <2>1 DEF fields
  <2>3. z = y
    BY <2>1, <2>2, SameFields DEF WithFields
  <2> QED
    BY <2>1, <2>3
<1>8. /\ y.perms \cup y.indexes \cup y.args \cup Range(y.pointees) \subseteq Range(y.vars) \ G
      /\ y.perms \cap y.indexes = {} /\ y.perms \cap y.args = {} /\ y.indexes \cap y.args = {}
      /\ Range(y.pointees) \cap (y.perms \cup y.indexes \cup y.args) = {}
      /\ \A k, l \in DOMAIN y.pointees : y.pointees[k] = y.pointees[l] => k = l
  BY <1>3, <1>4
<1>9. Owns(n, G, y)
  BY <1>3, <1>6, <1>7, <1>8 DEF Owns
<1> QED
  BY <1>3, <1>5, <1>9 DEF OwnsToo

LEMMA GlobalChosen ==
  ASSUME IndInv, choose_global
  PROVE  IndInv'
<1>1. /\ pc = "choose" /\ proc = idle /\ UNCHANGED <<pc, vars_, globals_, func>>
  BY DEF choose_global
<1>2. PICK g \in todo : \E yes \in accept_type(g) :
        /\ fvars' = IF yes THEN [fvars EXCEPT ![func].vars = Append(@, g)] ELSE fvars
        /\ proc' = IF yes THEN process_var(g, vars_[g]) ELSE idle
        /\ todo' = todo \ {g}
  BY DEF choose_global
<1>3. /\ todo \subseteq globals_ /\ globals_ \subseteq 1..Len(vars_) /\ vars_ \in Seq(TypeIds)
      /\ Len(vars_) \in Nat /\ Range(fv.vars) \cap todo = {}
  BY <1>1, FieldsOwned DEF Typed, Stages
<1>4. CASE fvars' = fvars /\ proc' = idle
  BY <1>1, <1>2, <1>3, <1>4, Unedited
<1>5. CASE /\ fvars' = [fvars EXCEPT ![func].vars = Append(@, g)]
           /\ proc' = process_var(g, vars_[g])
  <2>1. PICK n, V, x, G :
          n \in Nat /\ V \in Seq(TypeIds) /\ n = Len(vars_) /\ V = vars_ /\ n = Len(V) /\ x = fv /\ G = globals_
    BY <1>3
  <2>2. /\ G \subseteq 1..n /\ g \in G /\ g \notin Range(x.vars) /\ V[g] \in TypeIds
        /\ Owns(n, G, x) /\ WithFields(x) /\ Permuted(V, x) /\ Continues(V, V)
    BY <1>2, <1>3, <2>1, FieldsOwned DEF AllPermuted, Continues
  <2>3. PICK y : y = [x EXCEPT !.vars = Append(@, g)]
    OBVIOUS
  <2>4. /\ WithFields(y) /\ y.vars = Append(x.vars, g) /\ y.perms = x.perms /\ y.indexes = x.indexes
        /\ y.args = x.args /\ y.pointees = x.pointees /\ y.accidxs = x.accidxs /\ y.permutators = x.permutators
    BY <2>2, <2>3 DEF WithFields, fields
  <2>5. fvars' = [fvars EXCEPT ![func] = y]
    BY <1>2, <1>5, <2>1, <2>3, FieldsOwned
  <2>6. Owns(n, G, y) /\ Plain(y) = Plain(x) \cup {g} /\ Range(y.vars) = Range(x.vars) \cup {g}
    <3>1. Chosen(x, y, g)
      BY <2>4 DEF Chosen
    <3>2. n \in Nat /\ G \subseteq 1..n /\ g \in G /\ g \notin Range(x.vars) /\ Owns(n, G, x)
      BY <2>1, <2>2
    <3>3. OwnsToo(n, G, x, y, g)
      BY <3>1, <3>2, OwnsChosen
    <3> QED
      BY <3>3 DEF OwnsToo
  <2>7. Permuted(V, y)
    BY <2>1, <2>2, <2>4, StaysPermuted
  <2>8. \A v : SameFor(x, y, v)
    BY <2>4 DEF SameFor, accs_of
  <2>9. \A v \in Plain(x) : Served(V, y, v)
    <3> TAKE v \in Plain(x)
    <3>1. Served(V, x, v) /\ v \in 1..Len(V)
      BY <1>1, <2>1, <2>2, FieldsOwned, OthersKeep DEF AllServed
    <3> QED
      BY <2>1, <2>2, <2>8, <3>1, StaysServed
  <2>10. Supplied(V, y, g, {}, {})
    <3>1. Supplied(V, x, g, {}, {})
      BY <2>2, Unsupplied
    <3> QED
      BY <2>1, <2>2, <2>8, <3>1, StaysSupplied
  <2>11. PICK p : p = process_var(g, V[g])
    OBVIOUS
  <2>12. (Served(V, y, g) \/ (p # idle /\ p.vid = g)) /\ (p # idle => InProcess(V, y, p))
    BY <2>2, <2>6, <2>10, <2>11, Entering
  <2>13. proc' = p
    BY <1>2, <1>5, <2>1, <2>11
  <2>14. \A v \in Plain(y) : Served(vars_', y, v) \/ (proc' # idle /\ proc'.vid = v)
    BY <1>1, <2>1, <2>6, <2>9, <2>12, <2>13
  <2>15. /\ vars_' \in Seq(TypeIds) /\ Continues(vars_, vars_') /\ Owns(Len(vars_'), globals_, y)
         /\ Permuted(vars_', y) /\ (proc' # idle => InProcess(vars_', y, proc'))
    BY <1>1, <2>1, <2>2, <2>6, <2>7, <2>12, <2>13
  <2>16. /\ Range(y.vars) \subseteq Range(fv.vars) \cup globals_ \cup later(Len(vars_), Len(vars_'))
         /\ Range(fv.vars) \cup later(Len(vars_), Len(vars_')) \subseteq Range(y.vars)
         /\ Range(y.vars) \cap todo' = {} /\ todo' \subseteq globals_
    BY <1>1, <1>2, <1>3, <2>1, <2>2, <2>6 DEF later
  <2> QED
    BY <1>1, <2>5, <2>14, <2>15, <2>16, Edited
<1> QED
  BY <1>2, <1>4, <1>5

-----------------------------------------------------------------------------
(* What a child adds                                                       *)

\* The pointers among the children of c, whether c takes an index, and how many
\* variables are created for c.
ptrs_of(c) == selected(Types[c].childs, {u \in TypeIds : is(u, "POINTER")})
width(c)   == IF is(c, "ARRAY") THEN 1 ELSE 0
size(c)    == width(c) + Len(ptrs_of(c))

numbered(n, k) == [i \in 1..k |-> n + i]

\* The entries of pointees for c, in a variable v.
entries(n, v, c) ==
  [k \in {<<v, t>> : t \in Range(ptrs_of(c))} |->
     numbered(n, size(c))[width(c) + Max({i \in DOMAIN ptrs_of(c) : ptrs_of(c)[i] = k[2]})]]

LEMMA Numbered ==
  ASSUME NEW n \in Nat, NEW k \in Nat
  PROVE  /\ numbered(n, k) \in Seq(later(n, n + k)) /\ Range(numbered(n, k)) = later(n, n + k)
         /\ Distinct(numbered(n, k))
<1> DEFINE s == numbered(n, k)
<1>1. s \in Seq(later(n, n + k)) /\ Len(s) = k /\ \A i \in 1..k : s[i] = n + i
  BY DEF numbered, later
<1> HIDE DEF s
<1>2. DOMAIN s = 1..k
  BY <1>1
<1>3. ASSUME NEW z
      PROVE  z \in Range(s) <=> z \in later(n, n + k)
  <2>1. ASSUME z \in later(n, n + k)
        PROVE  z \in Range(s)
    <3>1. z - n \in 1..k /\ n + (z - n) = z
      BY <2>1 DEF later
    <3>2. s[z - n] = z
      BY <1>1, <3>1
    <3> QED
      BY <1>2, <3>1, <3>2 DEF Range
  <2>2. Range(s) \subseteq later(n, n + k)
    BY <1>1, RangeIn
  <2> QED
    BY <2>1, <2>2
<1>4. Distinct(s)
  BY <1>1 DEF Distinct
<1> QED
  BY <1>1, <1>3, <1>4 DEF s

LEMMA PointersOf ==
  ASSUME NEW c \in Complex(TypeIds)
  PROVE  /\ ptrs_of(c) \in Seq(Pointers(TypeIds)) /\ Distinct(ptrs_of(c))
         /\ Range(ptrs_of(c)) = Pointers(Range(Types[c].childs))
         /\ Len(ptrs_of(c)) \in Nat /\ width(c) \in 0..1 /\ size(c) \in Nat
<1> DEFINE S == Pointers(TypeIds)
           q == ptrs_of(c)
<1>1. S \subseteq TypeIds /\ \A u \in S : ~is(u, "SCALAR")
  BY DEF Pointers, is
<1>2. q = selected(Types[c].childs, S)
  BY DEF ptrs_of, Pointers
<1> HIDE DEF S, q
<1>3. q \in Seq(S) /\ Range(q) = Range(Types[c].childs) \cap S /\ Distinct(q)
  BY <1>1, <1>2, ChildsSelected
<1>4. Range(Types[c].childs) \cap S = Pointers(Range(Types[c].childs))
  BY TypeParts DEF Complex, Pointers, S
<1>5. Len(q) \in Nat /\ width(c) \in 0..1
  BY <1>3 DEF width
<1> QED
  BY <1>3, <1>4, <1>5 DEF S, q, size

\* They are the variables after the index, one for each pointer.
EntriesAre(n, v, c, Q) ==
  /\ IsMap(Q, {v} \X TypeIds)
  /\ \A t : <<v, t>> \in DOMAIN Q <=> t \in Range(ptrs_of(c))
  /\ \A i \in 1..Len(ptrs_of(c)) : Q[<<v, ptrs_of(c)[i]>>] = n + width(c) + i
  /\ \A k, l \in DOMAIN Q : Q[k] = Q[l] => k = l
  /\ Range(Q) = later(n + width(c), n + size(c))

LEMMA Entries ==
  ASSUME NEW n \in Nat, NEW v, NEW c \in Complex(TypeIds)
  PROVE  EntriesAre(n, v, c, entries(n, v, c))
<1> DEFINE q == ptrs_of(c)
           w == width(c)
           l == Len(q)
           Q == entries(n, v, c)
           S == {<<v, t>> : t \in Range(q)}
<1>1. q \in Seq(Pointers(TypeIds)) /\ Distinct(q) /\ l \in Nat /\ w \in 0..1 /\ size(c) = w + l
  BY PointersOf DEF size
<1>2. /\ DOMAIN Q = S
      /\ \A k \in S : Q[k] = numbered(n, w + l)[w + Max({i \in DOMAIN q : q[i] = k[2]})]
      /\ Q = [k \in DOMAIN Q |-> Q[k]]
  BY <1>1 DEF entries
<1> HIDE DEF w, Q, S
<1>3. DOMAIN q = 1..l /\ \A i, j \in 1..l : q[i] = q[j] => i = j
  BY <1>1 DEF Distinct
<1> HIDE DEF q, l
<1>4. ASSUME NEW i \in 1..l
      PROVE  <<v, q[i]>> \in S /\ Q[<<v, q[i]>>] = n + w + i
  <2>1. q[i] \in Range(q)
    BY <1>3 DEF Range
  <2>2. <<v, q[i]>> \in S /\ <<v, q[i]>>[2] = q[i]
    BY <2>1 DEF S
  <2>3. {j \in DOMAIN q : q[j] = q[i]} = {i}
    BY <1>3
  <2>4. i \in Nat /\ Max({i}) = i
    BY <1>1 DEF Max
  <2>5. w + i \in 1..(w + l)
    BY <1>1
  <2>6. numbered(n, w + l)[w + i] = n + (w + i)
    BY <2>5 DEF numbered
  <2>7. Q[<<v, q[i]>>] = numbered(n, w + l)[w + Max({j \in DOMAIN q : q[j] = <<v, q[i]>>[2]})]
    BY <1>2, <2>2
  <2>8. Q[<<v, q[i]>>] = n + (w + i)
    BY <2>2, <2>3, <2>4, <2>6, <2>7
  <2> QED
    BY <1>1, <2>2, <2>4, <2>8
<1>5. ASSUME NEW k \in S
      PROVE  \E i \in 1..l : k = <<v, q[i]>>
  <2>1. PICK t \in Range(q) : k = <<v, t>>
    BY DEF S
  <2>2. PICK i \in 1..l : t = q[i]
    BY <1>3, <2>1 DEF Range
  <2> QED
    BY <2>1, <2>2
<1>6. \A k, j \in DOMAIN Q : Q[k] = Q[j] => k = j
  <2> SUFFICES ASSUME NEW k \in S, NEW j \in S, Q[k] = Q[j]
               PROVE  k = j
    BY <1>2
  <2>1. PICK a \in 1..l : k = <<v, q[a]>>
    BY <1>5
  <2>2. PICK b \in 1..l : j = <<v, q[b]>>
    BY <1>5
  <2>3. n + w + a = n + w + b
    BY <1>4, <2>1, <2>2
  <2>4. a = b
    BY <1>1, <2>3
  <2> QED
    BY <2>1, <2>2, <2>4
<1>7. Range(Q) = later(n + w, n + (w + l))
  <2>1. ASSUME NEW z \in Range(Q)
        PROVE  z \in later(n + w, n + (w + l))
    <3>1. PICK k \in S : z = Q[k]
      BY <1>2 DEF Range
    <3>2. PICK a \in 1..l : k = <<v, q[a]>>
      BY <1>5
    <3>3. z = n + w + a
      BY <1>4, <3>1, <3>2
    <3> QED
      BY <1>1, <3>3 DEF later
  <2>2. ASSUME NEW z \in later(n + w, n + (w + l))
        PROVE  z \in Range(Q)
    <3>1. z - (n + w) \in 1..l /\ n + w + (z - (n + w)) = z
      BY <1>1 DEF later
    <3>2. PICK a \in 1..l : a = z - (n + w)
      BY <3>1
    <3>3. <<v, q[a]>> \in DOMAIN Q /\ Q[<<v, q[a]>>] = z
      BY <1>2, <1>4, <3>1, <3>2
    <3> QED
      BY <3>3 DEF Range
  <2> QED
    BY <2>1, <2>2
<1>8. \A t : <<v, t>> \in DOMAIN Q <=> t \in Range(q)
  BY <1>2 DEF S
<1>9. IsMap(Q, {v} \X TypeIds)
  <2>1. Range(q) \subseteq TypeIds
    BY <1>1, RangeIn DEF Pointers
  <2>2. S \subseteq {v} \X TypeIds
    BY <2>1 DEF S
  <2> QED
    BY <1>2, <2>2 DEF IsMap
<1> QED
  BY <1>1, <1>4, <1>6, <1>7, <1>8, <1>9 DEF EntriesAre, q, w, l, Q

\* The variables that are created for c come after V.
Adds(V, W, c) ==
  /\ W \in Seq(TypeIds) /\ Continues(V, W) /\ Len(W) = Len(V) + size(c)
  /\ is(c, "ARRAY") => W[Len(V) + 1] \in index_types
  /\ \A i \in 1..Len(ptrs_of(c)) : W[Len(V) + width(c) + i] = get_pointee(ptrs_of(c)[i])

LEMMA ChildAdds ==
  ASSUME NEW V \in Seq(TypeIds), NEW c \in Complex(TypeIds), NEW is_idx \in [1..width(c) -> index_types],
         NEW W, W = V \o is_idx \o [i \in DOMAIN ptrs_of(c) |-> get_pointee(ptrs_of(c)[i])]
  PROVE  Adds(V, W, c)
<1> DEFINE q == ptrs_of(c)
           w == width(c)
           r == [i \in DOMAIN q |-> get_pointee(q[i])]
           n == Len(V)
<1>1. q \in Seq(Pointers(TypeIds)) /\ Len(q) \in Nat /\ w \in 0..1 /\ size(c) = w + Len(q) /\ n \in Nat
  BY PointersOf DEF size
<1>2. is_idx \in Seq(TypeIds) /\ Len(is_idx) = w /\ \A i \in 1..w : is_idx[i] \in index_types
  <2> HIDE DEF w
  <2>1. is_idx \in [1..w -> index_types] /\ index_types \subseteq TypeIds /\ w \in Nat
    BY <1>1 DEF index_types, w
  <2>2. PICK S : S = index_types
    OBVIOUS
  <2>3. is_idx \in Seq(S) /\ Len(is_idx) = w /\ \A i \in 1..w : is_idx[i] \in S
    BY <2>1, <2>2, SequenceOf
  <2>4. is_idx \in Seq(TypeIds)
    BY <2>1, <2>2, <2>3
  <2> QED
    BY <2>2, <2>3, <2>4
<1>3. r \in Seq(TypeIds) /\ Len(r) = Len(q) /\ \A i \in 1..Len(q) : r[i] = get_pointee(q[i])
  <2>1. DOMAIN q = 1..Len(q)
    BY <1>1
  <2>2. \A i \in 1..Len(q) : get_pointee(q[i]) \in TypeIds
    <3> TAKE i \in 1..Len(q)
    <3>1. q[i] \in TypeIds /\ is(q[i], "POINTER")
      BY <1>1 DEF Pointers
    <3> QED
      BY <3>1, TypeParts
  <2>3. r \in [1..Len(q) -> TypeIds]
    BY <2>1, <2>2
  <2> HIDE DEF q
  <2> QED
    BY <1>1, <2>1, <2>3
<1>4. W = (V \o is_idx) \o r
  OBVIOUS
<1> HIDE DEF q, w, r, n
<1>5. PICK u \in Seq(TypeIds) : /\ u = V \o is_idx /\ Len(u) = n + w
                                /\ \A i \in 1..n : u[i] = V[i]
                                /\ \A i \in 1..w : u[n + i] = is_idx[i]
  <2>1. V \o is_idx \in Seq(TypeIds) /\ Len(V \o is_idx) = n + w
    BY <1>1, <1>2 DEF n
  <2>2. \A i \in 1..n : (V \o is_idx)[i] = V[i]
    BY <1>1, <1>2 DEF n
  <2>3. \A i \in 1..w : (V \o is_idx)[n + i] = is_idx[i]
    BY <1>1, <1>2 DEF n
  <2> QED
    BY <2>1, <2>2, <2>3
<1>6. W \in Seq(TypeIds) /\ Joined(u, r, W)
  BY <1>3, <1>4, <1>5, Joins
<1>7. \A i \in 1..(n + w) : W[i] = u[i]
  BY <1>5, <1>6 DEF Joined
<1>8. \A i \in 1..Len(q) : W[n + w + i] = get_pointee(q[i])
  BY <1>3, <1>5, <1>6 DEF Joined
<1>9. Len(W) = n + size(c) /\ n <= Len(W)
  BY <1>1, <1>3, <1>5, <1>6 DEF Joined
<1>10. Continues(V, W)
  <2>1. \A i \in 1..n : i \in 1..(n + w)
    BY <1>1
  <2>2. \A i \in 1..n : W[i] = V[i]
    BY <1>5, <1>7, <2>1
  <2> QED
    BY <1>9, <2>2 DEF Continues, n
<1>11. is(c, "ARRAY") => W[n + 1] \in index_types
  <2> SUFFICES ASSUME is(c, "ARRAY") PROVE W[n + 1] \in index_types
    OBVIOUS
  <2>1. w = 1
    BY DEF w, width
  <2>2. n + 1 \in 1..(n + w) /\ 1 \in 1..w
    BY <1>1, <2>1
  <2>3. W[n + 1] = is_idx[1]
    BY <1>5, <1>7, <2>2
  <2> QED
    BY <1>2, <2>2, <2>3
<1> QED
  BY <1>6, <1>8, <1>10, <1>11, <1>9 DEF Adds, q, w, n

\* The indexes that are created for c, and v's entry for them.
indexes_of(n, c) == later(n, n + width(c))
accidxs_of(x, v, n, c) == IF is(c, "ARRAY") THEN pushed(x.accidxs, v, n + 1) ELSE x.accidxs

\* y is x with the variables that are created for c in the variable v.
Childed(n, x, y, v, c) ==
  /\ WithFields(y) /\ y.vars = x.vars \o numbered(n, size(c)) /\ y.perms = x.perms
  /\ y.indexes = x.indexes \cup indexes_of(n, c) /\ y.args = x.args
  /\ y.pointees = entered(x.pointees, entries(n, v, c))
  /\ y.accidxs = accidxs_of(x, v, n, c) /\ y.permutators = x.permutators

LEMMA ChildGains ==
  ASSUME NEW n \in Nat, NEW G, NEW x, Owns(n, G, x), NEW v \in Plain(x), NEW c \in Complex(TypeIds),
         NEW y, Childed(n, x, y, v, c), \A t \in Range(ptrs_of(c)) : <<v, t>> \notin DOMAIN x.pointees
  PROVE  Gains(n, n + size(c), x, y, {}, indexes_of(n, c), {}, entries(n, v, c))
<1> DEFINE m == n + size(c)
           w == width(c)
           Q == entries(n, v, c)
           I == indexes_of(n, c)
           ids == numbered(n, size(c))
<1>1. size(c) \in Nat /\ w \in 0..1 /\ size(c) = w + Len(ptrs_of(c)) /\ Len(ptrs_of(c)) \in Nat
  BY PointersOf DEF size
<1>2. ids \in Seq(later(n, m)) /\ Range(ids) = later(n, m) /\ Distinct(ids)
  BY <1>1, Numbered
<1>3. EntriesAre(n, v, c, Q)
  BY Entries
<1>4. I \subseteq later(n, m) /\ Range(Q) \subseteq later(n, m) /\ I \cap Range(Q) = {}
  BY <1>1, <1>3 DEF EntriesAre, indexes_of, later
<1>5. IsMap(Q, Plain(x) \X TypeIds) /\ \A k, l \in DOMAIN Q : Q[k] = Q[l] => k = l
  BY <1>3 DEF EntriesAre, IsMap
<1>6. DOMAIN Q \cap DOMAIN x.pointees = {}
  <2> SUFFICES ASSUME NEW k \in DOMAIN Q PROVE k \notin DOMAIN x.pointees
    OBVIOUS
  <2>1. PICK t \in TypeIds : k = <<v, t>>
    BY <1>3 DEF EntriesAre, IsMap
  <2>2. t \in Range(ptrs_of(c))
    BY <1>3, <2>1 DEF EntriesAre
  <2> QED
    BY <2>1, <2>2
<1>7. Apart({}, I, {}, Q, later(n, m))
  BY <1>4, <1>5 DEF Apart
<1>8. IsMap(x.accidxs, Plain(x)) /\ IsMap(x.permutators, Plain(x))
  BY DEF Owns
<1>9. IsMap(y.accidxs, Plain(x))
  BY <1>8 DEF Childed, accidxs_of, pushed, entered, IsMap
<1>10. y = [vars |-> y.vars, perms |-> y.perms, indexes |-> y.indexes, args |-> y.args,
            pointees |-> y.pointees, accidxs |-> y.accidxs, permutators |-> y.permutators]
  <2>1. PICK z : z = [vars |-> y.vars, perms |-> y.perms, indexes |-> y.indexes, args |-> y.args,
                      pointees |-> y.pointees, accidxs |-> y.accidxs, permutators |-> y.permutators]
    OBVIOUS
  <2>2. DOMAIN z = fields /\ z = [k \in DOMAIN z |-> z[k]]
    BY <2>1 DEF fields
  <2>3. z = y
    BY <2>1, <2>2, SameFields DEF WithFields, Childed
  <2> QED
    BY <2>1, <2>3
<1> HIDE DEF m, Q, I, ids
<1>11. /\ y.vars = x.vars \o ids /\ y.perms = x.perms \cup {} /\ y.indexes = x.indexes \cup I
       /\ y.args = x.args \cup {} /\ y.pointees = entered(x.pointees, Q) /\ y.permutators = x.permutators
  BY DEF Childed, Q, I, ids
<1>12. Gains(n, m, x, y, {}, I, {}, Q)
  BY <1>2, <1>5, <1>6, <1>7, <1>8, <1>9, <1>10, <1>11 DEF Gains
<1> QED
  BY <1>12 DEF m, Q, I

\* v then has what it needs for c, too.
LEMMA ChildSupplied ==
  ASSUME NEW V \in Seq(TypeIds), NEW W, NEW G, NEW x, Owns(Len(V), G, x), NEW v \in Plain(x),
         NEW c \in Complex(TypeIds), Adds(V, W, c),
         NEW D, D \subseteq TypeIds, IsFiniteSet(D), c \notin D, Supplied(V, x, v, D, Pointers(ChildsOf(D))),
         NEW y, Childed(Len(V), x, y, v, c),
         Pointers(Range(Types[c].childs)) \cap Pointers(ChildsOf(D)) = {}
  PROVE  Supplied(W, y, v, D \cup {c}, Pointers(ChildsOf(D \cup {c})))
<1> DEFINE n == Len(V)
           E == D \cup {c}
           P == Pointers(ChildsOf(D))
           R == Pointers(Range(Types[c].childs))
           Q == entries(n, v, c)
<1>1. n \in Nat /\ EntriesAre(n, v, c, Q)
  BY Entries
<1>2. Range(ptrs_of(c)) = R /\ ptrs_of(c) \in Seq(Pointers(TypeIds)) /\ Len(ptrs_of(c)) \in Nat /\ width(c) \in 0..1
  BY PointersOf
<1>3. Pointers(ChildsOf(E)) = P \cup R
  BY DEF Pointers, ChildsOf
<1>4. W \in Seq(TypeIds) /\ Continues(V, W) /\ (is(c, "ARRAY") => W[n + 1] \in index_types)
  BY DEF Adds
<1> HIDE DEF Q
<1>5. /\ y.indexes = x.indexes \cup indexes_of(n, c) /\ y.pointees = entered(x.pointees, Q)
      /\ y.accidxs = accidxs_of(x, v, n, c)
  BY DEF Childed, Q
<1>6. PICK a \in Seq(x.indexes) :
        /\ a = accs_of(x, v) /\ \A i \in 1..Len(a) : V[a[i]] \in index_types
        /\ Len(a) = Cardinality({t \in D : is(t, "ARRAY")})
  BY DEF Supplied
<1>7. a \in Seq(y.indexes) /\ \A i \in 1..Len(a) : W[a[i]] \in index_types
  <2>1. x.indexes \subseteq 1..n
    <3>1. PICK S, s : S = 1..n /\ s \in Seq(S) /\ s = x.vars
      BY DEF Owns
    <3>2. Range(s) \subseteq S
      BY <3>1, RangeIn
    <3> QED
      BY <3>1, <3>2 DEF Owns
  <2>2. ASSUME NEW i \in 1..Len(a)
        PROVE  W[a[i]] \in index_types
    <3>1. a[i] \in x.indexes
      BY <1>6
    <3>2. W[a[i]] = V[a[i]]
      BY <1>4, <2>1, <3>1 DEF Continues
    <3> QED
      BY <1>6, <3>2
  <2>3. x.indexes \subseteq y.indexes
    BY <1>5
  <2> QED
    BY <2>2, <2>3
<1>8. PICK b \in Seq(y.indexes) :
        /\ b = accs_of(y, v) /\ \A i \in 1..Len(b) : W[b[i]] \in index_types
        /\ Len(b) = Cardinality({t \in E : is(t, "ARRAY")})
  <2> DEFINE A == {t \in D : is(t, "ARRAY")}
             B == {t \in E : is(t, "ARRAY")}
  <2>1. IsFiniteSet(A) /\ c \notin A
    <3>1. A \subseteq D
      OBVIOUS
    <3> QED
      BY <3>1, FS_Subset
  <2>2. CASE is(c, "ARRAY")
    <3>1. B = A \cup {c}
      BY <2>2
    <3>2. Cardinality(B) = Cardinality(A) + 1
      <4> HIDE DEF A, B
      <4> QED
        BY <2>1, <3>1, FS_AddElement
    <3>3. accs_of(y, v) = Append(a, n + 1)
      <4>1. y.accidxs = pushed(x.accidxs, v, n + 1)
        BY <1>5, <2>2 DEF accidxs_of
      <4>2. v \in DOMAIN y.accidxs /\ y.accidxs[v] = IF v \in DOMAIN x.accidxs THEN Append(x.accidxs[v], n + 1) ELSE <<n + 1>>
        BY <4>1 DEF pushed, entered
      <4>3. v \notin DOMAIN x.accidxs => a = <<>> /\ <<n + 1>> = Append(<<>>, n + 1)
        BY <1>6 DEF accs_of
      <4> QED
        BY <1>6, <4>2, <4>3 DEF accs_of
    <3>4. n + 1 \in y.indexes
      BY <1>1, <1>5, <2>2 DEF indexes_of, later, width
    <3>5. PICK S, e, b : S = y.indexes /\ a \in Seq(S) /\ e = n + 1 /\ e \in S /\ b = Append(a, e)
      BY <1>7, <3>4
    <3>6. b \in Seq(S) /\ Appended(a, e, b)
      BY <3>5, Appends
    <3>7. \A i \in 1..Len(b) : W[b[i]] \in index_types
      <4> TAKE i \in 1..Len(b)
      <4>1. i \in 1..Len(a) \/ i = Len(a) + 1
        BY <3>6 DEF Appended
      <4> QED
        BY <1>4, <1>7, <2>2, <3>5, <3>6, <4>1 DEF Appended
    <3>8. Len(b) = Cardinality(B)
      BY <1>6, <3>2, <3>6 DEF Appended
    <3> QED
      BY <3>3, <3>5, <3>6, <3>7, <3>8
  <2>3. CASE ~is(c, "ARRAY")
    <3>1. B = A
      BY <2>3
    <3>2. accs_of(y, v) = a
      BY <1>5, <1>6, <2>3 DEF accs_of, accidxs_of
    <3> QED
      BY <1>6, <1>7, <3>1, <3>2
  <2> QED
    BY <2>2, <2>3
<1>9. \A t : <<v, t>> \in DOMAIN x.pointees <=> t \in P
  BY DEF Supplied
<1>10. \A t : <<v, t>> \in DOMAIN Q <=> t \in R
  BY <1>1, <1>2 DEF EntriesAre
<1>11. \A t : <<v, t>> \in DOMAIN y.pointees <=> t \in P \cup R
  BY <1>5, <1>9, <1>10 DEF entered
<1>12. ASSUME NEW t \in P
       PROVE  W[y.pointees[<<v, t>>]] = get_pointee(t)
  <2>1. <<v, t>> \in DOMAIN x.pointees /\ <<v, t>> \notin DOMAIN Q
    BY <1>9, <1>10
  <2>2. y.pointees[<<v, t>>] = x.pointees[<<v, t>>]
    BY <1>5, <2>1 DEF entered
  <2>3. x.pointees[<<v, t>>] \in 1..n
    <3>1. PICK S, s : S = 1..n /\ s \in Seq(S) /\ s = x.vars
      BY DEF Owns
    <3>2. Range(s) \subseteq S
      BY <3>1, RangeIn
    <3>3. x.pointees[<<v, t>>] \in Range(x.pointees)
      BY <2>1 DEF Range
    <3> QED
      BY <3>1, <3>2, <3>3 DEF Owns
  <2>4. V[x.pointees[<<v, t>>]] = get_pointee(t)
    BY DEF Supplied
  <2> QED
    BY <1>4, <2>2, <2>3, <2>4 DEF Continues
<1>13. ASSUME NEW t \in R
       PROVE  W[y.pointees[<<v, t>>]] = get_pointee(t)
  <2>1. PICK q : q = ptrs_of(c)
    OBVIOUS
  <2>2. PICK i \in 1..Len(q) : t = q[i]
    BY <1>2, <2>1 DEF Range
  <2>3. Q[<<v, t>>] = n + width(c) + i
    BY <1>1, <2>1, <2>2 DEF EntriesAre
  <2>4. y.pointees[<<v, t>>] = Q[<<v, t>>]
    BY <1>5, <1>10 DEF entered
  <2>5. W[n + width(c) + i] = get_pointee(t)
    BY <2>1, <2>2 DEF Adds
  <2> QED
    BY <2>3, <2>4, <2>5
<1> HIDE DEF E, P, R, n
<1> DEFINE F == Pointers(ChildsOf(E))
<1>14. F = P \cup R
  BY <1>3
<1> HIDE DEF F
<1>15. Supplied(W, y, v, E, F)
  BY <1>8, <1>11, <1>12, <1>13, <1>14 DEF Supplied
<1> QED
  BY <1>15 DEF E, F

LEMMA ChildProcessed ==
  ASSUME IndInv, process_child
  PROVE  IndInv'
<1> DEFINE c == Head(proc.chlds)
           ptrs == selected(Types[c].childs, {u \in TypeIds : is(u, "POINTER")})
           idx == IF is(c, "ARRAY") THEN 1 ELSE 0
           ids == fresh(idx + Len(ptrs))
           rest == Tail(proc.chlds) \o queued(c)
<1>1. /\ proc.stage = "accessors" /\ UNCHANGED <<pc, globals_, func, todo>>
      /\ \E is_idx \in [1..idx -> index_types] :
           vars_' = vars_ \o is_idx \o [i \in DOMAIN ptrs |-> get_pointee(ptrs[i])]
      /\ proc' = IF rest = <<>> THEN idle ELSE [proc EXCEPT !.chlds = rest]
  BY DEF process_child
<1>2. proc # idle
  <2>1. proc.stage # idle.stage
    BY <1>1 DEF idle
  <2> QED
    BY <2>1
<1>3. PICK v, p, n, V, W, x :
        v = proc.vid /\ p = proc /\ n = Len(vars_) /\ V = vars_ /\ W = vars_' /\ x = fv
  OBVIOUS
<1>4. /\ pc \in {"choose", "locals", "arguments"} /\ v \in Plain(x) /\ v \in 1..n /\ V[v] \in TypeIds
      /\ V \in Seq(TypeIds) /\ n \in Nat /\ n = Len(V) /\ Owns(n, globals_, x) /\ WithFields(x) /\ Permuted(V, x)
      /\ globals_ \subseteq 1..n /\ new = n + 1
  BY <1>2, <1>3, Within, FieldsOwned DEF Typed, AllPermuted, new
<1>5. /\ p = [stage |-> "accessors", vid |-> v, chlds |-> p.chlds] /\ p.chlds # <<>> /\ is_complex(V[v])
      /\ \E D \in SUBSET TypeIds :
           Halfway(V[v], D, p.chlds) /\ Supplied(V, x, v, D, Pointers(ChildsOf(D)))
  <2>1. InProcess(V, x, p) /\ p.stage = "accessors"
    BY <1>1, <1>2, <1>3, Within
  <2> QED
    BY <1>3, <2>1 DEF InProcess
<1>6. PICK D, k :
        D \in SUBSET TypeIds /\ k = p.chlds /\ Halfway(V[v], D, k) /\ Supplied(V, x, v, D, Pointers(ChildsOf(D)))
  BY <1>5
<1>7. PICK h : h = Head(k)
  OBVIOUS
<1>8. h = c
  BY <1>3, <1>6, <1>7
<1>9. /\ h \in Complex(TypeIds) /\ h \notin D /\ Halfway(V[v], D \cup {h}, Tail(k) \o queued(h))
      /\ Pointers(Range(Types[h].childs)) \cap Pointers(ChildsOf(D)) = {}
  BY <1>4, <1>5, <1>6, <1>7, HalfwayNext
<1>10. ptrs = ptrs_of(h) /\ idx = width(h) /\ ids = numbered(n, size(h)) /\ rest = Tail(k) \o queued(h)
  BY <1>3, <1>6, <1>8 DEF ptrs_of, width, size, numbered, fresh
<1> HIDE DEF c, ptrs, idx, ids, rest
<1>11. Adds(V, W, h)
  BY <1>1, <1>3, <1>4, <1>9, <1>10, ChildAdds
<1>12. PICK m \in Nat : m = n + size(h) /\ m = Len(W)
  BY <1>4, <1>9, <1>11, PointersOf DEF Adds
<1>13. W \in Seq(TypeIds) /\ Continues(V, W)
  BY <1>11 DEF Adds
<1>14. PICK Q, I : Q = entries(n, v, h) /\ I = indexes_of(n, h)
  OBVIOUS
<1>15. PICK y : /\ Childed(n, x, y, v, h) /\ fvars' = [fvars EXCEPT ![func] = y]
  <2>1. PICK y : y = [x EXCEPT !.vars = @ \o ids, !.indexes = @ \cup {ids[i] : i \in 1..idx},
                               !.accidxs = IF idx = 1 THEN pushed(@, v, new) ELSE @,
                               !.pointees = entered(@, Q)]
    OBVIOUS
  <2>2. Q = [j \in {<<v, t>> : t \in Range(ptrs)} |-> ids[idx + Max({i \in DOMAIN ptrs : ptrs[i] = j[2]})]]
    BY <1>10, <1>14 DEF entries
  <2>3. fvars' = [fvars EXCEPT ![func] = y]
    <3>1. fvars' = [fvars EXCEPT
            ![func].vars = @ \o ids,
            ![func].indexes = @ \cup {ids[i] : i \in 1..idx},
            ![func].accidxs = IF idx = 1 THEN pushed(@, v, new) ELSE @,
            ![func].pointees = entered(@, Q)]
      <4>1. fvars' = [fvars EXCEPT
              ![func].vars = @ \o ids,
              ![func].indexes = @ \cup {ids[i] : i \in 1..idx},
              ![func].accidxs = IF idx = 1 THEN pushed(@, proc.vid, new) ELSE @,
              ![func].pointees = entered(@,
                [j \in {<<proc.vid, t>> : t \in Range(ptrs)} |->
                   ids[idx + Max({i \in DOMAIN ptrs : ptrs[i] = j[2]})]])]
        BY DEF process_child, c, ptrs, idx, ids
      <4> QED
        BY <1>3, <2>2, <4>1
    <3> QED
      BY <1>3, <2>1, <3>1, FieldsOwned
  <2>4. /\ WithFields(y) /\ y.vars = x.vars \o ids /\ y.perms = x.perms
        /\ y.indexes = x.indexes \cup {ids[i] : i \in 1..idx} /\ y.args = x.args
        /\ y.pointees = entered(x.pointees, Q) /\ y.permutators = x.permutators
        /\ y.accidxs = IF idx = 1 THEN pushed(x.accidxs, v, new) ELSE x.accidxs
    BY <1>4, <2>1 DEF WithFields, fields
  <2>5. {ids[i] : i \in 1..idx} = indexes_of(n, h)
    <3>1. ids = numbered(n, size(h)) /\ idx = width(h) /\ size(h) = width(h) + Len(ptrs_of(h))
          /\ width(h) \in 0..1 /\ Len(ptrs_of(h)) \in Nat
      BY <1>9, <1>10, PointersOf DEF size
    <3>2. CASE width(h) = 0
      BY <1>4, <3>1, <3>2 DEF indexes_of, later
    <3>3. CASE width(h) = 1
      <4>1. ids[1] = n + 1
        BY <1>4, <3>1, <3>3 DEF numbered
      <4>2. {ids[i] : i \in 1..idx} = {ids[1]}
        BY <3>1, <3>3
      <4>3. indexes_of(n, h) = {n + 1}
        BY <1>4, <3>3 DEF indexes_of, later
      <4> QED
        BY <4>1, <4>2, <4>3
    <3> QED
      BY <3>1, <3>2, <3>3
  <2>6. y.accidxs = accidxs_of(x, v, n, h)
    BY <1>4, <1>10, <2>4 DEF accidxs_of, width
  <2>7. Childed(n, x, y, v, h)
    BY <1>10, <1>14, <2>4, <2>5, <2>6 DEF Childed
  <2> QED
    BY <2>3, <2>7
<1>16. \A t \in Range(ptrs_of(h)) : <<v, t>> \notin DOMAIN x.pointees
  <2>1. Range(ptrs_of(h)) = Pointers(Range(Types[h].childs))
    BY <1>9, PointersOf
  <2> QED
    BY <1>6, <1>9, <2>1 DEF Supplied
<1>17. Gains(n, m, x, y, {}, I, {}, Q)
  BY <1>4, <1>9, <1>12, <1>14, <1>15, <1>16, ChildGains
<1>18. IsFiniteSet(D)
  <2>1. PICK l \in Nat : TypeIds = 1..l
    BY TypesAssumption DEF TypeIds
  <2>2. IsFiniteSet(1..l)
    BY <2>1, FS_Interval
  <2> QED
    BY <1>6, <2>1, <2>2, FS_Subset
<1>19. PICK E \in SUBSET TypeIds : E = D \cup {h} /\ Supplied(W, y, v, E, Pointers(ChildsOf(E)))
  <2>1. Supplied(W, y, v, D \cup {h}, Pointers(ChildsOf(D \cup {h})))
    BY <1>4, <1>6, <1>9, <1>11, <1>15, <1>18, ChildSupplied
  <2>2. D \cup {h} \in SUBSET TypeIds
    BY <1>6, <1>9 DEF Complex
  <2> QED
    BY <2>1, <2>2
<1>20. W[v] = V[v]
  BY <1>4, <1>13 DEF Continues
<1>21. PICK r : r = rest /\ Halfway(W[v], E, r)
  BY <1>9, <1>10, <1>19, <1>20
<1>22. v \in Plain(y) /\ later(n, m) \ (I \cup Range(Q)) = {}
  <2>1. HasGained(n, m, x, y, {}, I, Q)
    <3>1. n <= m
      BY <1>4, <1>12, <1>13 DEF Continues
    <3> QED
      BY <1>4, <1>17, <3>1, OwnsGains
  <2>2. Range(Q) = later(n + width(h), n + size(h))
    BY <1>4, <1>9, <1>14, Entries DEF EntriesAre
  <2>3. later(n, m) \subseteq I \cup Range(Q)
    <3>1. width(h) \in 0..1 /\ size(h) \in Nat
      BY <1>9, PointersOf
    <3> QED
      BY <1>4, <1>12, <1>14, <2>2, <3>1 DEF indexes_of, later
  <2> QED
    BY <1>4, <2>1, <2>3 DEF HasGained
<1>23. Served(W, y, v) \/ (proc' # idle /\ proc'.vid = v)
  <2>1. CASE rest = <<>>
    <3>1. Halfway(W[v], E, <<>>)
      BY <1>21, <2>1
    <3>2. /\ {u \in E : is(u, "ARRAY")} = {u \in subtypes[W[v]] : is(u, "ARRAY")}
          /\ Pointers(ChildsOf(E)) = Pointers(subtypes[W[v]])
      BY <1>4, <1>20, <3>1, HalfwayLast
    <3> QED
      BY <1>19, <3>2 DEF Served, Supplied
  <2>2. CASE rest # <<>>
    <3>1. p' = [p EXCEPT !.chlds = rest] \/ TRUE
      OBVIOUS
    <3>2. proc' = [p EXCEPT !.chlds = rest]
      BY <1>1, <1>3, <2>2
    <3>3. proc'.vid = v /\ proc'.stage = "accessors"
      BY <1>5, <3>2
    <3> QED
      BY <3>3 DEF idle
  <2> QED
    BY <2>1, <2>2
<1>24. proc' # idle => InProcess(W, y, proc')
  <2> SUFFICES ASSUME proc' # idle PROVE InProcess(W, y, proc')
    OBVIOUS
  <2>1. rest # <<>> /\ proc' = [p EXCEPT !.chlds = r]
    BY <1>1, <1>3, <1>21
  <2>2. PICK z : z = proc'
    OBVIOUS
  <2>3. z.vid = v /\ z.chlds = r /\ z = [stage |-> "accessors", vid |-> z.vid, chlds |-> z.chlds] /\ r # <<>>
    BY <1>5, <1>21, <2>1, <2>2
  <2>4. is_complex(W[v])
    BY <1>5, <1>20
  <2>5. InProcess(W, y, z)
    BY <1>19, <1>21, <1>22, <2>3, <2>4 DEF InProcess
  <2> QED
    BY <2>2, <2>5
<1>25. Permuted(W, y)
  <2>1. x.perms \subseteq y.perms /\ y.permutators = x.permutators
    BY <1>15 DEF Childed
  <2> QED
    BY <1>4, <1>13, <2>1, StaysPermuted
<1>26. ASSUME NEW w, w # v
       PROVE  accs_of(y, w) = accs_of(x, w) /\ \A t : <<w, t>> \notin DOMAIN Q
  <2>1. DOMAIN Q \subseteq {v} \X TypeIds
    BY <1>4, <1>9, <1>14, Entries DEF EntriesAre, IsMap
  <2>2. y.accidxs = accidxs_of(x, v, n, h)
    BY <1>15 DEF Childed
  <2>3. accs_of(y, w) = accs_of(x, w)
    BY <1>26, <2>2 DEF accidxs_of, accs_of, pushed, entered
  <2> QED
    BY <1>26, <2>1, <2>3
<1>27. Gain(y, {}, I, {}, Q, v)
  BY <1>1, <1>3, <1>4, <1>12, <1>13, <1>15, <1>17, <1>22, <1>23, <1>24, <1>25, <1>26 DEF Gain
<1> QED
  BY <1>27, Gained

-----------------------------------------------------------------------------
(* The theorems                                                            *)

LEMMA NextInv == IndInv /\ [Next]_vars => IndInv'
<1> SUFFICES ASSUME IndInv, [Next]_vars PROVE IndInv'
  OBVIOUS
<1>1. CASE Terminating \/ UNCHANGED vars
  <2>1. UNCHANGED vars
    BY <1>1 DEF Terminating
  <2> QED
    BY <2>1 DEF vars, IndInv, Typed, Owned, AllPermuted, AllServed, Stages, fv
<1>2. CASE create_global \/ globals_created
  BY <1>2, GlobalCreated, GlobalsCreated
<1>3. CASE add_free_index
  BY <1>3, FreeIndexAdded
<1>4. CASE indexes_added \/ globals_chosen \/ locals_added
  BY <1>4, StagesTurn
<1>5. CASE choose_global
  BY <1>5, GlobalChosen
<1>6. CASE attempt_local \/ create_argument \/ function_done
  BY <1>6, LocalAttempted, ArgumentCreated, FunctionDone
<1>7. CASE create_pointee \/ add_permutator \/ permutators_done \/ process_child
  BY <1>7, PointeeCreated, PermutatorAdded, PermutatorsDone, ChildProcessed
<1> QED
  BY <1>1, <1>2, <1>3, <1>4, <1>5, <1>6, <1>7 DEF Next

\* What a function has, its variables in process_var included, is as IndInv says
\* in every state.
THEOREM Invariance == Spec => []IndInv
<1> QED
  BY InitInv, NextInv, PTL DEF Spec

\* What functions have in a state of the constructor.
LEMMA HasInv ==
  ASSUME IndInv, NEW f \in Functions
  PROVE  /\ Owns(Len(vars_), globals_, fvars[f]) /\ Permuted(vars_, fvars[f])
         /\ Plain(fvars[f]) = served(f) /\ Len(vars_) \in Nat
         /\ vars_ \in Seq(TypeIds) /\ DOMAIN vars_ = 1..Len(vars_)
<1>1. Plain(fvars[f]) = served(f)
  BY DEF Plain, served, serving, pointee_vars
<1> QED
  BY <1>1 DEF IndInv, Typed, Owned, AllPermuted

\* Every permutator that process_var gives a variable is one of the same
\* function's, with as many items as the array that it permutes.
THEOREM PermutatorsAlwaysFit == Spec => []PermutatorsFit
<1>1. IndInv => PermutatorsFit
  <2> SUFFICES ASSUME IndInv, NEW f \in Functions, NEW v \in DOMAIN fvars[f].permutators
               PROVE  /\ v \in served(f) /\ is(vars_[v], "ARRAY")
                      /\ \A p \in Range(fvars[f].permutators[v]) :
                           /\ p \in fvars[f].perms
                           /\ Types[vars_[p]].nitems = Types[vars_[v]].nitems
                           /\ Types[vars_[p]].childs[1] \in index_types
    BY DEF PermutatorsFit
  <2>1. v \in served(f)
    <3>1. PICK x, n : x = fvars[f] /\ n = Len(vars_) /\ Owns(n, globals_, x) /\ Plain(x) = served(f)
      BY HasInv
    <3>2. IsMap(x.permutators, Plain(x))
      BY <3>1 DEF Owns
    <3> QED
      BY <3>1, <3>2 DEF IsMap
  <2>2. PICK s : s = fvars[f].permutators[v]
    OBVIOUS
  <2>3. /\ is(vars_[v], "ARRAY") /\ s \in Seq(fvars[f].perms)
        /\ \A i \in 1..Len(s) : vars_[s[i]] \in perm_types(Types[vars_[v]].nitems)
    BY <2>2, HasInv DEF Permuted
  <2>4. ASSUME NEW p \in Range(s)
        PROVE  /\ p \in fvars[f].perms
               /\ Types[vars_[p]].nitems = Types[vars_[v]].nitems
               /\ Types[vars_[p]].childs[1] \in index_types
    <3>1. PICK i \in 1..Len(s) : p = s[i]
      BY <2>3 DEF Range
    <3>2. vars_[p] \in perm_types(Types[vars_[v]].nitems)
      BY <2>3, <3>1
    <3>3. p \in fvars[f].perms
      BY <2>3, <3>1
    <3> QED
      BY <3>2, <3>3 DEF perm_types
  <2> QED
    BY <2>1, <2>2, <2>3, <2>4
<1> QED
  BY <1>1, Invariance, PTL

\* When a function is done, the loop over chlds has reached whatever its
\* variables consist of: varassign_t::index and varassign_t::pointee have an answer.
THEOREM SubtypesAreServed == Spec => []SubtypesServed
<1>1. IndInv => SubtypesServed
  <2> SUFFICES ASSUME IndInv, NEW f \in finished, NEW v \in served(f)
               PROVE  LET parts == subtypes[vars_[v]]
                      IN  /\ Len(accs(f, v)) = Cardinality({t \in parts : is(t, "ARRAY")})
                          /\ \A i \in DOMAIN accs(f, v) :
                               accs(f, v)[i] \in fvars[f].indexes /\ vars_[accs(f, v)[i]] \in index_types
                          /\ {k[2] : k \in {x \in DOMAIN fvars[f].pointees : x[1] = v}} = {t \in parts : is(t, "POINTER")}
                          /\ \A t \in parts : is(t, "POINTER") =>
                               vars_[fvars[f].pointees[<<v, t>>]] = get_pointee(t)
    BY DEF SubtypesServed
  <2>1. f \in Functions /\ (f < func \/ pc = "done")
    BY DEF finished
  <2>2. PICK x, S, a : x = fvars[f] /\ S = subtypes[vars_[v]] /\ a = accs(f, v)
    OBVIOUS
  <2>3. v \in Plain(x) /\ Owns(Len(vars_), globals_, x)
    BY <2>1, <2>2, HasInv
  <2>4. Served(vars_, x, v)
    <3>1. f # func \/ proc = idle
      BY <2>1, FunctionsAssumption DEF IndInv, Typed, Stages
    <3> QED
      BY <2>1, <2>2, <2>3, <3>1 DEF IndInv, AllServed
  <2>5. Supplied(vars_, x, v, S, Pointers(S)) /\ accs_of(x, v) = a
    BY <2>2, <2>4 DEF Served, accs, accs_of
  <2>6. /\ a \in Seq(x.indexes) /\ \A i \in 1..Len(a) : vars_[a[i]] \in index_types
        /\ Len(a) = Cardinality({t \in S : is(t, "ARRAY")})
        /\ \A t : <<v, t>> \in DOMAIN x.pointees <=> t \in Pointers(S)
        /\ \A t \in Pointers(S) : vars_[x.pointees[<<v, t>>]] = get_pointee(t)
    BY <2>5 DEF Supplied
  <2>7. \A i \in DOMAIN a : a[i] \in x.indexes /\ vars_[a[i]] \in index_types
    BY <2>6
  <2>8. {k[2] : k \in {z \in DOMAIN x.pointees : z[1] = v}} = {t \in S : is(t, "POINTER")}
    <3>1. DOMAIN x.pointees \subseteq Plain(x) \X TypeIds
      BY <2>3 DEF Owns, IsMap
    <3>2. ASSUME NEW t \in Pointers(S)
          PROVE  t \in {k[2] : k \in {z \in DOMAIN x.pointees : z[1] = v}}
      <4>1. <<v, t>> \in DOMAIN x.pointees /\ <<v, t>>[1] = v /\ <<v, t>>[2] = t
        BY <2>6
      <4> QED
        BY <4>1
    <3>3. ASSUME NEW k \in DOMAIN x.pointees, k[1] = v
          PROVE  k[2] \in Pointers(S)
      <4>1. k = <<v, k[2]>>
        BY <3>1, <3>3
      <4> QED
        BY <2>6, <4>1
    <3> QED
      BY <3>2, <3>3 DEF Pointers
  <2>9. \A t \in S : is(t, "POINTER") => vars_[x.pointees[<<v, t>>]] = get_pointee(t)
    BY <2>6 DEF Pointers
  <2> QED
    BY <2>2, <2>6, <2>7, <2>8, <2>9
<1> QED
  BY <1>1, Invariance, PTL

\* Of n variables a function has n at most.
LEMMA Fits ==
  ASSUME NEW n \in Nat, NEW s \in Seq(1..n), Distinct(s)
  PROVE  Len(s) <= n
<1> DEFINE m == Len(s)
           S == 1..n
           R == 1..m
<1>1. m \in Nat /\ s \in [R -> S]
  OBVIOUS
<1>2. s \in Injection(R, S)
  BY <1>1 DEF Injection, IsInjective, Distinct
<1> HIDE DEF m
<1>3. IsFiniteSet(S) /\ Cardinality(S) = n /\ Cardinality(R) = m
  BY <1>1, FS_Interval
<1>4. Cardinality(R) <= Cardinality(S)
  <2> HIDE DEF S, R
  <2> QED
    BY <1>2, <1>3, FS_Injection
<1> QED
  BY <1>3, <1>4 DEF m

\* As many entries as pointees, and nothing counted twice.
LEMMA CountedOnce ==
  ASSUME NEW n \in Nat, NEW G, NEW x, Owns(n, G, x)
  PROVE  Cardinality(x.perms \cup x.indexes \cup Range(x.pointees) \cup x.args)
           = Cardinality(x.perms) + Cardinality(x.indexes) + Cardinality(DOMAIN x.pointees) + Cardinality(x.args)
<1>1. PICK P, I, A, R, D, Q :
        P = x.perms /\ I = x.indexes /\ A = x.args /\ Q = x.pointees /\ R = Range(Q) /\ D = DOMAIN Q
  OBVIOUS
<1>2. /\ P \cup I \cup A \cup R \subseteq 1..n
      /\ P \cap I = {} /\ P \cap A = {} /\ I \cap A = {} /\ R \cap (P \cup I \cup A) = {}
      /\ \A k, l \in D : Q[k] = Q[l] => k = l
      /\ Q = [k \in D |-> Q[k]]
  <2>1. PICK S, s : S = 1..n /\ s \in Seq(S) /\ s = x.vars
    BY DEF Owns
  <2>2. Range(s) \subseteq S
    BY <2>1, RangeIn
  <2>3. IsMap(Q, Plain(x) \X TypeIds)
    BY <1>1 DEF Owns
  <2> QED
    BY <1>1, <2>1, <2>2, <2>3 DEF Owns, IsMap
<1>3. IsFiniteSet(1..n)
  BY FS_Interval
<1>4. IsFiniteSet(P) /\ IsFiniteSet(I) /\ IsFiniteSet(A) /\ IsFiniteSet(R)
  BY <1>2, <1>3, FS_Subset
<1>5. Cardinality(D) = Cardinality(R)
  <2>1. Q \in Injection(D, R)
    BY <1>1, <1>2 DEF Injection, IsInjective, Range
  <2>2. Q \in Surjection(D, R)
    BY <1>1, <1>2 DEF Surjection, Range
  <2> QED
    BY <1>4, <2>1, <2>2, FS_Injection
<1>6. /\ Cardinality(P) \in Nat /\ Cardinality(I) \in Nat /\ Cardinality(A) \in Nat /\ Cardinality(R) \in Nat
      /\ Cardinality({}) = 0
  BY <1>4, FS_CardinalityType, FS_EmptySet
<1>7. PICK U : U = P \cup I /\ IsFiniteSet(U) /\ Cardinality(U) = Cardinality(P) + Cardinality(I)
  <2>1. IsFiniteSet(P \cup I) /\ Cardinality(P \cup I) = Cardinality(P) + Cardinality(I) - Cardinality(P \cap I)
    BY <1>4, FS_Union
  <2> QED
    BY <1>2, <1>6, <2>1
<1>8. PICK W : W = U \cup R /\ IsFiniteSet(W) /\ Cardinality(W) = Cardinality(U) + Cardinality(R)
  <2>1. IsFiniteSet(U \cup R) /\ Cardinality(U \cup R) = Cardinality(U) + Cardinality(R) - Cardinality(U \cap R)
    BY <1>4, <1>7, FS_Union
  <2>2. U \cap R = {} /\ Cardinality(U) \in Nat
    BY <1>2, <1>6, <1>7
  <2> QED
    BY <1>6, <2>1, <2>2
<1>9. Cardinality(W \cup A) = Cardinality(W) + Cardinality(A)
  <2>1. Cardinality(W \cup A) = Cardinality(W) + Cardinality(A) - Cardinality(W \cap A)
    BY <1>4, <1>8, FS_Union
  <2>2. W \cap A = {} /\ Cardinality(W) \in Nat
    BY <1>2, <1>6, <1>7, <1>8
  <2> QED
    BY <1>6, <2>1, <2>2
<1>10. Cardinality(W \cup A) = Cardinality(P) + Cardinality(I) + Cardinality(D) + Cardinality(A)
  BY <1>5, <1>6, <1>7, <1>8, <1>9
<1> QED
  BY <1>1, <1>7, <1>8, <1>10

\* A variable that is no global is in one place only.
LEMMA OnePlace ==
  ASSUME IndInv, NEW v \in 1..Len(vars_), v \notin globals_
  PROVE  Cardinality({p \in Functions \X (1..Len(vars_)) :
                        p[2] \in DOMAIN fvars[p[1]].vars /\ fvars[p[1]].vars[p[2]] = v}) = 1
<1> DEFINE placed(p) == p[2] \in DOMAIN fvars[p[1]].vars /\ fvars[p[1]].vars[p[2]] = v
           S == {p \in Functions \X (1..Len(vars_)) : placed(p)}
<1>1. PICK f \in Functions : v \in Range(fvars[f].vars)
  BY DEF IndInv, Owned
<1>2. PICK n \in Nat : n = Len(vars_) /\ Owns(n, globals_, fvars[f])
  BY HasInv
<1>3. PICK s \in Seq(1..n) : s = fvars[f].vars /\ Distinct(s)
  BY <1>2 DEF Owns
<1>4. PICK i \in 1..Len(s) : s[i] = v
  BY <1>1, <1>3 DEF Range
<1>5. Len(s) <= n
  BY <1>3, Fits
<1>6. PICK e : e = <<f, i>>
  OBVIOUS
<1>7. e \in S
  BY <1>2, <1>3, <1>4, <1>5, <1>6
<1>8. ASSUME NEW p \in S
      PROVE  p = e
  <2>1. PICK g \in Functions, j \in 1..Len(vars_) : p = <<g, j>> /\ p[1] = g /\ p[2] = j
    OBVIOUS
  <2>2. j \in DOMAIN fvars[g].vars /\ fvars[g].vars[j] = v
    BY <2>1
  <2>3. v \in Range(fvars[g].vars)
    BY <2>2 DEF Range
  <2>4. g = f
    BY <1>1, <2>3 DEF IndInv, Owned
  <2>5. j = i
    <3>1. j \in DOMAIN s /\ s[j] = v
      BY <1>3, <2>2, <2>4
    <3>2. DOMAIN s = 1..Len(s)
      OBVIOUS
    <3> QED
      BY <1>3, <1>4, <3>1, <3>2 DEF Distinct
  <2> QED
    BY <1>6, <2>1, <2>4, <2>5
<1>9. S = {e}
  BY <1>7, <1>8
<1> QED
  BY <1>9, FS_Singleton

\* create_function_vars and process_var give every variable that they create to
\* one function, and for one purpose.
THEOREM VariablesOwnedOnce == Spec => []OwnedOnce
<1>1. IndInv => OwnedOnce
  <2> SUFFICES ASSUME IndInv PROVE OwnedOnce
    OBVIOUS
  <2>1. DOMAIN vars_ = 1..Len(vars_)
    BY FunctionsAssumption, HasInv
  <2>2. ASSUME NEW f \in Functions
        PROVE  /\ Range(fvars[f].vars) \subseteq DOMAIN vars_
               /\ Cardinality(serving(f) \cup fvars[f].args) =
                    Cardinality(fvars[f].perms) + Cardinality(fvars[f].indexes)
                      + Cardinality(DOMAIN fvars[f].pointees) + Cardinality(fvars[f].args)
               /\ (serving(f) \cup fvars[f].args) \cap globals_ = {}
    <3>1. PICK x, n : x = fvars[f] /\ n = Len(vars_) /\ n \in Nat /\ Owns(n, globals_, x)
      BY HasInv
    <3>2. Range(x.vars) \subseteq 1..n
      <4>1. PICK S, s : S = 1..n /\ s \in Seq(S) /\ s = x.vars
        BY <3>1 DEF Owns
      <4> QED
        BY <4>1, RangeIn
    <3>3. x.perms \cup x.indexes \cup x.args \cup Range(x.pointees) \subseteq Range(x.vars) \ globals_
      BY <3>1 DEF Owns
    <3>4. serving(f) = x.perms \cup x.indexes \cup Range(x.pointees)
      BY <3>1 DEF serving, pointee_vars
    <3>5. Cardinality(serving(f) \cup x.args)
            = Cardinality(x.perms) + Cardinality(x.indexes) + Cardinality(DOMAIN x.pointees) + Cardinality(x.args)
      BY <3>1, <3>4, CountedOnce
    <3> QED
      BY <2>1, <3>1, <3>2, <3>3, <3>4, <3>5
  <2> QED
    BY <2>1, <2>2, OnePlace DEF OwnedOnce
<1> QED
  BY <1>1, Invariance, PTL
=============================================================================
