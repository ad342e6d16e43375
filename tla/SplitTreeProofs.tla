-------------------------- MODULE SplitTreeProofs ---------------------------
(* Theorems about SplitTree: however many splits there are and whatever the *)
(* options are, the tree stays a tree and its blocks are tracked. No split  *)
(* may move or drop a vertex, leave a container half made, leave a break    *)
(* outside of a loop, or bury, double or reorder a direct call.             *)
EXTENDS SplitTree, WellFoundedInduction, TLAPS

-----------------------------------------------------------------------------
(* The inductive invariant of the tree alone                               *)

TreeType(t) ==
  /\ t.size \in Nat \ {0}
  /\ t.adj \in [Vertices(t) -> Seq(Vertices(t))]
  /\ t.parent \in [Vertices(t) -> Vertices(t) \cup {ILLEGAL_VERTEX}]
  /\ t.desc \in [Vertices(t) -> Props]
  /\ t.bbs \subseteq Vertices(t)

Tracked(t) == \A v \in Vertices(t) : v \in t.bbs <=> t.desc[v] = block

\* A block has no children yet, and the pseudo vertex is not a block: what is
\* split never loses children.
BlocksBare(t) ==
  /\ t.desc[PSEUDO_VERTEX] # block
  /\ \A v \in Vertices(t) : t.desc[v] = block => t.adj[v] = <<>>

GoodTree(t) == TreeType(t) /\ WellFormed(t) /\ Tracked(t) /\ BlocksBare(t)

-----------------------------------------------------------------------------
(* Vertex properties and sequences                                         *)

\* The properties that a vertex may be turned into are properties, and none of
\* them is that of a block.
LEMMA Kinds ==
  /\ block \in Props /\ pseudo \in Props /\ pseudo # block
  /\ branching \in Props \ {block}
  /\ loop \in Props \ {block}
  /\ \A c \in BranchingCats : plain(c) \in Props \ {block}
  /\ \A t \in CallTypes, g \in 1..MaxCallees : call(t, g) \in Props \ {block}
  /\ \A t \in BreakTypes : break(t) \in Props \ {block}
<1> USE DEF plain, vprop
<1>1. /\ block \in Props /\ pseudo \in Props /\ pseudo # block
      /\ branching \in Props \ {block}
      /\ loop \in Props \ {block}
  BY DEF Props, block, pseudo, branching, loop
<1>2. \A c \in BranchingCats : plain(c) \in Props \ {block}
  BY DEF Props, block, BranchingCats
<1>3. \A t \in CallTypes, g \in 1..MaxCallees : call(t, g) \in Props \ {block}
  <2> TAKE t \in CallTypes, g \in 1..MaxCallees
  <2>1. call(t, g) \in {call(u, h) : u \in CallTypes, h \in 1..MaxCallees}
    OBVIOUS
  <2>2. call(t, g).cat = "CALL" /\ block.cat = "BLOCK"
    BY DEF call, block
  <2> QED
    BY <2>1, <2>2 DEF Props
<1>4. \A t \in BreakTypes : break(t) \in Props \ {block}
  <2> TAKE t \in BreakTypes
  <2>1. break(t) \in {break(u) : u \in BreakTypes}
    OBVIOUS
  <2>2. break(t).cat = "BREAK" /\ block.cat = "BLOCK"
    BY DEF break, block
  <2> QED
    BY <2>1, <2>2 DEF Props
<1> QED
  BY <1>1, <1>2, <1>3, <1>4

\* A sequence of elements of S is one of elements of a larger set.
LEMMA SeqLarger ==
  ASSUME NEW S, NEW T, S \subseteq T, NEW s \in Seq(S)
  PROVE  s \in Seq(T)
OBVIOUS

\* A member of a sequence is a member of its set.
LEMMA SeqMember ==
  ASSUME NEW S, NEW s \in Seq(S), NEW i \in DOMAIN s
  PROVE  s[i] \in S
OBVIOUS

\* insert_after keeps what was in the sequence and adds what is new.
LEMMA InsertAfter ==
  ASSUME NEW S, NEW s \in Seq(S), NEW new \in Seq(S), NEW i \in 1..Len(s)
  PROVE  LET r == insert_after(s, i, new)
         IN  /\ r \in Seq(S)
             /\ Len(r) = Len(s) + Len(new)
             /\ \A j \in 1..i : r[j] = s[j]
             /\ \A j \in (i + 1)..(i + Len(new)) : r[j] = new[j - i]
             /\ \A j \in (i + Len(new) + 1)..Len(r) : r[j] = s[j - Len(new)]
<1> DEFINE a == SubSeq(s, 1, i)
           b == SubSeq(s, i + 1, Len(s))
           r == insert_after(s, i, new)
<1>1. a \in Seq(S) /\ Len(a) = i /\ \A j \in 1..i : a[j] = s[j]
  OBVIOUS
<1>2. b \in Seq(S) /\ Len(b) = Len(s) - i /\ \A j \in 1..(Len(s) - i) : b[j] = s[i + j]
  OBVIOUS
<1>3. r = (a \o new) \o b
  BY DEF insert_after
<1> HIDE DEF a, b, r
<1>4. /\ a \o new \in Seq(S)
      /\ Len(a \o new) = i + Len(new)
      /\ \A j \in 1..i : (a \o new)[j] = s[j]
      /\ \A j \in (i + 1)..(i + Len(new)) : (a \o new)[j] = new[j - i]
  BY <1>1
<1> DEFINE c == a \o new
<1>5. c \in Seq(S) /\ Len(c) = i + Len(new)
  BY <1>4
<1>6. r = c \o b
  BY <1>3
<1>7. r \in Seq(S) /\ Len(r) = Len(s) + Len(new)
  <2> HIDE DEF c
  <2>1. Len(s) \in Nat /\ Len(new) \in Nat /\ i \in Nat
    OBVIOUS
  <2>2. c \in Seq(S)
    BY <1>5
  <2>3. b \in Seq(S)
    BY <1>2
  <2>4. c \o b \in Seq(S) /\ Len(c \o b) = Len(c) + Len(b)
    BY <2>2, <2>3
  <2> QED BY <1>5, <1>6, <1>2, <2>1, <2>4
<1>8. \A j \in 1..(i + Len(new)) : r[j] = c[j]
  <2> HIDE DEF c
  <2> QED BY <1>5, <1>6, <1>2
<1>9. \A j \in (i + Len(new) + 1)..Len(r) : r[j] = b[j - (i + Len(new))]
  <2> HIDE DEF c
  <2> QED BY <1>5, <1>6, <1>2, <1>7
<1>10. \A j \in (i + Len(new) + 1)..Len(r) : r[j] = s[j - Len(new)]
  <2> TAKE j \in (i + Len(new) + 1)..Len(r)
  <2>1. j - (i + Len(new)) \in 1..(Len(s) - i)
    BY <1>7
  <2>2. i + (j - (i + Len(new))) = j - Len(new)
    BY <1>7
  <2> QED
    BY <1>2, <1>9, <2>1, <2>2
<1>11. \A j \in 1..i : r[j] = s[j]
  BY <1>4, <1>8
<1>12. \A j \in (i + 1)..(i + Len(new)) : r[j] = new[j - i]
  BY <1>4, <1>8
<1> QED
  BY <1>7, <1>10, <1>11, <1>12 DEF r

-----------------------------------------------------------------------------
(* The edits of the tree keep it good                                      *)

\* The seeds are a good tree with a block.
LEMMA SeedsGood ==
  ASSUME NEW k \in 0..MaxCallees
  PROVE  GoodTree(seeds(k)) /\ seeds(k).bbs # {}
<1> DEFINE t == seeds(k)
<1>0. k \in Nat
  BY BoundsAssumption
<1>1. t.size = 2 * k + 2 /\ Vertices(t) = 0..(2 * k + 1)
  BY <1>0 DEF seeds, Vertices
<1> DEFINE row == [i \in 1..(2 * k + 1) |-> i]
<1>a. t.adj = [v \in Vertices(t) |-> IF v = PSEUDO_VERTEX THEN row ELSE <<>>]
  BY <1>1 DEF seeds
<1>p. t.parent = [v \in Vertices(t) |-> IF v = PSEUDO_VERTEX THEN ILLEGAL_VERTEX
                                       ELSE PSEUDO_VERTEX]
  BY <1>1 DEF seeds
<1>r. row \in Seq(Vertices(t)) /\ Len(row) = 2 * k + 1 /\ \A i \in 1..(2 * k + 1) : row[i] = i
  BY <1>1
<1>d. /\ t.desc \in [Vertices(t) -> Props]
      /\ \A v \in Vertices(t) : t.desc[v] = block <=> v \in t.bbs
      /\ t.desc[PSEUDO_VERTEX] # block
      /\ t.bbs \subseteq Vertices(t) \ {PSEUDO_VERTEX}
  <2>1. t.desc = [v \in Vertices(t) |-> IF v = PSEUDO_VERTEX THEN pseudo
                                       ELSE IF v % 2 = 0 THEN call("DIRECT", v \div 2) ELSE block]
    BY <1>1 DEF seeds
  <2>2. t.bbs = {v \in 1..(2 * k + 1) : v % 2 = 1}
    BY DEF seeds
  <2>3. pseudo \in Props \ {block} /\ block \in Props
    BY Kinds
  <2>4. \A v \in 1..(2 * k + 1) : (v % 2 = 0 /\ v \div 2 \in 1..MaxCallees) \/ v % 2 = 1
    BY <1>0, BoundsAssumption
  <2>5. \A v \in 1..(2 * k + 1) : v % 2 = 0 => call("DIRECT", v \div 2) \in Props \ {block}
    BY <2>4, Kinds DEF CallTypes
  <2> QED
    BY <1>1, <2>1, <2>2, <2>3, <2>4, <2>5 DEF PSEUDO_VERTEX
<1> HIDE DEF row
<1>2. TreeType(t)
  <2>1. t.adj \in [Vertices(t) -> Seq(Vertices(t))]
    BY <1>a, <1>r
  <2>2. t.parent \in [Vertices(t) -> Vertices(t) \cup {ILLEGAL_VERTEX}]
    BY <1>1, <1>p DEF PSEUDO_VERTEX
  <2> QED
    BY <1>1, <1>d, <2>1, <2>2 DEF TreeType
<1>3. WellFormed(t)
  BY <1>1, <1>a, <1>p, <1>r DEF WellFormed, PSEUDO_VERTEX
<1>4. Tracked(t)
  BY <1>d DEF Tracked
<1>5. BlocksBare(t)
  BY <1>a, <1>d DEF BlocksBare
<1>6. 1 \in t.bbs
  BY <1>1 DEF seeds
<1> QED
  BY <1>2, <1>3, <1>4, <1>5, <1>6 DEF GoodTree

\* Turning a block into anything else keeps the tree.
LEMMA TurnGood ==
  ASSUME NEW t, GoodTree(t), NEW bb \in t.bbs, NEW prop \in Props \ {block}
  PROVE  GoodTree(turn_block(t, bb, prop))
<1> DEFINE s == turn_block(t, bb, prop)
<1>1. /\ s.size = t.size /\ s.adj = t.adj /\ s.parent = t.parent
      /\ s.desc = [t.desc EXCEPT ![bb] = prop] /\ s.bbs = t.bbs \ {bb}
      /\ Vertices(s) = Vertices(t)
  BY DEF turn_block, Vertices
<1>2. TreeType(s)
  BY <1>1 DEF TreeType, GoodTree
<1>3. WellFormed(s)
  BY <1>1 DEF WellFormed, GoodTree
<1>4. Tracked(s) /\ BlocksBare(s)
  BY <1>1 DEF Tracked, BlocksBare, GoodTree, TreeType, Vertices, PSEUDO_VERTEX
<1> QED
  BY <1>2, <1>3, <1>4 DEF GoodTree

\* What grow builds, vertex by vertex.
LEMMA GrowParts ==
  ASSUME NEW t, TreeType(t), NEW m \in Nat, NEW adj, NEW par, NEW prop
  PROVE  LET s == grow(t, m, adj, par, prop)
             new == t.size..(t.size + m - 1)
         IN  /\ s.size = t.size + m
             /\ Vertices(s) = Vertices(t) \cup new
             /\ Vertices(t) \cap new = {}
             /\ s.adj = [v \in Vertices(s) |-> adj[v]]
             /\ s.parent = [v \in Vertices(s) |-> IF v \in new THEN par[v] ELSE t.parent[v]]
             /\ s.desc = [v \in Vertices(s) |-> IF v \in new THEN prop[v] ELSE t.desc[v]]
             /\ s.bbs = t.bbs \cup {v \in new : prop[v] = block}
BY DEF grow, Vertices, TreeType

\* Adding siblings behind a block keeps the tree and makes them blocks.
LEMMA SiblingsGood ==
  ASSUME NEW t, GoodTree(t), NEW bb \in t.bbs, NEW k \in Nat
  PROVE  /\ GoodTree(add_siblings(t, bb, k))
         /\ add_siblings(t, bb, k).size = t.size + k
         /\ add_siblings(t, bb, k).bbs = t.bbs \cup (t.size..(t.size + k - 1))
<1> DEFINE n == t.size
           new == n..(n + k - 1)
           p == t.parent[bb]
           pos == CHOOSE i \in DOMAIN t.adj[p] : t.adj[p][i] = bb
           fresh == [i \in 1..k |-> n + i - 1]
           list == insert_after(t.adj[p], pos, fresh)
           adj == [v \in 0..(n + k - 1) |->
                     IF v = p THEN list ELSE IF v \in new THEN <<>> ELSE t.adj[v]]
           par == [v \in new |-> p]
           prop == [v \in new |-> block]
           s == add_siblings(t, bb, k)
<1>1. TreeType(t) /\ WellFormed(t) /\ Tracked(t) /\ BlocksBare(t)
  BY DEF GoodTree
<1>2. n \in Nat /\ n > 0 /\ Vertices(t) = 0..(n - 1)
  BY <1>1 DEF TreeType, Vertices
<1>3. bb \in Vertices(t) /\ t.desc[bb] = block /\ bb # PSEUDO_VERTEX
  BY <1>1 DEF TreeType, Tracked, BlocksBare
<1>4. p \in Vertices(t) /\ \E i \in DOMAIN t.adj[p] : t.adj[p][i] = bb
  BY <1>1, <1>2, <1>3 DEF WellFormed, PSEUDO_VERTEX
<1>5. pos \in DOMAIN t.adj[p]
  BY <1>4
<1>6. t.adj[p] \in Seq(Vertices(t)) /\ pos \in 1..Len(t.adj[p])
  BY <1>1, <1>4, <1>5 DEF TreeType
<1>7. s = grow(t, k, adj, par, prop)
  BY DEF add_siblings
<1> HIDE DEF s, pos, p
<1>8. /\ s.size = n + k
      /\ Vertices(s) = 0..(n + k - 1) /\ Vertices(s) = Vertices(t) \cup new
      /\ Vertices(t) \cap new = {}
      /\ s.adj = adj
      /\ s.parent = [v \in Vertices(s) |-> IF v \in new THEN p ELSE t.parent[v]]
      /\ s.desc = [v \in Vertices(s) |-> IF v \in new THEN block ELSE t.desc[v]]
      /\ s.bbs = t.bbs \cup new
  <2> HIDE DEF adj, par, prop
  <2>1. /\ s.size = n + k
        /\ Vertices(s) = Vertices(t) \cup new
        /\ Vertices(t) \cap new = {}
        /\ s.adj = [v \in Vertices(s) |-> adj[v]]
        /\ s.parent = [v \in Vertices(s) |-> IF v \in new THEN par[v] ELSE t.parent[v]]
        /\ s.desc = [v \in Vertices(s) |-> IF v \in new THEN prop[v] ELSE t.desc[v]]
        /\ s.bbs = t.bbs \cup {v \in new : prop[v] = block}
    BY <1>1, <1>7, GrowParts
  <2>2. Vertices(s) = 0..(n + k - 1)
    BY <1>2, <2>1 DEF Vertices
  <2>3. s.adj = adj
    BY <2>1, <2>2 DEF adj
  <2> QED
    BY <2>1, <2>2, <2>3 DEF par, prop
<1>9. fresh \in Seq(new) /\ Len(fresh) = k /\ \A i \in 1..k : fresh[i] = n + i - 1
  BY <1>2
<1>10. /\ list \in Seq(Vertices(s))
       /\ Len(list) = Len(t.adj[p]) + k
       /\ \A j \in 1..pos : list[j] = t.adj[p][j]
       /\ \A j \in (pos + 1)..(pos + k) : list[j] = n + (j - pos) - 1
       /\ \A j \in (pos + k + 1)..Len(list) : list[j] = t.adj[p][j - k]
  <2>1. t.adj[p] \in Seq(Vertices(s)) /\ fresh \in Seq(Vertices(s))
    <3> HIDE DEF fresh
    <3> QED BY <1>6, <1>8, <1>9, SeqLarger
  <2>2. \A j \in (pos + 1)..(pos + k) : j - pos \in 1..k
    BY <1>6
  <2> HIDE DEF fresh
  <2>3. /\ list \in Seq(Vertices(s))
        /\ Len(list) = Len(t.adj[p]) + Len(fresh)
        /\ \A j \in 1..pos : list[j] = t.adj[p][j]
        /\ \A j \in (pos + 1)..(pos + Len(fresh)) : list[j] = fresh[j - pos]
        /\ \A j \in (pos + Len(fresh) + 1)..Len(list) : list[j] = t.adj[p][j - Len(fresh)]
    BY <1>6, <2>1, InsertAfter
  <2> HIDE DEF list
  <2>4. \A j \in (pos + 1)..(pos + k) : list[j] = n + (j - pos) - 1
    BY <1>9, <2>2, <2>3
  <2> QED
    BY <1>9, <2>3, <2>4
<1> HIDE DEF fresh, list
<1>11. TreeType(s)
  <2>1. s.adj \in [Vertices(s) -> Seq(Vertices(s))]
    <3>1. \A v \in Vertices(t) : t.adj[v] \in Seq(Vertices(s))
      BY <1>1, <1>8, SeqLarger DEF TreeType
    <3>2. <<>> \in Seq(Vertices(s))
      OBVIOUS
    <3> QED
      BY <1>8, <1>10, <3>1, <3>2
  <2>2. s.parent \in [Vertices(s) -> Vertices(s) \cup {ILLEGAL_VERTEX}]
    BY <1>1, <1>4, <1>8 DEF TreeType
  <2>3. s.desc \in [Vertices(s) -> Props]
    BY <1>1, <1>8, Kinds DEF TreeType
  <2>4. s.bbs \subseteq Vertices(s) /\ s.size \in Nat \ {0}
    BY <1>1, <1>2, <1>8 DEF TreeType
  <2> QED
    BY <2>1, <2>2, <2>3, <2>4 DEF TreeType
<1>12. WellFormed(s)
  <2>a. s.adj[p] = list /\ DOMAIN list = 1..Len(list) /\ DOMAIN t.adj[p] = 1..Len(t.adj[p])
    BY <1>2, <1>4, <1>6, <1>8, <1>10
  <2>b. \A v \in Vertices(t) \ {p} : s.adj[v] = t.adj[v]
    BY <1>2, <1>8
  <2>c. \A v \in new : s.adj[v] = <<>>
    BY <1>2, <1>4, <1>8
  <2>d. \A j \in 1..Len(list) :
          \/ j \in 1..pos /\ list[j] = t.adj[p][j] /\ j \in DOMAIN t.adj[p]
          \/ j \in (pos + 1)..(pos + k) /\ list[j] = n + (j - pos) - 1 /\ list[j] \in new
          \/ /\ j \in (pos + k + 1)..Len(list) /\ list[j] = t.adj[p][j - k]
             /\ j - k \in DOMAIN t.adj[p] /\ j - k > pos
    BY <1>2, <1>6, <1>10, <2>a
  <2>e. \A u \in Vertices(t) : s.parent[u] = t.parent[u]
    BY <1>8
  <2>1. \A v \in Vertices(s) : \A i \in DOMAIN s.adj[v] :
          s.adj[v][i] \in Vertices(s) /\ s.parent[s.adj[v][i]] = v
    <3> SUFFICES ASSUME NEW v \in Vertices(s), NEW i \in DOMAIN s.adj[v]
                 PROVE  s.adj[v][i] \in Vertices(s) /\ s.parent[s.adj[v][i]] = v
      OBVIOUS
    <3>1. CASE v = p
      <4>1. list[i] \in new \/ \E j \in DOMAIN t.adj[p] : list[i] = t.adj[p][j]
        BY <2>a, <2>d, <3>1
      <4> QED
        BY <1>1, <1>4, <1>8, <2>a, <2>e, <3>1, <4>1 DEF WellFormed
    <3>2. CASE v \in Vertices(t) \ {p}
      BY <1>1, <1>8, <2>b, <2>e, <3>2 DEF WellFormed
    <3>3. CASE v \in new
      BY <2>c, <3>3
    <3> QED
      BY <1>8, <3>1, <3>2, <3>3
  <2>2. \A v \in Vertices(s) : \A i, j \in DOMAIN s.adj[v] :
          s.adj[v][i] = s.adj[v][j] => i = j
    <3> SUFFICES ASSUME NEW v \in Vertices(s),
                        NEW i \in DOMAIN s.adj[v], NEW j \in DOMAIN s.adj[v],
                        s.adj[v][i] = s.adj[v][j]
                 PROVE  i = j
      OBVIOUS
    <3>1. CASE v = p
      <4>1. \A x \in DOMAIN t.adj[p] : t.adj[p][x] \in Vertices(t) /\ t.adj[p][x] \notin new
        BY <1>1, <1>4, <1>8 DEF WellFormed
      <4>2. \A x, y \in DOMAIN t.adj[p] : t.adj[p][x] = t.adj[p][y] => x = y
        BY <1>1, <1>4 DEF WellFormed
      <4>3. i \in 1..Len(list) /\ j \in 1..Len(list) /\ list[i] = list[j]
        BY <2>a, <3>1
      <4>4. CASE list[i] \in new
        <5>1. i \in (pos + 1)..(pos + k) /\ list[i] = n + (i - pos) - 1
          BY <2>d, <4>1, <4>3, <4>4
        <5>2. j \in (pos + 1)..(pos + k) /\ list[j] = n + (j - pos) - 1
          BY <2>d, <4>1, <4>3, <4>4
        <5>3. n + (i - pos) - 1 = n + (j - pos) - 1
          BY <4>3, <5>1, <5>2
        <5>4. n \in Int /\ pos \in Int /\ i \in Int /\ j \in Int
          BY <1>2, <1>6, <5>1, <5>2
        <5> QED
          BY <5>3, <5>4
      <4>5. CASE list[i] \notin new
        <5> DEFINE old(x) == IF x <= pos THEN x ELSE x - k
        <5>1. \A x \in 1..Len(list) : list[x] \notin new =>
                /\ list[x] = t.adj[p][old(x)] /\ old(x) \in DOMAIN t.adj[p]
                /\ (x <= pos /\ old(x) = x) \/ (old(x) > pos /\ old(x) = x - k)
          BY <1>6, <2>d
        <5>2. old(i) = old(j)
          <6> HIDE DEF old
          <6> QED BY <4>2, <4>3, <4>5, <5>1
        <5> HIDE DEF old
        <5> QED
          BY <1>6, <4>3, <4>5, <5>1, <5>2
      <4> QED
        BY <4>4, <4>5
    <3>2. CASE v \in Vertices(t) \ {p}
      BY <1>1, <2>b, <3>2 DEF WellFormed
    <3>3. CASE v \in new
      BY <2>c, <3>3
    <3> QED
      BY <1>8, <3>1, <3>2, <3>3
  <2>3. \A v \in Vertices(s) \ {PSEUDO_VERTEX} :
          /\ s.parent[v] \in 0..(v - 1)
          /\ \E i \in DOMAIN s.adj[s.parent[v]] : s.adj[s.parent[v]][i] = v
    <3> SUFFICES ASSUME NEW v \in Vertices(s) \ {PSEUDO_VERTEX}
                 PROVE  /\ s.parent[v] \in 0..(v - 1)
                        /\ \E i \in DOMAIN s.adj[s.parent[v]] : s.adj[s.parent[v]][i] = v
      OBVIOUS
    <3>1. CASE v \in new
      <4>1. s.parent[v] = p /\ p \in 0..(v - 1)
        BY <1>2, <1>4, <1>8, <3>1
      <4>2. pos + (v - n + 1) \in (pos + 1)..(pos + k) /\ v \in Nat
        BY <1>2, <1>6, <3>1
      <4>a. Len(list) \in Nat /\ Len(t.adj[p]) \in Nat /\ Len(list) = Len(t.adj[p]) + k
        BY <1>6, <1>10
      <4>b. pos + (v - n + 1) \in 1..Len(list)
        BY <1>6, <4>2, <4>a
      <4>c. n + ((pos + (v - n + 1)) - pos) - 1 = v
        BY <1>2, <1>6, <4>2
      <4>3. list[pos + (v - n + 1)] = v /\ pos + (v - n + 1) \in 1..Len(list)
        BY <1>10, <4>2, <4>b, <4>c
      <4> QED
        BY <2>a, <4>1, <4>3
    <3>2. CASE v \in Vertices(t) /\ t.parent[v] = p
      <4>1. PICK i \in DOMAIN t.adj[p] : t.adj[p][i] = v
        BY <1>1, <3>2 DEF WellFormed
      <4>2. v \in Vertices(t) \ {PSEUDO_VERTEX} /\ s.parent[v] = p /\ p \in 0..(v - 1)
        BY <1>1, <2>e, <3>2 DEF WellFormed
      <4>3. CASE i <= pos
        <5>1. i \in 1..pos /\ i \in 1..Len(list)
          BY <1>6, <1>10, <2>a, <4>1, <4>3
        <5> QED
          BY <1>10, <2>a, <4>1, <4>2, <5>1
      <4>4. CASE i > pos
        <5>1. i + k \in (pos + k + 1)..Len(list) /\ (i + k) - k = i /\ i + k \in 1..Len(list)
          BY <1>6, <1>10, <2>a, <4>1, <4>4
        <5>2. list[i + k] = v
          BY <1>10, <4>1, <5>1
        <5> QED
          BY <2>a, <4>2, <5>1, <5>2
      <4> QED
        BY <1>6, <2>a, <4>1, <4>3, <4>4
    <3>3. CASE v \in Vertices(t) /\ t.parent[v] # p
      <4>1. /\ t.parent[v] \in 0..(v - 1)
            /\ \E i \in DOMAIN t.adj[t.parent[v]] : t.adj[t.parent[v]][i] = v
        BY <1>1, <3>3 DEF WellFormed
      <4>2. t.parent[v] \in Vertices(t) \ {p}
        BY <1>2, <3>3, <4>1
      <4> QED
        BY <2>b, <2>e, <3>3, <4>1, <4>2
    <3> QED
      BY <1>8, <3>1, <3>2, <3>3
  <2> QED
    BY <2>1, <2>2, <2>3 DEF WellFormed
<1>13. Tracked(s)
  BY <1>1, <1>8 DEF Tracked
<1>14. BlocksBare(s)
  <2>1. t.desc[p] # block
    BY <1>1, <1>4, <1>6 DEF BlocksBare
  <2> QED
    BY <1>1, <1>2, <1>4, <1>8, <2>1 DEF BlocksBare, PSEUDO_VERTEX
<1> QED
  BY <1>8, <1>11, <1>12, <1>13, <1>14 DEF GoodTree, s

\* The m fresh vertices new are a tree below bb, a vertex of t without children
\* that is no block, and the children of the other vertices of t stay.
FreshBelow(t, m, bb, new, adj, par, prop) ==
  /\ m \in Nat /\ new = t.size..(t.size + m - 1)
  /\ bb \in Vertices(t) /\ t.adj[bb] = <<>> /\ t.desc[bb] # block
  /\ \A v \in Vertices(t) \ {bb} : adj[v] = t.adj[v]
  /\ \A v \in new \cup {bb} : adj[v] \in Seq(new)
  /\ \A v \in new \cup {bb} : \A i \in DOMAIN adj[v] : par[adj[v][i]] = v
  /\ \A v \in new \cup {bb} : \A i, j \in DOMAIN adj[v] : adj[v][i] = adj[v][j] => i = j
  /\ \A v \in new : /\ par[v] \in (new \cup {bb}) /\ par[v] < v
                    /\ \E i \in DOMAIN adj[par[v]] : adj[par[v]][i] = v
  /\ \A v \in new : prop[v] \in Props /\ (prop[v] = block => adj[v] = <<>>)

\* Growing fresh vertices below a vertex keeps the tree.
LEMMA GrowGood ==
  ASSUME NEW t, GoodTree(t), NEW m, NEW adj, NEW par, NEW prop, NEW new, NEW bb,
         FreshBelow(t, m, bb, new, adj, par, prop)
  PROVE  /\ GoodTree(grow(t, m, adj, par, prop))
         /\ grow(t, m, adj, par, prop).bbs = t.bbs \cup {v \in new : prop[v] = block}
<1> USE DEF FreshBelow
<1> DEFINE s == grow(t, m, adj, par, prop)
<1>1. TreeType(t) /\ WellFormed(t) /\ Tracked(t) /\ BlocksBare(t)
  BY DEF GoodTree
<1>2. /\ s.size = t.size + m
      /\ Vertices(s) = Vertices(t) \cup new
      /\ Vertices(t) \cap new = {}
      /\ s.adj = [v \in Vertices(s) |-> adj[v]]
      /\ s.parent = [v \in Vertices(s) |-> IF v \in new THEN par[v] ELSE t.parent[v]]
      /\ s.desc = [v \in Vertices(s) |-> IF v \in new THEN prop[v] ELSE t.desc[v]]
      /\ s.bbs = t.bbs \cup {v \in new : prop[v] = block}
  BY <1>1, GrowParts
<1> HIDE DEF s
<1>3. t.size \in Nat /\ t.size > 0 /\ Vertices(t) = 0..(t.size - 1) /\ bb \in 0..(t.size - 1)
  BY <1>1 DEF TreeType, Vertices
<1>4. /\ \A v \in Vertices(t) \ {bb} : s.adj[v] = t.adj[v]
      /\ \A v \in new \cup {bb} : s.adj[v] = adj[v]
      /\ \A v \in Vertices(t) : s.parent[v] = t.parent[v] /\ s.desc[v] = t.desc[v]
      /\ \A v \in new : s.parent[v] = par[v] /\ s.desc[v] = prop[v]
  BY <1>2
<1>5. TreeType(s)
  <2>1. \A v \in Vertices(s) : s.adj[v] \in Seq(Vertices(s))
    <3>1. \A v \in Vertices(t) \ {bb} : s.adj[v] \in Seq(Vertices(s))
      BY <1>1, <1>2, <1>4, SeqLarger DEF TreeType
    <3>2. ASSUME NEW v \in new \cup {bb}
          PROVE  s.adj[v] \in Seq(Vertices(s))
      <4>1. s.adj[v] = adj[v] /\ adj[v] \in Seq(new)
        BY <1>4
      <4>2. new \subseteq Vertices(s)
        BY <1>2
      <4> QED
        BY <4>1, <4>2, SeqLarger
    <3> QED
      BY <1>2, <3>1, <3>2
  <2>2. s.adj \in [Vertices(s) -> Seq(Vertices(s))]
    BY <1>2, <2>1
  <2>3. s.parent \in [Vertices(s) -> Vertices(s) \cup {ILLEGAL_VERTEX}]
    BY <1>1, <1>2 DEF TreeType
  <2>4. s.desc \in [Vertices(s) -> Props]
    BY <1>1, <1>2 DEF TreeType
  <2>5. s.bbs \subseteq Vertices(s)
    BY <1>1, <1>2 DEF TreeType
  <2> QED
    BY <1>2, <1>3, <2>2, <2>3, <2>4, <2>5 DEF TreeType
<1>6. WellFormed(s)
  <2>1. \A v \in Vertices(s) : \A i \in DOMAIN s.adj[v] :
          s.adj[v][i] \in Vertices(s) /\ s.parent[s.adj[v][i]] = v
    <3>1. ASSUME NEW v \in Vertices(t) \ {bb}, NEW i \in DOMAIN s.adj[v]
          PROVE  s.adj[v][i] \in Vertices(s) /\ s.parent[s.adj[v][i]] = v
      BY <1>1, <1>2, <1>4, <3>1 DEF WellFormed
    <3>2. ASSUME NEW v \in new \cup {bb}, NEW i \in DOMAIN s.adj[v]
          PROVE  s.adj[v][i] \in Vertices(s) /\ s.parent[s.adj[v][i]] = v
      <4>1. s.adj[v] = adj[v] /\ adj[v] \in Seq(new)
        BY <1>4
      <4>2. adj[v][i] \in new
        BY <4>1, SeqMember
      <4>3. par[adj[v][i]] = v
        BY <4>1
      <4> QED
        BY <1>2, <1>4, <4>1, <4>2, <4>3
    <3> QED
      BY <1>2, <3>1, <3>2
  <2>2. \A v \in Vertices(s) : \A i, j \in DOMAIN s.adj[v] :
          s.adj[v][i] = s.adj[v][j] => i = j
    <3>1. ASSUME NEW v \in Vertices(t) \ {bb}
          PROVE  \A i, j \in DOMAIN s.adj[v] : s.adj[v][i] = s.adj[v][j] => i = j
      <4>1. s.adj[v] = t.adj[v]
        BY <1>4
      <4> QED
        BY <1>1, <4>1 DEF WellFormed
    <3>2. ASSUME NEW v \in new \cup {bb}
          PROVE  \A i, j \in DOMAIN s.adj[v] : s.adj[v][i] = s.adj[v][j] => i = j
      <4>1. s.adj[v] = adj[v]
        BY <1>4
      <4> QED
        BY <4>1
    <3> QED
      BY <1>2, <3>1, <3>2
  <2>3. ASSUME NEW v \in Vertices(s) \ {PSEUDO_VERTEX}
        PROVE  /\ s.parent[v] \in 0..(v - 1)
               /\ \E i \in DOMAIN s.adj[s.parent[v]] : s.adj[s.parent[v]][i] = v
    <3>1. CASE v \in new
      <4>1. s.parent[v] = par[v] /\ par[v] \in new \cup {bb} /\ par[v] < v /\ v \in Nat
        BY <1>3, <1>4, <3>1
      <4>2. par[v] \in 0..(v - 1)
        BY <1>3, <4>1
      <4> QED
        BY <1>4, <3>1, <4>1, <4>2
    <3>2. CASE v \in Vertices(t)
      <4>1. /\ t.parent[v] \in 0..(v - 1)
            /\ \E i \in DOMAIN t.adj[t.parent[v]] : t.adj[t.parent[v]][i] = v
        BY <1>1, <3>2 DEF WellFormed
      <4>2. t.parent[v] \in Vertices(t) \ {bb}
        BY <1>3, <3>2, <4>1
      <4> QED
        BY <1>4, <3>2, <4>1, <4>2
    <3> QED
      BY <1>2, <3>1, <3>2
  <2> QED
    BY <2>1, <2>2, <2>3 DEF WellFormed
<1>7. Tracked(s)
  BY <1>1, <1>2, <1>4 DEF Tracked, TreeType
<1>8. BlocksBare(s)
  <2>1. s.desc[PSEUDO_VERTEX] # block
    <3>1. PSEUDO_VERTEX \in Vertices(t)
      BY <1>3 DEF PSEUDO_VERTEX
    <3> QED
      BY <1>1, <1>4, <3>1 DEF BlocksBare
  <2>2. ASSUME NEW v \in Vertices(t), s.desc[v] = block
        PROVE  s.adj[v] = <<>>
    BY <1>1, <1>4, <2>2 DEF BlocksBare
  <2>3. ASSUME NEW v \in new, s.desc[v] = block
        PROVE  s.adj[v] = <<>>
    BY <1>4, <2>3
  <2> QED
    BY <1>2, <2>1, <2>2, <2>3 DEF BlocksBare
<1> QED
  BY <1>2, <1>5, <1>6, <1>7, <1>8 DEF GoodTree, s

\* A block that is turned into prop is ready to get children.
LEMMA TurnReady ==
  ASSUME NEW t, GoodTree(t), NEW bb \in t.bbs, NEW prop \in Props \ {block}, NEW u,
         u = turn_block(t, bb, prop)
  PROVE  /\ GoodTree(u) /\ u.size = t.size /\ u.adj = t.adj /\ u.bbs = t.bbs \ {bb}
         /\ t.size \in Nat \ {0} /\ Vertices(u) = 0..(t.size - 1)
         /\ bb \in Vertices(u) /\ u.adj[bb] = <<>> /\ u.desc[bb] # block
<1>1. GoodTree(u)
  BY TurnGood
<1>2. /\ u.size = t.size /\ u.adj = t.adj /\ u.bbs = t.bbs \ {bb}
      /\ u.desc = [t.desc EXCEPT ![bb] = prop]
  BY DEF turn_block
<1>3. bb \in Vertices(t) /\ t.desc[bb] = block /\ t.adj[bb] = <<>> /\ t.size \in Nat \ {0}
      /\ t.desc \in [Vertices(t) -> Props]
  BY DEF GoodTree, TreeType, Tracked, BlocksBare
<1>4. Vertices(u) = Vertices(t) /\ Vertices(u) = 0..(t.size - 1)
  BY <1>2 DEF Vertices
<1> QED
  BY <1>1, <1>2, <1>3, <1>4

\* Turning a block into a loop and giving it a body keeps the tree.
LEMMA LoopGood ==
  ASSUME NEW t, GoodTree(t), NEW bb \in t.bbs
  PROVE  GoodTree(make_loop(t, bb)) /\ make_loop(t, bb).bbs = (t.bbs \ {bb}) \cup {t.size}
<1> DEFINE u == turn_block(t, bb, loop)
           n == t.size
           adj == [v \in 0..n |-> IF v = bb THEN <<n>> ELSE IF v = n THEN <<>> ELSE t.adj[v]]
           par == [v \in {n} |-> bb]
           prop == [v \in {n} |-> block]
<1>1. make_loop(t, bb) = grow(u, 1, adj, par, prop)
  BY DEF make_loop
<1>2. /\ GoodTree(u) /\ u.size = n /\ u.adj = t.adj /\ u.bbs = t.bbs \ {bb}
      /\ n \in Nat \ {0} /\ Vertices(u) = 0..(n - 1)
      /\ bb \in Vertices(u) /\ u.adj[bb] = <<>> /\ u.desc[bb] # block
  BY TurnReady, Kinds
<1> HIDE DEF u
<1>3. {n} = u.size..(u.size + 1 - 1)
  BY <1>2
<1>4. /\ \A v \in Vertices(u) \ {bb} : adj[v] = u.adj[v]
      /\ adj[bb] = <<n>> /\ adj[n] = <<>>
      /\ par[n] = bb /\ bb < n /\ prop[n] = block
  BY <1>2
<1> HIDE DEF adj, par, prop
<1> DEFINE new == {n}
<1>5. new = u.size..(u.size + 1 - 1) /\ 1 \in Nat
  BY <1>3
<1>6. \A v \in new \cup {bb} : adj[v] \in Seq(new)
  <2>0. <<n>> \in Seq({n}) /\ <<>> \in Seq({n})
    OBVIOUS
  <2> QED
    BY <1>4, <2>0
<1>7. \A v \in new \cup {bb} : \A i \in DOMAIN adj[v] : par[adj[v][i]] = v
  BY <1>4
<1>8. \A v \in new \cup {bb} : \A i, j \in DOMAIN adj[v] : adj[v][i] = adj[v][j] => i = j
  BY <1>4
<1>9. \A v \in new : /\ par[v] \in (new \cup {bb}) /\ par[v] < v
                     /\ \E i \in DOMAIN adj[par[v]] : adj[par[v]][i] = v
  BY <1>4
<1>10. \A v \in new : prop[v] \in Props /\ (prop[v] = block => adj[v] = <<>>)
  BY <1>4, Kinds
<1> HIDE DEF new
<1>11. /\ GoodTree(grow(u, 1, adj, par, prop))
       /\ grow(u, 1, adj, par, prop).bbs = u.bbs \cup {v \in new : prop[v] = block}
  <2>1. FreshBelow(u, 1, bb, new, adj, par, prop)
    BY <1>2, <1>5, <1>4, <1>6, <1>7, <1>8, <1>9, <1>10 DEF FreshBelow
  <2> QED
    BY <1>2, <2>1, GrowGood
<1> QED
  BY <1>1, <1>2, <1>4, <1>11 DEF new

\* Turning a block into an if, switch or region with its branches keeps the tree.
LEMMA BranchesGood ==
  ASSUME NEW t, GoodTree(t), NEW bb \in t.bbs, NEW cat \in BranchingCats, NEW c \in Nat \ {0}
  PROVE  /\ GoodTree(make_branches(t, bb, cat, c))
         /\ t.bbs \ {bb} \subseteq make_branches(t, bb, cat, c).bbs
<1> DEFINE kind == plain(cat)
           u == turn_block(t, bb, kind)
           n == t.size
           new == n..(n + 2 * c - 1)
           inner(v) == v < n + c
           body(v) == 2 * n + 2 * c - 1 - v
           row == [i \in 1..c |-> IF i = 1 THEN n ELSE n + c + 1 - i]
           adj == [v \in 0..(n + 2 * c - 1) |->
                     IF v = bb THEN row
                     ELSE IF v < n THEN t.adj[v]
                     ELSE IF inner(v) THEN <<body(v)>> ELSE <<>>]
           par == [v \in new |-> IF inner(v) THEN bb ELSE body(v)]
           prop == [v \in new |-> IF inner(v) THEN branching ELSE block]
<1>1. make_branches(t, bb, cat, c) = grow(u, 2 * c, adj, par, prop)
  BY DEF make_branches
<1>2. kind \in Props \ {block}
  BY Kinds
<1>3. /\ GoodTree(u) /\ u.size = n /\ u.adj = t.adj /\ u.bbs = t.bbs \ {bb}
      /\ n \in Nat \ {0} /\ Vertices(u) = 0..(n - 1)
      /\ bb \in Vertices(u) /\ u.adj[bb] = <<>> /\ u.desc[bb] # block
  <2> HIDE DEF kind
  <2> QED BY <1>2, TurnReady
<1> HIDE DEF u, kind
<1>4. /\ adj[bb] = row
      /\ \A v \in Vertices(u) \ {bb} : adj[v] = u.adj[v]
      /\ \A v \in new : inner(v) => /\ adj[v] = <<body(v)>> /\ par[v] = bb
                                    /\ prop[v] = branching
      /\ \A v \in new : ~inner(v) => /\ adj[v] = <<>> /\ par[v] = body(v)
                                     /\ prop[v] = block
  BY <1>3
<1>5. /\ row \in Seq(new) /\ DOMAIN row = 1..c
      /\ row[1] = n /\ \A i \in 2..c : row[i] = n + c + 1 - i
  <2>1. \A i \in 1..c : row[i] \in new
    BY <1>3
  <2> QED
    BY <1>3, <2>1
<1>6. /\ \A v \in new : body(v) \in new /\ body(body(v)) = v /\ (inner(v) <=> ~inner(body(v)))
      /\ \A v \in new : ~inner(v) => body(v) < v
      /\ bb < n /\ \A v \in new : v >= n /\ v \in Int
      /\ 2 * c \in Nat /\ new = u.size..(u.size + 2 * c - 1)
  BY <1>3
<1> HIDE DEF adj, par, prop, row
<1>7. \A v \in new \cup {bb} : adj[v] \in Seq(new)
  <2>1. \A v \in new : <<v>> \in Seq(new)
    <3> HIDE DEF new
    <3> QED OBVIOUS
  <2>2. <<>> \in Seq(new)
    OBVIOUS
  <2>3. adj[bb] \in Seq(new)
    BY <1>4, <1>5
  <2> HIDE DEF new, inner, body
  <2>4. ASSUME NEW v \in new
        PROVE  adj[v] \in Seq(new)
    <3>1. adj[v] = <<body(v)>> \/ adj[v] = <<>>
      BY <1>4
    <3> QED
      BY <1>6, <2>1, <2>2, <3>1
  <2> QED
    BY <2>3, <2>4
<1>8. \A i \in 1..c : row[i] \in new /\ inner(row[i])
  <2>1. row[1] = n /\ n \in new /\ inner(n)
    BY <1>3, <1>5
  <2>2. ASSUME NEW i \in 2..c
        PROVE  row[i] \in new /\ inner(row[i])
    <3>1. row[i] = n + c + 1 - i
      BY <1>5
    <3> QED
      BY <1>3, <3>1
  <2> QED
    BY <2>1, <2>2
<1>9. \A v \in new \cup {bb} : \A i \in DOMAIN adj[v] : par[adj[v][i]] = v
  <2> HIDE DEF new, inner, body
  <2> QED
    BY <1>4, <1>5, <1>6, <1>8
<1>10. \A v \in new \cup {bb} : \A i, j \in DOMAIN adj[v] : adj[v][i] = adj[v][j] => i = j
  <2>1. \A i, j \in 1..c : row[i] = row[j] => i = j
    <3> SUFFICES ASSUME NEW i \in 1..c, NEW j \in 1..c, row[i] = row[j]
                 PROVE  i = j
      OBVIOUS
    <3>1. (i = 1 /\ row[i] = n) \/ (i \in 2..c /\ row[i] = n + c + 1 - i)
      BY <1>5
    <3>2. (j = 1 /\ row[j] = n) \/ (j \in 2..c /\ row[j] = n + c + 1 - j)
      BY <1>5
    <3> QED
      BY <1>3, <3>1, <3>2
  <2> HIDE DEF new, inner, body
  <2> QED
    BY <1>4, <1>5, <2>1
<1>11. \A v \in new : /\ par[v] \in (new \cup {bb}) /\ par[v] < v
                      /\ \E i \in DOMAIN adj[par[v]] : adj[par[v]][i] = v
  <2> SUFFICES ASSUME NEW v \in new
               PROVE  /\ par[v] \in (new \cup {bb}) /\ par[v] < v
                      /\ \E i \in DOMAIN adj[par[v]] : adj[par[v]][i] = v
    OBVIOUS
  <2>1. CASE inner(v)
    <3>1. par[v] = bb /\ bb < v
      BY <1>3, <1>4, <1>6, <2>1
    <3>2. \E i \in 1..c : row[i] = v
      <4>1. CASE v = n
        BY <1>5, <4>1
      <4>2. CASE v # n
        <5>1. n + c + 1 - v \in 2..c /\ n + c + 1 - (n + c + 1 - v) = v
          BY <1>3, <2>1, <4>2
        <5> QED
          BY <1>5, <5>1
      <4> QED
        BY <4>1, <4>2
    <3> QED
      BY <1>4, <1>5, <3>1, <3>2
  <2>2. CASE ~inner(v)
    <3> HIDE DEF new, inner, body
    <3>1. par[v] = body(v) /\ body(v) \in new /\ body(v) < v /\ adj[body(v)] = <<v>>
      BY <1>4, <1>6, <2>2
    <3> QED
      BY <3>1
  <2> QED
    BY <2>1, <2>2
<1>12. \A v \in new : prop[v] \in Props /\ (prop[v] = block => adj[v] = <<>>)
  <2> HIDE DEF new, inner, body
  <2> QED BY <1>4, Kinds
<1> HIDE DEF new, inner, body
<1>13. FreshBelow(u, 2 * c, bb, new, adj, par, prop)
  BY <1>3, <1>6, <1>4, <1>7, <1>9, <1>10, <1>11, <1>12 DEF FreshBelow
<1>14. /\ GoodTree(grow(u, 2 * c, adj, par, prop))
       /\ grow(u, 2 * c, adj, par, prop).bbs = u.bbs \cup {v \in new : prop[v] = block}
  BY <1>3, <1>13, GrowGood
<1> QED
  BY <1>1, <1>3, <1>14

\* What is split is a block, and if siblings were added, another block remains.
LEMMA TargetIsBlock ==
  ASSUME NEW t, GoodTree(t), NEW bb \in t.bbs, NEW k \in Nat, NEW v \in split_targets(t, bb, k)
  PROVE  /\ v \in add_siblings(t, bb, k).bbs
         /\ k > 0 => add_siblings(t, bb, k).bbs \ {v} # {}
<1>1. add_siblings(t, bb, k).bbs = t.bbs \cup (t.size..(t.size + k - 1))
  BY SiblingsGood
<1>2. t.size \in Nat /\ bb \in 0..(t.size - 1)
  BY DEF GoodTree, TreeType, Vertices
<1>3. v = bb \/ v \in t.size..(t.size + k - 2)
  BY <1>2 DEF split_targets
<1>4. k > 0 => t.size + k - 1 \in t.size..(t.size + k - 1) /\ t.size + k - 1 # v
  BY <1>2, <1>3
<1> QED
  BY <1>1, <1>2, <1>3, <1>4

\* Whatever the block is turned into, the tree is good and the other blocks stay.
LEMMA TurnedGood ==
  ASSUME NEW t, GoodTree(t), NEW bb \in t.bbs, NEW callees \in 0..MaxCallees,
         NEW r \in add_container(t, bb) \cup add_special(t, bb, callees)
  PROVE  GoodTree(r) /\ t.bbs \ {bb} \subseteq r.bbs
<1>1. CASE r = make_loop(t, bb)
  BY <1>1, LoopGood
<1>2. CASE \E cat \in BranchingCats, c \in IfBranches : r = make_branches(t, bb, cat, c)
  BY <1>2, BranchesGood, BlocksAssumption
<1>3. ASSUME NEW prop \in Props \ {block}, r = turn_block(t, bb, prop)
      PROVE  GoodTree(r) /\ t.bbs \ {bb} \subseteq r.bbs
  BY <1>3, TurnGood DEF turn_block
<1>4. CASE r \in {turn_block(t, bb, break(type)) : type \in BreakTypes}
  BY <1>3, <1>4, Kinds
<1>5. CASE r \in {turn_block(t, bb, call(type, g)) : type \in CallTypes, g \in 1..callees}
  <2>1. PICK type \in CallTypes, g \in 1..callees : r = turn_block(t, bb, call(type, g))
    BY <1>5
  <2>2. g \in 1..MaxCallees
    BY BoundsAssumption
  <2> QED
    BY <1>3, <2>1, <2>2, Kinds
<1>6. CASE r = t
  BY <1>6
<1> QED
  BY <1>1, <1>2, <1>4, <1>5, <1>6 DEF add_container, add_special, BreakTypes, CallTypes

\* A split keeps the tree and, unless CN::ADDBLOCKS is 0, leaves a block.
LEMMA SplitGood ==
  ASSUME cf \in Config, GoodTree(tree), NEW bb \in tree.bbs, do_split(bb)
  PROVE  GoodTree(tree') /\ (cf.addblocks = 0 \/ tree'.bbs # {})
<1> DEFINE k == cf.addblocks
           t == add_siblings(tree, bb, k)
<1>1. k \in Nat /\ cf.callees \in 0..MaxCallees
  BY BlocksAssumption DEF Config
<1>2. PICK v \in split_targets(tree, bb, k) :
        tree' \in add_container(t, v) \cup add_special(t, v, cf.callees)
  BY DEF do_split
<1>3. GoodTree(t)
  BY <1>1, SiblingsGood
<1>4. v \in t.bbs /\ (k > 0 => t.bbs \ {v} # {})
  BY <1>1, TargetIsBlock
<1> HIDE DEF t
<1>5. GoodTree(tree') /\ t.bbs \ {v} \subseteq tree'.bbs
  BY <1>1, <1>2, <1>3, <1>4, TurnedGood
<1> QED
  BY <1>1, <1>4, <1>5

-----------------------------------------------------------------------------
(* The invariant of the specification                                      *)

Inv ==
  /\ cf \in Config
  /\ splits \in 0..MaxSplits
  /\ phase \in {"split", "done", "fault"}
  /\ GoodTree(tree)
  /\ defs \subseteq Vertices(tree) /\ uses \subseteq Vertices(tree)
  /\ phase = "split" => defs = {} /\ uses = {}
  /\ cf.addblocks = 0 \/ tree.bbs # {}
  /\ phase = "fault" => cf.addblocks = 0 \/ ~cf.vars

\* The seeds satisfy the invariant.
LEMMA InitInv == Init => Inv
<1> SUFFICES ASSUME Init PROVE Inv
  OBVIOUS
<1>1. cf \in Config /\ cf.callees \in 0..MaxCallees /\ cf.splits \in 0..MaxSplits
  BY BoundsAssumption DEF Init, Config
<1>2. GoodTree(tree) /\ tree.bbs # {}
  BY <1>1, SeedsGood DEF Init
<1> QED
  BY <1>1, <1>2 DEF Init, Inv

\* Every step of process keeps the invariant.
LEMMA NextInv == Inv /\ [Next]_vars => Inv'
<1> SUFFICES ASSUME Inv, [Next]_vars PROVE Inv'
  OBVIOUS
<1>1. CASE split
  <2>1. PICK bb \in tree.bbs : do_split(bb)
    BY <1>1 DEF split
  <2>2. GoodTree(tree') /\ (cf.addblocks = 0 \/ tree'.bbs # {})
    BY <2>1, SplitGood DEF Inv
  <2>3. /\ cf' = cf /\ phase' = phase /\ phase = "split" /\ defs' = defs /\ uses' = uses
        /\ splits' \in 0..MaxSplits
    BY <1>1, BoundsAssumption DEF split, Inv
  <2> QED
    BY <2>2, <2>3 DEF Inv
<1>2. CASE split_no_block
  BY <1>2 DEF split_no_block, Inv
<1>3. CASE assign
  <2>1. GoodTree(tree) /\ assigned_vertices(tree) \subseteq Vertices(tree)
    BY DEF Inv, GoodTree, TreeType, assigned_vertices, Vertices
  <2>2. defs' \subseteq Vertices(tree') /\ uses' \subseteq Vertices(tree')
    BY <1>3, <2>1 DEF assign
  <2>3. /\ cf' = cf /\ tree' = tree /\ splits' = splits /\ phase' = "done"
    BY <1>3 DEF assign
  <2> QED
    BY <2>2, <2>3 DEF Inv
<1>4. CASE assign_no_variable
  BY <1>4 DEF assign_no_variable, Inv
<1>5. CASE UNCHANGED vars
  BY <1>5 DEF vars, Inv
<1> QED
  BY <1>1, <1>2, <1>3, <1>4, <1>5 DEF Next, Terminating

\* Inv is an invariant of the specification, for every value of the options.
THEOREM Invariance == Spec => []Inv
BY InitInv, NextInv, PTL DEF Spec

\* The invariant implies the type invariant and the others.
LEMMA InvImplies == Inv => TypeOK /\ TreeWellFormed /\ BlocksTracked /\ FaultsExplained
BY DEF Inv, GoodTree, TreeType, TypeOK, TreeWellFormed, Tracked, BlocksTracked, FaultsExplained

\* The state of split_tree_t keeps its types.
THEOREM TypeCorrect == Spec => []TypeOK
BY Invariance, InvImplies, PTL

\* adj_ and parent_of_ describe one tree, however many splits there are.
THEOREM TreeStaysATree == Spec => []TreeWellFormed
BY Invariance, InvImplies, PTL

\* bbs_ holds the blocks and nothing else: what do_split turns is a block.
THEOREM BlocksStayTracked == Spec => []BlocksTracked
BY Invariance, InvImplies, PTL

\* The choice of the block to split divides by zero only if CN::ADDBLOCKS is 0,
\* the choice of a variable only if the function has none.
THEOREM FaultsAreExplained == Spec => []FaultsExplained
BY Invariance, InvImplies, PTL

-----------------------------------------------------------------------------
(* The two edits of a split                                                *)

\* What Shaped asks of one vertex and its children.
Fits(t, v) ==
  /\ t.desc[v].cat \in {"BLOCK", "CALL", "BREAK"} => t.adj[v] = <<>>
  /\ t.desc[v].cat \in {"LOOP", "BRANCHING"} => t.adj[v] # <<>>
  /\ is_branching(t.desc[v]) => t.adj[v] # <<>>
  /\ t.desc[v].cat = "IF" => Len(t.adj[v]) \in IfBranches

\* bb of t was turned into something in s, with fresh vertices below it.
Turned(t, s, bb) ==
  /\ Vertices(t) \subseteq Vertices(s)
  /\ \A v \in Vertices(t) : s.parent[v] = t.parent[v]
  /\ \A v \in Vertices(t) \ {bb} : s.desc[v] = t.desc[v] /\ s.adj[v] = t.adj[v]
  /\ s.desc[bb] # branching /\ s.desc[bb].type # "DIRECT"
  /\ \A v \in Vertices(s) \ Vertices(t) :
       /\ s.desc[v] \in {block, branching}
       /\ is_branching(s.desc[s.parent[v]]) <=> s.desc[v] = branching
  /\ \A v \in (Vertices(s) \ Vertices(t)) \cup {bb} : Fits(s, v)

\* Siblings of the vertex bb of t were added in s.
Widened(t, s, bb) ==
  LET p == t.parent[bb]
  IN  /\ p \in Vertices(t) /\ Vertices(t) \subseteq Vertices(s)
      /\ \A v \in Vertices(t) : s.parent[v] = t.parent[v] /\ s.desc[v] = t.desc[v]
      /\ \A v \in Vertices(t) \ {p} : s.adj[v] = t.adj[v]
      /\ \A v \in Vertices(s) \ Vertices(t) :
           s.parent[v] = p /\ s.desc[v] = block /\ s.adj[v] = <<>>
      /\ Embedded(t.adj[p], s.adj[p])

\* What there is to know of the block that is split.
LEMMA BlockParts ==
  ASSUME NEW t, GoodTree(t), NEW bb \in t.bbs
  PROVE  /\ bb \in Vertices(t) /\ bb # PSEUDO_VERTEX /\ t.desc[bb] = block /\ t.adj[bb] = <<>>
         /\ t.size \in Nat \ {0} /\ Vertices(t) = 0..(t.size - 1)
         /\ t.parent[bb] \in Vertices(t)
         /\ \A v \in Vertices(t) \ {PSEUDO_VERTEX} :
              t.parent[v] \in Vertices(t) /\ t.parent[v] # bb
         /\ t.desc[t.parent[bb]] # block
<1>1. TreeType(t) /\ WellFormed(t) /\ Tracked(t) /\ BlocksBare(t)
  BY DEF GoodTree
<1>2. bb \in Vertices(t) /\ bb # PSEUDO_VERTEX /\ t.desc[bb] = block /\ t.adj[bb] = <<>>
  BY <1>1 DEF TreeType, Tracked, BlocksBare
<1>3. t.size \in Nat \ {0} /\ Vertices(t) = 0..(t.size - 1)
  BY <1>1 DEF TreeType, Vertices
<1>4. ASSUME NEW v \in Vertices(t) \ {PSEUDO_VERTEX}
      PROVE  /\ t.parent[v] \in Vertices(t)
             /\ \E i \in DOMAIN t.adj[t.parent[v]] : t.adj[t.parent[v]][i] = v
  BY <1>1, <1>3 DEF WellFormed, PSEUDO_VERTEX
<1>5. \A v \in Vertices(t) \ {PSEUDO_VERTEX} : t.parent[v] # bb
  BY <1>2, <1>4
<1>6. t.desc[t.parent[bb]] # block
  BY <1>1, <1>2, <1>4 DEF BlocksBare
<1> QED
  BY <1>2, <1>3, <1>4, <1>5, <1>6

\* s is t with the fresh vertices new, as adj, par and prop describe them.
Extends(t, s, new, adj, par, prop) ==
  /\ Vertices(s) = Vertices(t) \cup new /\ Vertices(t) \cap new = {}
  /\ \A v \in Vertices(s) : s.adj[v] = adj[v]
  /\ \A v \in new : s.parent[v] = par[v] /\ s.desc[v] = prop[v]
  /\ \A v \in Vertices(t) : s.parent[v] = t.parent[v] /\ s.desc[v] = t.desc[v]

\* What grow builds, vertex by vertex.
LEMMA GrowExtends ==
  ASSUME NEW t, TreeType(t), NEW m, m \in Nat, NEW adj, NEW par, NEW prop
  PROVE  Extends(t, grow(t, m, adj, par, prop), t.size..(t.size + m - 1), adj, par, prop)
<1> DEFINE s == grow(t, m, adj, par, prop)
           new == t.size..(t.size + m - 1)
<1>1. /\ Vertices(s) = Vertices(t) \cup new /\ Vertices(t) \cap new = {}
      /\ s.adj = [v \in Vertices(s) |-> adj[v]]
      /\ s.parent = [v \in Vertices(s) |-> IF v \in new THEN par[v] ELSE t.parent[v]]
      /\ s.desc = [v \in Vertices(s) |-> IF v \in new THEN prop[v] ELSE t.desc[v]]
  BY GrowParts
<1> HIDE DEF s, new
<1>2. Extends(t, s, new, adj, par, prop)
  BY <1>1 DEF Extends
<1> QED
  BY <1>2 DEF s, new

\* A block turned into a break or a call that is not direct has nothing below it.
LEMMA SpecialTurned ==
  ASSUME NEW t, GoodTree(t), NEW bb \in t.bbs, NEW prop,
         prop.cat \in {"CALL", "BREAK"}, prop.type # "DIRECT"
  PROVE  Turned(t, turn_block(t, bb, prop), bb)
<1> DEFINE s == turn_block(t, bb, prop)
<1>1. /\ s.adj = t.adj /\ s.parent = t.parent /\ Vertices(s) = Vertices(t)
      /\ s.desc = [t.desc EXCEPT ![bb] = prop]
  BY DEF turn_block, Vertices
<1>2. bb \in Vertices(t) /\ t.adj[bb] = <<>> /\ t.desc \in [Vertices(t) -> Props]
  BY BlockParts DEF GoodTree, TreeType
<1>3. s.desc[bb] = prop /\ \A v \in Vertices(t) \ {bb} : s.desc[v] = t.desc[v]
  BY <1>1, <1>2
<1> HIDE DEF s
<1>4. prop # branching
  BY DEF branching, plain, vprop
<1>5. Fits(s, bb)
  BY <1>1, <1>2, <1>3 DEF Fits, is_branching, BranchingCats
<1> QED
  BY <1>1, <1>3, <1>4, <1>5 DEF Turned, s

\* A loop has one block as its body.
LEMMA LoopTurned ==
  ASSUME NEW t, GoodTree(t), NEW bb \in t.bbs
  PROVE  Turned(t, make_loop(t, bb), bb)
<1> DEFINE n == t.size
           u == turn_block(t, bb, loop)
           adj == [v \in 0..n |-> IF v = bb THEN <<n>> ELSE IF v = n THEN <<>> ELSE t.adj[v]]
           par == [v \in {n} |-> bb]
           prop == [v \in {n} |-> block]
           s == make_loop(t, bb)
<1>1. /\ bb \in Vertices(t) /\ n \in Nat \ {0} /\ Vertices(t) = 0..(n - 1)
      /\ t.desc \in [Vertices(t) -> Props]
  BY BlockParts DEF GoodTree, TreeType
<1>2. TreeType(u) /\ u.size = n /\ u.parent = t.parent /\ u.desc = [t.desc EXCEPT ![bb] = loop]
  BY TurnGood, Kinds DEF turn_block, GoodTree
<1>3. s = grow(u, 1, adj, par, prop)
  BY DEF make_loop
<1>4. Vertices(u) = 0..(n - 1) /\ u.size..(u.size + 1 - 1) = {n}
  BY <1>1, <1>2 DEF Vertices
<1> HIDE DEF u, adj, par, prop, s
<1>5. Extends(u, s, {n}, adj, par, prop)
  <2>1. 1 \in Nat
    OBVIOUS
  <2>2. Extends(u, grow(u, 1, adj, par, prop), u.size..(u.size + 1 - 1), adj, par, prop)
    BY <1>2, <2>1, GrowExtends
  <2> QED
    BY <1>3, <1>4, <2>2
<1>6. /\ Vertices(s) = 0..n /\ Vertices(s) \ Vertices(t) = {n}
      /\ \A v \in Vertices(t) : s.parent[v] = t.parent[v]
      /\ \A v \in Vertices(t) \ {bb} : s.desc[v] = t.desc[v] /\ s.adj[v] = t.adj[v]
      /\ s.desc[bb] = loop /\ s.adj[bb] = <<n>>
      /\ s.desc[n] = block /\ s.adj[n] = <<>> /\ s.parent[n] = bb
  <2>1. /\ adj[bb] = <<n>> /\ adj[n] = <<>> /\ par[n] = bb /\ prop[n] = block
        /\ \A v \in Vertices(t) \ {bb} : adj[v] = t.adj[v]
    BY <1>1 DEF adj, par, prop
  <2>2. Vertices(s) = 0..n /\ Vertices(s) \ Vertices(t) = {n} /\ Vertices(t) = Vertices(u)
    BY <1>1, <1>4, <1>5 DEF Extends
  <2> QED
    BY <1>1, <1>2, <1>5, <2>1, <2>2 DEF Extends
<1>7. loop # branching /\ loop.type # "DIRECT" /\ block # branching /\ ~is_branching(loop)
  BY DEF loop, block, branching, plain, vprop, is_branching, BranchingCats
<1>8. Fits(s, bb) /\ Fits(s, n)
  BY <1>6 DEF Fits, loop, block, plain, vprop, is_branching, BranchingCats
<1> QED
  BY <1>1, <1>6, <1>7, <1>8 DEF Turned, s

\* An if, switch or region has branchings for children, and each a block.
LEMMA BranchesTurned ==
  ASSUME NEW t, GoodTree(t), NEW bb \in t.bbs, NEW cat \in BranchingCats, NEW c \in IfBranches
  PROVE  Turned(t, make_branches(t, bb, cat, c), bb)
<1> DEFINE n == t.size
           m == 2 * c
           new == n..(n + 2 * c - 1)
           kind == plain(cat)
           u == turn_block(t, bb, kind)
           inner(v) == v < n + c
           body(v) == 2 * n + 2 * c - 1 - v
           row == [i \in 1..c |-> IF i = 1 THEN n ELSE n + c + 1 - i]
           adj == [v \in 0..(n + 2 * c - 1) |->
                     IF v = bb THEN row
                     ELSE IF v < n THEN t.adj[v]
                     ELSE IF inner(v) THEN <<body(v)>> ELSE <<>>]
           par == [v \in new |-> IF inner(v) THEN bb ELSE body(v)]
           prop == [v \in new |-> IF inner(v) THEN branching ELSE block]
           s == make_branches(t, bb, cat, c)
<1>0. c \in Nat \ {0}
  BY BlocksAssumption
<1>1. /\ bb \in Vertices(t) /\ n \in Nat \ {0} /\ Vertices(t) = 0..(n - 1)
      /\ t.desc \in [Vertices(t) -> Props]
  BY BlockParts DEF GoodTree, TreeType
<1>2. TreeType(u) /\ u.size = n /\ u.parent = t.parent /\ u.desc = [t.desc EXCEPT ![bb] = kind]
  BY TurnGood, Kinds DEF turn_block, GoodTree
<1>3. s = grow(u, m, adj, par, prop)
  BY DEF make_branches
<1>4. /\ Vertices(u) = 0..(n - 1) /\ u.size..(u.size + m - 1) = new /\ m \in Nat
      /\ Vertices(u) \cup new = 0..(n + 2 * c - 1)
  BY <1>0, <1>1, <1>2 DEF Vertices
<1>5. /\ \A v \in new : body(v) \in new /\ (inner(v) <=> ~inner(body(v)))
      /\ \A v \in new : v # bb /\ ~(v < n)
      /\ \A v \in Vertices(t) : v < n
  BY <1>0, <1>1
<1>6. Len(row) = c /\ row # <<>>
  BY <1>0
<1> HIDE DEF u, m, row, body, inner
<1>7. /\ adj[bb] = row
      /\ \A v \in Vertices(t) \ {bb} : adj[v] = t.adj[v]
      /\ \A v \in new : adj[v] = IF inner(v) THEN <<body(v)>> ELSE <<>>
  BY <1>0, <1>1, <1>5
<1> HIDE DEF adj, s, new
<1>8. Extends(u, s, new, adj, par, prop)
  <2> HIDE DEF par, prop
  <2>1. Extends(u, grow(u, m, adj, par, prop), u.size..(u.size + m - 1), adj, par, prop)
    BY <1>2, <1>4, GrowExtends
  <2> QED
    BY <1>3, <1>4, <2>1
<1>9. /\ Vertices(t) \subseteq Vertices(s) /\ Vertices(s) \ Vertices(t) = new
      /\ \A v \in Vertices(t) : s.parent[v] = t.parent[v]
      /\ \A v \in Vertices(t) \ {bb} : s.desc[v] = t.desc[v] /\ s.adj[v] = t.adj[v]
      /\ s.desc[bb] = kind /\ s.adj[bb] = row
      /\ \A v \in new :
           IF inner(v) THEN s.desc[v] = branching /\ s.parent[v] = bb /\ s.adj[v] = <<body(v)>>
           ELSE s.desc[v] = block /\ s.parent[v] = body(v) /\ s.adj[v] = <<>>
  <2>1. Vertices(u) = Vertices(t)
    BY <1>1, <1>4
  <2> HIDE DEF kind, n, inner, body
  <2>2. Vertices(t) \subseteq Vertices(s) /\ Vertices(s) \ Vertices(t) = new
    BY <1>8, <2>1 DEF Extends
  <2>3. /\ \A v \in Vertices(t) : s.parent[v] = t.parent[v]
        /\ \A v \in Vertices(t) \ {bb} : s.desc[v] = t.desc[v]
        /\ s.desc[bb] = kind
    BY <1>1, <1>2, <1>8, <2>1 DEF Extends
  <2>4. s.adj[bb] = row /\ \A v \in Vertices(t) \ {bb} : s.adj[v] = t.adj[v]
    BY <1>1, <1>7, <1>8, <2>2 DEF Extends
  <2>5. ASSUME NEW v \in new
        PROVE  IF inner(v) THEN s.desc[v] = branching /\ s.parent[v] = bb /\ s.adj[v] = <<body(v)>>
               ELSE s.desc[v] = block /\ s.parent[v] = body(v) /\ s.adj[v] = <<>>
    BY <1>7, <1>8, <2>2 DEF Extends
  <2> QED
    BY <2>2, <2>3, <2>4, <2>5
<1>10. /\ kind.cat = cat /\ kind.type = "none" /\ kind # branching /\ is_branching(kind)
       /\ block # branching /\ ~is_branching(branching)
       /\ branching.cat = "BRANCHING" /\ block.cat = "BLOCK"
  BY DEF block, branching, plain, vprop, is_branching, BranchingCats
<1> HIDE DEF kind
<1>11. ASSUME NEW v \in new
       PROVE  /\ s.desc[v] \in {block, branching}
              /\ is_branching(s.desc[s.parent[v]]) <=> s.desc[v] = branching
              /\ Fits(s, v)
  <2>1. CASE inner(v)
    <3>1. s.desc[v] = branching /\ s.parent[v] = bb /\ s.adj[v] = <<body(v)>>
      BY <1>9, <2>1
    <3> QED  BY <1>9, <1>10, <3>1 DEF Fits
  <2>2. CASE ~inner(v)
    <3>1. s.desc[v] = block /\ s.parent[v] = body(v) /\ s.adj[v] = <<>>
      BY <1>9, <2>2
    <3>2. s.desc[body(v)] = branching  BY <1>5, <1>9, <2>2
    <3>3. ~is_branching(block)  BY <1>10 DEF is_branching, BranchingCats
    <3> QED  BY <1>10, <3>1, <3>2, <3>3 DEF Fits
  <2> QED  BY <2>1, <2>2
<1>12. Fits(s, bb)
  BY <1>6, <1>9, <1>10 DEF Fits, BranchingCats
<1> QED
  BY <1>9, <1>10, <1>11, <1>12 DEF Turned, s

\* The siblings follow the block in the list of its parent, the rest stays in order.
LEMMA SiblingsWidened ==
  ASSUME NEW t, GoodTree(t), NEW bb \in t.bbs, NEW k \in Nat
  PROVE  Widened(t, add_siblings(t, bb, k), bb)
<1> DEFINE n == t.size
           new == n..(n + k - 1)
           p == t.parent[bb]
           pos == CHOOSE i \in DOMAIN t.adj[p] : t.adj[p][i] = bb
           fresh == [i \in 1..k |-> n + i - 1]
           list == insert_after(t.adj[p], pos, fresh)
           adj == [v \in 0..(n + k - 1) |->
                     IF v = p THEN list ELSE IF v \in new THEN <<>> ELSE t.adj[v]]
           par == [v \in new |-> p]
           prop == [v \in new |-> block]
           s == add_siblings(t, bb, k)
<1>1. /\ n \in Nat \ {0} /\ Vertices(t) = 0..(n - 1)
      /\ bb \in Vertices(t) /\ bb # PSEUDO_VERTEX /\ p \in Vertices(t)
  BY BlockParts
<1>2. TreeType(t) /\ t.adj[p] \in Seq(Vertices(t))
  BY <1>1 DEF GoodTree, TreeType
<1>3. pos \in 1..Len(t.adj[p])
  <2>1. \E i \in DOMAIN t.adj[p] : t.adj[p][i] = bb
    BY <1>1 DEF GoodTree, WellFormed
  <2>2. DOMAIN t.adj[p] = 1..Len(t.adj[p])
    BY <1>2
  <2> QED
    BY <2>1, <2>2
<1>4. s = grow(t, k, adj, par, prop)
  BY DEF add_siblings
<1> HIDE DEF pos, s, p
<1>5. GoodTree(s) /\ s.size = n + k
  BY SiblingsGood DEF s
<1>6. Extends(t, s, new, adj, par, prop)
  <2> HIDE DEF adj, par, prop
  <2>1. Extends(t, grow(t, k, adj, par, prop), t.size..(t.size + k - 1), adj, par, prop)
    BY <1>2, GrowExtends
  <2> QED
    BY <1>4, <2>1
<1>7. /\ adj[p] = list
      /\ \A v \in Vertices(t) \ {p} : adj[v] = t.adj[v]
      /\ \A v \in new : adj[v] = <<>> /\ par[v] = p /\ prop[v] = block
  <2> HIDE DEF list
  <2> QED
    BY <1>1
<1>8. /\ Len(list) = Len(t.adj[p]) + k
      /\ \A j \in 1..pos : list[j] = t.adj[p][j]
      /\ \A j \in (pos + k + 1)..Len(list) : list[j] = t.adj[p][j - k]
  <2>1. fresh \in Seq(new) /\ Len(fresh) = k /\ new \subseteq Vertices(s)
    BY <1>1, <1>6 DEF Extends
  <2>2. Vertices(t) \subseteq Vertices(s)
    BY <1>6 DEF Extends
  <2> HIDE DEF fresh
  <2>3. t.adj[p] \in Seq(Vertices(s)) /\ fresh \in Seq(Vertices(s))
    BY <1>2, <2>1, <2>2, SeqLarger
  <2>4. /\ list \in Seq(Vertices(s))
        /\ Len(list) = Len(t.adj[p]) + Len(fresh)
        /\ \A j \in 1..pos : list[j] = t.adj[p][j]
        /\ \A j \in (pos + Len(fresh) + 1)..Len(list) : list[j] = t.adj[p][j - Len(fresh)]
    BY <1>3, <2>3, InsertAfter
  <2> QED
    BY <2>1, <2>4
<1> HIDE DEF fresh, list, adj, par, prop, new
<1>9. /\ Vertices(t) \subseteq Vertices(s)
      /\ \A v \in Vertices(t) : s.parent[v] = t.parent[v] /\ s.desc[v] = t.desc[v]
      /\ \A v \in Vertices(t) \ {p} : s.adj[v] = t.adj[v]
      /\ \A v \in Vertices(s) \ Vertices(t) :
           s.parent[v] = p /\ s.desc[v] = block /\ s.adj[v] = <<>>
      /\ s.adj[p] = list
  BY <1>1, <1>6, <1>7 DEF Extends
<1>11. ASSUME NEW j \in DOMAIN t.adj[p], NEW i \in 1..j
       PROVE  \E x \in i..Len(list) :
                list[x] = t.adj[p][i] /\ \E y \in (x + j - i)..Len(list) : list[y] = t.adj[p][j]
  <2> DEFINE at(a) == IF a <= pos THEN a ELSE a + k
  <2>1. j \in 1..Len(t.adj[p]) /\ i \in Int /\ i <= j /\ Len(t.adj[p]) \in Nat
    BY <1>2
  <2>2. \A a \in 1..Len(t.adj[p]) : at(a) \in a..Len(list) /\ list[at(a)] = t.adj[p][a]
    <3> TAKE a \in 1..Len(t.adj[p])
    <3>1. CASE a <= pos
      BY <1>3, <1>8, <2>1, <3>1
    <3>2. CASE ~(a <= pos)
      <4>1. a + k \in (pos + k + 1)..Len(list) /\ a + k - k = a
        BY <1>3, <1>8, <2>1, <3>2
      <4> QED
        BY <1>8, <3>2, <4>1
    <3> QED
      BY <3>1, <3>2
  <2>3. at(j) >= at(i) + j - i
    BY <1>3, <2>1
  <2>4. at(i) \in Int /\ at(j) \in Int /\ i \in 1..Len(t.adj[p])
    BY <1>3, <2>1
  <2> HIDE DEF at
  <2>5. at(i) \in i..Len(list) /\ list[at(i)] = t.adj[p][i]
    BY <2>2, <2>4
  <2>6. at(j) \in (at(i) + j - i)..Len(list) /\ list[at(j)] = t.adj[p][j]
    <3>1. at(j) \in j..Len(list) /\ list[at(j)] = t.adj[p][j]
      BY <2>1, <2>2
    <3>2. Len(list) \in Nat
      BY <1>8, <2>1
    <3> QED
      BY <2>1, <2>3, <2>4, <3>1, <3>2
  <2> QED
    BY <2>5, <2>6
<1> QED
  BY <1>1, <1>9, <1>11 DEF Widened, Embedded, p, s

-----------------------------------------------------------------------------
(* What an edit keeps                                                      *)

\* Nothing becomes a direct call.
NoNewDirect(t, s) ==
  \A v \in Vertices(s) : s.desc[v].type = "DIRECT" => v \in Vertices(t) /\ t.desc[v].type = "DIRECT"

Kept(t, s) == Grown(t, s) /\ NoNewDirect(t, s) /\ (Shaped(t) => Shaped(s))

\* Shaped is Fits of every vertex and a condition on the parents.
LEMMA ShapedFits ==
  ASSUME NEW t
  PROVE  Shaped(t) <=> /\ \A v \in Vertices(t) : Fits(t, v)
                       /\ \A v \in Vertices(t) \ {PSEUDO_VERTEX} :
                            is_branching(t.desc[t.parent[v]]) <=> t.desc[v] = branching
BY DEF Shaped, Fits

\* A sequence is embedded in itself.
LEMMA EmbeddedSelf ==
  ASSUME NEW S, NEW l \in Seq(S)
  PROVE  Embedded(l, l)
<1> SUFFICES ASSUME NEW j \in DOMAIN l, NEW i \in 1..j
             PROVE  \E x \in i..Len(l) : l[x] = l[i] /\ \E y \in (x + j - i)..Len(l) : l[y] = l[j]
  BY DEF Embedded
<1>1. j \in 1..Len(l) /\ i \in Int /\ i <= j /\ Len(l) \in Nat
  OBVIOUS
<1>2. i \in i..Len(l) /\ j \in (i + j - i)..Len(l)
  BY <1>1
<1> QED
  BY <1>2

\* Types of the properties that an edit gives.
LEMMA NotDirect ==
  /\ block.type # "DIRECT" /\ branching.type # "DIRECT" /\ block # branching
  /\ ~is_branching(block) /\ block.cat = "BLOCK"
BY DEF block, branching, plain, vprop, is_branching, BranchingCats

\* Turning a block keeps the tree.
LEMMA TurnedKeeps ==
  ASSUME NEW t, GoodTree(t), NEW bb \in t.bbs, NEW s, Turned(t, s, bb)
  PROVE  Kept(t, s)
<1>1. /\ bb \in Vertices(t) /\ t.desc[bb] = block /\ t.adj[bb] = <<>>
      /\ \A v \in Vertices(t) \ {PSEUDO_VERTEX} : t.parent[v] \in Vertices(t) /\ t.parent[v] # bb
  BY BlockParts
<1>2. Grown(t, s)
  <2> SUFFICES ASSUME NEW v \in Vertices(t)
               PROVE  /\ v \in Vertices(s) /\ s.parent[v] = t.parent[v]
                      /\ t.desc[v] # block => s.desc[v] = t.desc[v]
                      /\ Embedded(t.adj[v], s.adj[v])
    BY DEF Grown
  <2>1. /\ v \in Vertices(s) /\ s.parent[v] = t.parent[v]
        /\ t.desc[v] # block => s.desc[v] = t.desc[v]
    BY <1>1 DEF Turned
  <2>2. CASE v = bb
    BY <1>1, <2>1, <2>2 DEF Embedded
  <2>3. CASE v # bb
    <3>1. s.adj[v] = t.adj[v]
      BY <2>3 DEF Turned
    <3>2. t.adj[v] \in Seq(Vertices(t))
      BY DEF GoodTree, TreeType
    <3> QED
      BY <2>1, <3>1, <3>2, EmbeddedSelf
  <2> QED
    BY <2>2, <2>3
<1>3. NoNewDirect(t, s)
  BY <1>1, NotDirect DEF Turned, NoNewDirect
<1>4. ASSUME Shaped(t)
      PROVE  Shaped(s)
  <2>1. ASSUME NEW v \in Vertices(s)
        PROVE  Fits(s, v)
    <3>1. CASE v \in Vertices(t) \ {bb}
      <4>1. Fits(t, v)
        BY <1>4, <3>1, ShapedFits
      <4>2. s.desc[v] = t.desc[v] /\ s.adj[v] = t.adj[v]
        BY <3>1 DEF Turned
      <4> QED
        BY <4>1, <4>2 DEF Fits
    <3>2. CASE v \notin Vertices(t) \ {bb}
      BY <3>2 DEF Turned
    <3> QED
      BY <3>1, <3>2
  <2>2. ASSUME NEW v \in Vertices(s) \ {PSEUDO_VERTEX}
        PROVE  is_branching(s.desc[s.parent[v]]) <=> s.desc[v] = branching
    <3>1. CASE v \in Vertices(t)
      <4>1. is_branching(t.desc[t.parent[v]]) <=> t.desc[v] = branching
        BY <1>4, <3>1, ShapedFits
      <4>2. s.parent[v] = t.parent[v] /\ s.desc[t.parent[v]] = t.desc[t.parent[v]]
        BY <1>1, <3>1 DEF Turned
      <4>3. s.desc[v] = branching <=> t.desc[v] = branching
        BY <1>1, <3>1, NotDirect DEF Turned
      <4> QED
        BY <4>1, <4>2, <4>3
    <3>2. CASE v \notin Vertices(t)
      BY <3>2 DEF Turned
    <3> QED
      BY <3>1, <3>2
  <2> QED
    BY <2>1, <2>2, ShapedFits
<1> QED
  BY <1>2, <1>3, <1>4 DEF Kept

\* Adding siblings keeps the tree: their parent may have any number of children.
LEMMA WidenedKeeps ==
  ASSUME NEW t, GoodTree(t), NEW bb \in t.bbs, NEW s, Widened(t, s, bb)
  PROVE  Kept(t, s)
<1> DEFINE p == t.parent[bb]
<1>1. /\ bb \in Vertices(t) /\ bb # PSEUDO_VERTEX /\ t.desc[bb] = block /\ p \in Vertices(t)
      /\ \A v \in Vertices(t) \ {PSEUDO_VERTEX} : t.parent[v] \in Vertices(t)
  BY BlockParts
<1>2. \E i \in DOMAIN t.adj[p] : t.adj[p][i] = bb
  BY <1>1 DEF GoodTree, WellFormed
<1>3. Grown(t, s)
  <2> SUFFICES ASSUME NEW v \in Vertices(t)
               PROVE  /\ v \in Vertices(s) /\ s.parent[v] = t.parent[v]
                      /\ t.desc[v] # block => s.desc[v] = t.desc[v]
                      /\ Embedded(t.adj[v], s.adj[v])
    BY DEF Grown
  <2>1. v \in Vertices(s) /\ s.parent[v] = t.parent[v] /\ s.desc[v] = t.desc[v]
    BY DEF Widened
  <2>2. CASE v = p
    BY <2>1, <2>2 DEF Widened
  <2>3. CASE v # p
    <3>1. s.adj[v] = t.adj[v]
      BY <2>3 DEF Widened
    <3>2. t.adj[v] \in Seq(Vertices(t))
      BY DEF GoodTree, TreeType
    <3> QED
      BY <2>1, <3>1, <3>2, EmbeddedSelf
  <2> QED
    BY <2>2, <2>3
<1>4. NoNewDirect(t, s)
  BY NotDirect DEF Widened, NoNewDirect
<1>5. ASSUME Shaped(t)
      PROVE  Shaped(s)
  <2>1. /\ \A v \in Vertices(t) : Fits(t, v)
        /\ \A v \in Vertices(t) \ {PSEUDO_VERTEX} :
             is_branching(t.desc[t.parent[v]]) <=> t.desc[v] = branching
    BY <1>5, ShapedFits
  <2>2. ~is_branching(t.desc[p])
    BY <1>1, <2>1, NotDirect
  <2>3. t.desc[p].cat \notin {"BLOCK", "CALL", "BREAK"}
    <3>1. t.adj[p] # <<>>
      BY <1>2
    <3> QED
      BY <1>1, <2>1, <3>1 DEF Fits
  <2>4. s.adj[p] # <<>>
    <3>1. t.adj[p] \in Seq(Vertices(t))
      BY <1>1 DEF GoodTree, TreeType
    <3>2. PICK i \in 1..Len(t.adj[p]) : t.adj[p][i] = bb
      BY <1>2, <3>1
    <3>3. i \in DOMAIN t.adj[p] /\ i \in 1..i
      BY <3>1, <3>2
    <3>4. \E x \in i..Len(s.adj[p]) : s.adj[p][x] = bb
      <4>1. Embedded(t.adj[p], s.adj[p])
        BY DEF Widened
      <4> HIDE DEF p
      <4>2. \E x \in i..Len(s.adj[p]) : s.adj[p][x] = t.adj[p][i]
        BY <3>3, <4>1 DEF Embedded
      <4> QED
        BY <3>2, <4>2
    <3>5. Len(<<>>) = 0
      OBVIOUS
    <3> QED
      BY <3>2, <3>4, <3>5
  <2>5. ASSUME NEW v \in Vertices(s)
        PROVE  Fits(s, v)
    <3>1. CASE v \in Vertices(t) \ {p}
      <4>1. s.desc[v] = t.desc[v] /\ s.adj[v] = t.adj[v]
        BY <3>1 DEF Widened
      <4> QED
        BY <2>1, <3>1, <4>1 DEF Fits
    <3>2. CASE v = p
      <4>1. s.desc[v] = t.desc[p]
        BY <1>1, <3>2 DEF Widened
      <4> QED
        BY <2>2, <2>3, <2>4, <3>2, <4>1 DEF Fits, is_branching, BranchingCats
    <3>3. CASE v \notin Vertices(t)
      <4>1. s.desc[v] = block /\ s.adj[v] = <<>>
        BY <3>3 DEF Widened
      <4> QED
        BY <4>1, NotDirect DEF Fits
    <3> QED
      BY <3>1, <3>2, <3>3
  <2>6. ASSUME NEW v \in Vertices(s) \ {PSEUDO_VERTEX}
        PROVE  is_branching(s.desc[s.parent[v]]) <=> s.desc[v] = branching
    <3>1. CASE v \in Vertices(t)
      <4>1. s.parent[v] = t.parent[v] /\ s.desc[v] = t.desc[v]
            /\ s.desc[t.parent[v]] = t.desc[t.parent[v]]
        BY <1>1, <3>1 DEF Widened
      <4> QED
        BY <2>1, <3>1, <4>1
    <3>2. CASE v \notin Vertices(t)
      <4>1. s.parent[v] = p /\ s.desc[v] = block /\ s.desc[p] = t.desc[p]
        BY <1>1, <3>2 DEF Widened
      <4> QED
        BY <2>2, <4>1, NotDirect
    <3> QED
      BY <3>1, <3>2
  <2> QED
    BY <2>5, <2>6, ShapedFits
<1> QED
  BY <1>3, <1>4, <1>5 DEF Kept

-----------------------------------------------------------------------------
(* Splits                                                                  *)

\* What is embedded in an embedded sequence is embedded.
LEMMA EmbeddedTransitive ==
  ASSUME NEW A, NEW a \in Seq(A), NEW B, NEW b \in Seq(B), NEW C, NEW c \in Seq(C),
         Embedded(a, b), Embedded(b, c)
  PROVE  Embedded(a, c)
<1> SUFFICES ASSUME NEW j \in DOMAIN a, NEW i \in 1..j
             PROVE  \E x \in i..Len(c) : c[x] = a[i] /\ \E y \in (x + j - i)..Len(c) : c[y] = a[j]
  BY DEF Embedded
<1>1. j \in Int /\ i \in Int /\ 1 <= i /\ i <= j /\ Len(b) \in Nat /\ Len(c) \in Nat
      /\ DOMAIN b = 1..Len(b)
  OBVIOUS
<1>2. PICK x \in i..Len(b) : b[x] = a[i] /\ \E y \in (x + j - i)..Len(b) : b[y] = a[j]
  BY DEF Embedded
<1>3. PICK y \in (x + j - i)..Len(b) : b[y] = a[j]
  BY <1>2
<1>4. y \in DOMAIN b /\ x \in 1..y
  BY <1>1, <1>2, <1>3
<1>5. PICK z \in x..Len(c) : c[z] = b[x] /\ \E w \in (z + y - x)..Len(c) : c[w] = b[y]
  BY <1>4 DEF Embedded
<1>6. PICK w \in (z + y - x)..Len(c) : c[w] = b[y]
  BY <1>5
<1>7. z \in i..Len(c) /\ w \in (z + j - i)..Len(c)
  BY <1>1, <1>2, <1>3, <1>5, <1>6
<1> QED
  BY <1>2, <1>3, <1>5, <1>6, <1>7

\* A tree keeps itself.
LEMMA KeptSelf ==
  ASSUME NEW t, TreeType(t)
  PROVE  Kept(t, t)
<1>1. \A v \in Vertices(t) : Embedded(t.adj[v], t.adj[v])
  BY EmbeddedSelf DEF TreeType
<1> QED
  BY <1>1 DEF Kept, Grown, NoNewDirect

\* What two edits keep, both together keep.
LEMMA KeptTransitive ==
  ASSUME NEW t, TreeType(t), NEW u, TreeType(u), NEW s, TreeType(s), Kept(t, u), Kept(u, s)
  PROVE  Kept(t, s)
<1>1. ASSUME NEW v \in Vertices(t)
      PROVE  /\ v \in Vertices(s) /\ s.parent[v] = t.parent[v]
             /\ t.desc[v] # block => s.desc[v] = t.desc[v]
             /\ Embedded(t.adj[v], s.adj[v])
  <2>1. /\ v \in Vertices(u) /\ u.parent[v] = t.parent[v]
        /\ t.desc[v] # block => u.desc[v] = t.desc[v]
        /\ Embedded(t.adj[v], u.adj[v])
    BY DEF Kept, Grown
  <2>2. /\ v \in Vertices(s) /\ s.parent[v] = u.parent[v]
        /\ u.desc[v] # block => s.desc[v] = u.desc[v]
        /\ Embedded(u.adj[v], s.adj[v])
    BY <2>1 DEF Kept, Grown
  <2>3. /\ t.adj[v] \in Seq(Vertices(t)) /\ u.adj[v] \in Seq(Vertices(u))
        /\ s.adj[v] \in Seq(Vertices(s))
    BY <2>1, <2>2 DEF TreeType
  <2>4. Embedded(t.adj[v], s.adj[v])
    BY <2>1, <2>2, <2>3, EmbeddedTransitive
  <2> QED
    BY <2>1, <2>2, <2>4
<1> QED
  BY <1>1 DEF Kept, Grown, NoNewDirect

\* Whatever a block is turned into, the tree is kept.
LEMMA ContainerOrSpecialKeeps ==
  ASSUME NEW t, GoodTree(t), NEW bb \in t.bbs, NEW callees,
         NEW r \in add_container(t, bb) \cup add_special(t, bb, callees)
  PROVE  Kept(t, r)
<1>1. CASE r = make_loop(t, bb)
  BY <1>1, LoopTurned, TurnedKeeps
<1>2. CASE \E cat \in BranchingCats, c \in IfBranches : r = make_branches(t, bb, cat, c)
  BY <1>2, BranchesTurned, TurnedKeeps
<1>3. CASE \E type \in BreakTypes : r = turn_block(t, bb, break(type))
  <2>1. PICK type \in BreakTypes : r = turn_block(t, bb, break(type))
    BY <1>3
  <2>2. break(type).cat \in {"CALL", "BREAK"} /\ break(type).type # "DIRECT"
    BY DEF break, vprop, BreakTypes
  <2> QED
    BY <2>1, <2>2, SpecialTurned, TurnedKeeps
<1>4. CASE \E type \in {"CONDITIONAL", "INDIRECT"}, g \in 1..callees :
             r = turn_block(t, bb, call(type, g))
  <2>1. PICK type \in {"CONDITIONAL", "INDIRECT"}, g \in 1..callees :
          r = turn_block(t, bb, call(type, g))
    BY <1>4
  <2>2. call(type, g).cat \in {"CALL", "BREAK"} /\ call(type, g).type # "DIRECT"
    BY DEF call, vprop
  <2> QED
    BY <2>1, <2>2, SpecialTurned, TurnedKeeps
<1>5. CASE r = t
  BY <1>5, KeptSelf DEF GoodTree
<1> QED
  BY <1>1, <1>2, <1>3, <1>4, <1>5 DEF add_container, add_special, BreakTypes

\* A split keeps the tree.
LEMMA SplitKeeps ==
  ASSUME cf \in Config, GoodTree(tree), NEW bb \in tree.bbs, do_split(bb)
  PROVE  Kept(tree, tree')
<1> DEFINE k == cf.addblocks
           t == add_siblings(tree, bb, k)
<1>1. k \in Nat /\ cf.callees \in 0..MaxCallees
  BY BlocksAssumption DEF Config
<1>2. PICK v \in split_targets(tree, bb, k) :
        tree' \in add_container(t, v) \cup add_special(t, v, cf.callees)
  BY DEF do_split
<1>3. GoodTree(t) /\ v \in t.bbs
  BY <1>1, SiblingsGood, TargetIsBlock
<1>4. Kept(tree, t)
  BY <1>1, SiblingsWidened, WidenedKeeps
<1> HIDE DEF t
<1>5. GoodTree(tree')
  BY SplitGood
<1>6. Kept(t, tree')
  BY <1>2, <1>3, ContainerOrSpecialKeeps
<1> QED
  BY <1>3, <1>4, <1>5, <1>6, KeptTransitive DEF GoodTree

\* Every step keeps the tree.
LEMMA StepKeeps ==
  ASSUME Inv, [Next]_vars
  PROVE  Kept(tree, tree')
<1>1. CASE split
  BY <1>1, SplitKeeps DEF split, Inv
<1>2. CASE tree' = tree
  <2>1. Kept(tree, tree)
    BY KeptSelf DEF Inv, GoodTree
  <2> QED
    BY <1>2, <2>1
<1> QED
  BY <1>1, <1>2 DEF Next, split_no_block, assign, assign_no_variable, Terminating, vars

-----------------------------------------------------------------------------
(* The direct calls                                                        *)

\* The direct call of callee g is vertex 2 * g of the seeds and stays there.
Directs(t, k) ==
  /\ \A v \in Vertices(t) : t.desc[v].type = "DIRECT" => \E g \in 1..k : v = 2 * g
  /\ \A g \in 1..k : /\ 2 * g \in Vertices(t) /\ t.desc[2 * g] = call("DIRECT", g)
                     /\ t.parent[2 * g] = PSEUDO_VERTEX
  /\ \A g, h \in 1..k : g < h =>
       \E j \in DOMAIN t.adj[PSEUDO_VERTEX] : \E i \in 1..(j - 1) :
         t.adj[PSEUDO_VERTEX][i] = 2 * g /\ t.adj[PSEUDO_VERTEX][j] = 2 * h

\* Of the seeds that is so, and they have no containers.
LEMMA SeedsShaped ==
  ASSUME NEW k \in 0..MaxCallees
  PROVE  Shaped(seeds(k)) /\ Directs(seeds(k), k)
<1> DEFINE t == seeds(k)
           row == [i \in 1..(2 * k + 1) |-> i]
<1>0. k \in Nat
  BY BoundsAssumption
<1>1. Vertices(t) = 0..(2 * k + 1)
  BY <1>0 DEF seeds, Vertices
<1>2. t.adj = [v \in Vertices(t) |-> IF v = PSEUDO_VERTEX THEN row ELSE <<>>]
  BY <1>1 DEF seeds
<1>3. t.parent = [v \in Vertices(t) |-> IF v = PSEUDO_VERTEX THEN ILLEGAL_VERTEX
                                        ELSE PSEUDO_VERTEX]
  BY <1>1 DEF seeds
<1>4. t.desc = [v \in Vertices(t) |-> IF v = PSEUDO_VERTEX THEN pseudo
                                      ELSE IF v % 2 = 0 THEN call("DIRECT", v \div 2) ELSE block]
  BY <1>1 DEF seeds
<1>5. /\ PSEUDO_VERTEX \in Vertices(t)
      /\ \A v \in Vertices(t) \ {PSEUDO_VERTEX} :
           v % 2 = 0 => v \div 2 \in 1..k /\ v = 2 * (v \div 2)
      /\ \A g \in 1..k : /\ 2 * g \in Vertices(t) \ {PSEUDO_VERTEX}
                         /\ (2 * g) % 2 = 0 /\ (2 * g) \div 2 = g
  BY <1>0, <1>1 DEF PSEUDO_VERTEX
<1>6. /\ DOMAIN row = 1..(2 * k + 1)
      /\ \A g \in 1..k : 2 * g \in 1..(2 * k + 1) /\ row[2 * g] = 2 * g
  BY <1>0
<1> HIDE DEF t, row
<1>7. ASSUME NEW v \in Vertices(t) \ {PSEUDO_VERTEX}
      PROVE  /\ t.adj[v] = <<>> /\ t.parent[v] = PSEUDO_VERTEX
             /\ \/ t.desc[v] = block
                \/ v % 2 = 0 /\ t.desc[v] = call("DIRECT", v \div 2)
  BY <1>2, <1>3, <1>4
<1>8. /\ pseudo.cat = "ILLEGAL" /\ pseudo.type = "none" /\ ~is_branching(pseudo)
      /\ \A g : /\ call("DIRECT", g).cat = "CALL" /\ call("DIRECT", g) # branching
               /\ ~is_branching(call("DIRECT", g))
  BY DEF pseudo, call, branching, plain, vprop, is_branching, BranchingCats
<1>9. t.desc[PSEUDO_VERTEX] = pseudo /\ t.adj[PSEUDO_VERTEX] = row
  BY <1>2, <1>4, <1>5
<1>10. Shaped(t)
  <2>1. ASSUME NEW v \in Vertices(t)
        PROVE  Fits(t, v)
    <3>1. CASE v = PSEUDO_VERTEX
      BY <1>8, <1>9, <3>1 DEF Fits
    <3>2. CASE v # PSEUDO_VERTEX
      BY <1>7, <1>8, <3>2, NotDirect DEF Fits
    <3> QED
      BY <3>1, <3>2
  <2>2. ASSUME NEW v \in Vertices(t) \ {PSEUDO_VERTEX}
        PROVE  is_branching(t.desc[t.parent[v]]) <=> t.desc[v] = branching
    BY <1>7, <1>8, <1>9, NotDirect
  <2> QED
    BY <2>1, <2>2, ShapedFits
<1>11. Directs(t, k)
  <2>1. ASSUME NEW v \in Vertices(t), t.desc[v].type = "DIRECT"
        PROVE  \E g \in 1..k : v = 2 * g
    <3>1. v # PSEUDO_VERTEX
      BY <1>8, <1>9, <2>1
    <3>2. v % 2 = 0
      BY <1>7, <2>1, <3>1, NotDirect
    <3> QED
      BY <1>5, <3>1, <3>2
  <2>2. ASSUME NEW g \in 1..k
        PROVE  /\ 2 * g \in Vertices(t) /\ t.desc[2 * g] = call("DIRECT", g)
               /\ t.parent[2 * g] = PSEUDO_VERTEX
    BY <1>3, <1>4, <1>5
  <2>3. ASSUME NEW g \in 1..k, NEW h \in 1..k, g < h
        PROVE  \E j \in DOMAIN row : \E i \in 1..(j - 1) : row[i] = 2 * g /\ row[j] = 2 * h
    <3>1. 2 * h \in DOMAIN row /\ 2 * g \in 1..(2 * h - 1)
      BY <1>0, <1>6, <2>3
    <3> QED
      BY <1>6, <3>1
  <2> QED
    BY <1>9, <2>1, <2>2, <2>3 DEF Directs
<1> QED
  BY <1>10, <1>11 DEF t

\* What keeps the tree keeps the direct calls.
LEMMA DirectsKept ==
  ASSUME NEW t, GoodTree(t), NEW s, GoodTree(s), Kept(t, s), NEW k \in Nat, Directs(t, k)
  PROVE  Directs(s, k)
<1> DEFINE a == t.adj[PSEUDO_VERTEX]
           b == s.adj[PSEUDO_VERTEX]
<1>1. \A v \in Vertices(s) : s.desc[v].type = "DIRECT" => \E g \in 1..k : v = 2 * g
  BY DEF Kept, NoNewDirect, Directs
<1>2. ASSUME NEW g \in 1..k
      PROVE  /\ 2 * g \in Vertices(s) /\ s.desc[2 * g] = call("DIRECT", g)
             /\ s.parent[2 * g] = PSEUDO_VERTEX
  <2>1. /\ 2 * g \in Vertices(t) /\ t.desc[2 * g] = call("DIRECT", g)
        /\ t.parent[2 * g] = PSEUDO_VERTEX
    BY DEF Directs
  <2>2. call("DIRECT", g) # block
    BY DEF call, block, plain, vprop
  <2> QED
    BY <2>1, <2>2 DEF Kept, Grown
<1>3. PSEUDO_VERTEX \in Vertices(t) /\ PSEUDO_VERTEX \in Vertices(s)
  BY DEF GoodTree, TreeType, Vertices, PSEUDO_VERTEX
<1>4. Embedded(a, b) /\ a \in Seq(Vertices(t)) /\ b \in Seq(Vertices(s))
  BY <1>3 DEF Kept, Grown, GoodTree, TreeType
<1>5. ASSUME NEW g \in 1..k, NEW h \in 1..k, g < h
      PROVE  \E j \in DOMAIN b : \E i \in 1..(j - 1) : b[i] = 2 * g /\ b[j] = 2 * h
  <2>1. PICK j \in DOMAIN a : \E i \in 1..(j - 1) : a[i] = 2 * g /\ a[j] = 2 * h
    BY <1>5 DEF Directs
  <2>2. PICK i \in 1..(j - 1) : a[i] = 2 * g /\ a[j] = 2 * h
    BY <2>1
  <2> HIDE DEF a, b
  <2>3. j \in Int /\ i \in 1..j /\ i < j /\ DOMAIN b = 1..Len(b) /\ Len(b) \in Nat
    BY <1>4
  <2>4. PICK x \in i..Len(b) : b[x] = a[i] /\ \E y \in (x + j - i)..Len(b) : b[y] = a[j]
    BY <1>4, <2>3 DEF Embedded
  <2>5. PICK y \in (x + j - i)..Len(b) : b[y] = a[j]
    BY <2>4
  <2>6. y \in DOMAIN b /\ x \in 1..(y - 1)
    BY <2>3, <2>4, <2>5
  <2> QED
    BY <2>2, <2>4, <2>5, <2>6
<1> QED
  BY <1>1, <1>2, <1>5 DEF Directs

\* The places of the direct calls, in terms of the list of the pseudo vertex.
LEMMA DirectsInOrder ==
  ASSUME GoodTree(tree), cf.callees \in Nat, Directs(tree, cf.callees)
  PROVE  DirectCallsKept
<1> DEFINE top == tree.adj[PSEUDO_VERTEX]
           k == cf.callees
           desc == tree.desc
<1>1. /\ top \in Seq(Vertices(tree)) /\ DOMAIN top = 1..Len(top)
      /\ \A i \in DOMAIN top : top[i] \in Vertices(tree)
      /\ \A i, j \in DOMAIN top : top[i] = top[j] => i = j
  BY DEF GoodTree, TreeType, WellFormed, Vertices, PSEUDO_VERTEX
<1>2. \A g \in 1..k : /\ 2 * g \in Vertices(tree) /\ desc[2 * g] = call("DIRECT", g)
                     /\ tree.parent[2 * g] = PSEUDO_VERTEX
  BY DEF Directs
<1>3. \A g \in 1..k : call("DIRECT", g).callee = g
  BY DEF call, vprop
<1>4. ASSUME NEW g \in 1..k
      PROVE  \E i \in DOMAIN top : desc[top[i]] = call("DIRECT", g)
  <2>1. 2 * g \in Vertices(tree) \ {PSEUDO_VERTEX} /\ tree.parent[2 * g] = PSEUDO_VERTEX
    BY <1>2 DEF PSEUDO_VERTEX
  <2>2. \E i \in DOMAIN top : top[i] = 2 * g
    BY <2>1 DEF GoodTree, WellFormed
  <2> QED
    BY <1>2, <2>2
<1>5. ASSUME NEW v \in Vertices(tree), desc[v].type = "DIRECT"
      PROVE  \E g \in 1..k : v = 2 * g /\ desc[v].callee = g /\ tree.parent[v] = PSEUDO_VERTEX
  <2>1. PICK g \in 1..k : v = 2 * g
    BY <1>5 DEF Directs
  <2> QED
    BY <1>2, <1>3, <2>1
<1>6. ASSUME NEW i \in DOMAIN top, NEW j \in DOMAIN top, i < j,
             desc[top[i]].type = "DIRECT", desc[top[j]].type = "DIRECT"
      PROVE  desc[top[i]].callee < desc[top[j]].callee
  <2>1. PICK g \in 1..k : top[i] = 2 * g /\ desc[top[i]].callee = g
    BY <1>1, <1>5, <1>6
  <2>2. PICK h \in 1..k : top[j] = 2 * h /\ desc[top[j]].callee = h
    BY <1>1, <1>5, <1>6
  <2>3. i \in Int /\ j \in Int /\ g \in Int /\ h \in Int
    BY <1>1
  <2>4. g # h
    BY <1>1, <1>6, <2>1, <2>2, <2>3
  <2>5. ASSUME h < g
        PROVE  FALSE
    <3>1. PICK y \in DOMAIN top : \E x \in 1..(y - 1) : top[x] = 2 * h /\ top[y] = 2 * g
      BY <2>5 DEF Directs
    <3>2. PICK x \in 1..(y - 1) : top[x] = 2 * h /\ top[y] = 2 * g
      BY <3>1
    <3> HIDE DEF top
    <3>3. x \in DOMAIN top /\ x \in Int /\ y \in Int /\ x < y
      BY <1>1, <3>2
    <3>4. x = j /\ y = i
      BY <1>1, <2>1, <2>2, <3>2, <3>3
    <3> QED
      BY <1>6, <2>3, <3>3, <3>4
  <2> QED
    BY <2>1, <2>2, <2>3, <2>4, <2>5
<1>7. ASSUME NEW v \in Vertices(tree), desc[v].type = "DIRECT"
      PROVE  tree.parent[v] = PSEUDO_VERTEX /\ desc[v].callee \in 1..k
  BY <1>5, <1>7
<1> QED
  BY <1>4, <1>6, <1>7 DEF DirectCallsKept

-----------------------------------------------------------------------------
(* The loops above a vertex                                                *)

\* A set of naturals that is not empty has a least element.
LEMMA Least ==
  ASSUME NEW T, T \subseteq Nat, T # {}
  PROVE  \E m \in T : \A k \in T : m <= k
<1>1. IsWellFoundedOn(OpToRel(<, Nat), Nat)
  BY NatLessThanWellFounded
<1>2. PICK x \in T : \A y \in T : ~ (<<y, x>> \in OpToRel(<, Nat))
  BY <1>1, WFMin
<1>3. \A y \in T : ~(y < x)
  BY <1>2 DEF OpToRel
<1> QED
  BY <1>3

\* Whether a loop is above v, given the answers for older vertices.
LoopAbove(t, v, above) ==
  LET p == t.parent[v]
  IN  v # PSEUDO_VERTEX /\ p # PSEUDO_VERTEX /\ (t.desc[p] = loop \/ above[p])

\* The answers for the vertices up to n.
AnswersUpTo(t, n) ==
  \E g \in [0..n -> BOOLEAN] : \A v \in 0..n : g[v] = LoopAbove(t, v, g)

\* Parents are older than their children, so the vertices have answers.
LEMMA AnswersExist ==
  ASSUME NEW t, GoodTree(t), NEW n \in Vertices(t)
  PROVE  AnswersUpTo(t, n)
<1>1. /\ t.size \in Nat \ {0} /\ Vertices(t) = 0..(t.size - 1)
      /\ \A v \in Vertices(t) \ {PSEUDO_VERTEX} : t.parent[v] \in 0..(v - 1)
  BY DEF GoodTree, TreeType, WellFormed, Vertices
<1>2. AnswersUpTo(t, 0)
  <2> DEFINE g == [v \in 0..0 |-> FALSE]
  <2>1. LoopAbove(t, PSEUDO_VERTEX, g) = FALSE
    BY DEF LoopAbove
  <2>2. g \in [0..0 -> BOOLEAN] /\ g[0] = FALSE /\ \A v \in 0..0 : v = 0
    OBVIOUS
  <2>3. g[0] = LoopAbove(t, 0, g)
    BY <2>1, <2>2 DEF PSEUDO_VERTEX
  <2> HIDE DEF g
  <2> QED
    BY <2>2, <2>3 DEF AnswersUpTo
<1>3. ASSUME NEW m \in Vertices(t), m # 0, AnswersUpTo(t, m - 1)
      PROVE  AnswersUpTo(t, m)
  <2>1. PICK g \in [0..(m - 1) -> BOOLEAN] : \A v \in 0..(m - 1) : g[v] = LoopAbove(t, v, g)
    BY <1>3 DEF AnswersUpTo
  <2> DEFINE h == [v \in 0..m |-> IF v = m THEN LoopAbove(t, v, g) ELSE g[v]]
  <2>2. m \in Nat /\ m - 1 \in Nat
    BY <1>1, <1>3
  <2>3. h \in [0..m -> BOOLEAN]
    <3>1. LoopAbove(t, m, g) \in BOOLEAN
      BY DEF LoopAbove
    <3>2. \A v \in 0..m : v # m => v \in 0..(m - 1)
      BY <2>2
    <3> HIDE DEF LoopAbove
    <3> QED
      BY <2>1, <3>1, <3>2
  <2>4. ASSUME NEW v \in 0..m
        PROVE  LoopAbove(t, v, h) = LoopAbove(t, v, g)
    <3>1. CASE v = PSEUDO_VERTEX
      BY <3>1 DEF LoopAbove
    <3>2. CASE v # PSEUDO_VERTEX
      <4>1. v \in Vertices(t) \ {PSEUDO_VERTEX}
        BY <1>1, <3>2
      <4>2. t.parent[v] \in 0..(m - 1)
        BY <1>1, <2>2, <4>1
      <4>3. h[t.parent[v]] = g[t.parent[v]]
        BY <2>2, <4>2
      <4> QED
        BY <4>3 DEF LoopAbove
    <3> QED
      BY <3>1, <3>2
  <2>5. \A v \in 0..m : h[v] = LoopAbove(t, v, h)
    <3> SUFFICES ASSUME NEW v \in 0..m PROVE h[v] = LoopAbove(t, v, h)
      OBVIOUS
    <3>1. v = m \/ v \in 0..(m - 1)
      BY <2>2
    <3> QED
      BY <2>1, <2>2, <2>4, <3>1
  <2> QED
    BY <2>3, <2>5 DEF AnswersUpTo
<1> DEFINE Without == {m \in Vertices(t) : ~AnswersUpTo(t, m)}
<1>4. ASSUME Without # {}
      PROVE  FALSE
  <2>1. Without \subseteq Nat
    BY <1>1
  <2>2. PICK m \in Without : \A k \in Without : m <= k
    <3> HIDE DEF Without
    <3> QED
      BY <1>4, <2>1, Least
  <2>3. m # 0 /\ m - 1 \in Vertices(t) /\ m - 1 \notin Without
    BY <1>1, <1>2, <2>2
  <2> QED
    BY <1>3, <2>2, <2>3
<1> QED
  BY <1>4

\* have_loop, unfolded once.
LEMMA HaveLoop ==
  ASSUME NEW t, GoodTree(t), NEW v \in Vertices(t) \ {PSEUDO_VERTEX}
  PROVE  have_loop(t, v) <=> /\ t.parent[v] # PSEUDO_VERTEX
                             /\ t.desc[t.parent[v]] = loop \/ have_loop(t, t.parent[v])
<1>1. /\ t.size \in Nat \ {0} /\ Vertices(t) = 0..(t.size - 1)
      /\ t.parent[v] \in Vertices(t)
  BY DEF GoodTree, TreeType, WellFormed, Vertices, PSEUDO_VERTEX
<1>2. PICK g \in [Vertices(t) -> BOOLEAN] : \A u \in Vertices(t) : g[u] = LoopAbove(t, u, g)
  <2>1. t.size - 1 \in Vertices(t)
    BY <1>1
  <2> QED
    BY <1>1, <2>1, AnswersExist DEF AnswersUpTo
<1>3. g = [u \in Vertices(t) |-> LoopAbove(t, u, g)]
  BY <1>2
<1> DEFINE above[u \in Vertices(t)] ==
             LET p == t.parent[u]
             IN  u # PSEUDO_VERTEX /\ p # PSEUDO_VERTEX /\ (t.desc[p] = loop \/ above[p])
<1>4. above = [u \in Vertices(t) |-> LoopAbove(t, u, above)]
  BY <1>3 DEF LoopAbove
<1>5. \A u : have_loop(t, u) = above[u]
  BY DEF have_loop
<1> HIDE DEF above
<1>6. above[v] <=> LoopAbove(t, v, above)
  BY <1>4
<1> QED
  BY <1>5, <1>6 DEF LoopAbove

\* The breaks and continues of t are inside loops.
BreaksLooped(t) ==
  \A v \in Vertices(t) :
    t.desc[v] \in {break("BREAK"), break("CONTINUE")} => v # PSEUDO_VERTEX /\ have_loop(t, v)

\* What keeps the tree keeps the loops above its vertices.
LEMMA LoopsKept ==
  ASSUME NEW t, GoodTree(t), NEW s, GoodTree(s), Grown(t, s),
         NEW v \in Vertices(t) \ {PSEUDO_VERTEX}, have_loop(t, v)
  PROVE  have_loop(s, v)
<1> DEFINE Lost == {u \in Vertices(t) \ {PSEUDO_VERTEX} : have_loop(t, u) /\ ~have_loop(s, u)}
<1>1. Lost \subseteq Nat
  BY DEF GoodTree, TreeType, Vertices
<1>2. ASSUME Lost # {}
      PROVE  FALSE
  <2>1. PICK u \in Lost : \A w \in Lost : u <= w
    <3> HIDE DEF Lost
    <3> QED
      BY <1>1, <1>2, Least
  <2> DEFINE p == t.parent[u]
  <2>2. /\ u \in Vertices(s) /\ s.parent[u] = p
        /\ p \in Vertices(t) /\ p \in Int /\ u \in Int /\ p < u
    BY <1>1, <2>1 DEF Grown, GoodTree, TreeType, WellFormed, Vertices
  <2>3. p # PSEUDO_VERTEX /\ (t.desc[p] = loop \/ have_loop(t, p))
    BY <2>1, HaveLoop
  <2>4. CASE t.desc[p] = loop
    <3>1. s.desc[p] = loop
      BY <2>2, <2>4, Kinds DEF Grown
    <3> QED
      BY <2>1, <2>2, <2>3, <3>1, HaveLoop
  <2>5. CASE have_loop(t, p)
    <3>1. p \notin Lost
      BY <2>1, <2>2
    <3>2. have_loop(s, p)
      BY <2>2, <2>3, <2>5, <3>1
    <3> QED
      BY <2>1, <2>2, <2>3, <3>2, HaveLoop
  <2> QED
    BY <2>3, <2>4, <2>5
<1> QED
  BY <1>2

\* A tree that keeps t and has breaks only where t has them, or where t has a
\* loop above, has its breaks inside loops.
LEMMA BreaksKept ==
  ASSUME NEW t, GoodTree(t), NEW s, GoodTree(s), Grown(t, s), BreaksLooped(t),
         \A v \in Vertices(s) : s.desc[v] \in {break("BREAK"), break("CONTINUE")} =>
           /\ v \in Vertices(t) \ {PSEUDO_VERTEX}
           /\ s.desc[v] = t.desc[v] \/ have_loop(t, v)
  PROVE  BreaksLooped(s)
BY LoopsKept DEF BreaksLooped

\* Neither siblings nor what containers and calls are made of are breaks.
LEMMA NotBreaks ==
  /\ \A p \in {block, branching, loop} \cup {plain(c) : c \in BranchingCats} :
       p \notin {break("BREAK"), break("CONTINUE")}
  /\ \A type, g : call(type, g) \notin {break("BREAK"), break("CONTINUE")}
  /\ break("RETURN") \notin {break("BREAK"), break("CONTINUE")}
BY DEF block, branching, loop, plain, break, call, vprop, BranchingCats

\* Turning a block into something keeps breaks inside loops, unless it is turned
\* into a break or continue where there is none.
LEMMA TurnedBreaks ==
  ASSUME NEW t, GoodTree(t), NEW s, GoodTree(s), NEW bb \in t.bbs, Turned(t, s, bb),
         BreaksLooped(t),
         s.desc[bb] \in {break("BREAK"), break("CONTINUE")} => have_loop(t, bb)
  PROVE  BreaksLooped(s)
<1>1. bb \in Vertices(t) /\ bb # PSEUDO_VERTEX
  BY BlockParts
<1>2. Grown(t, s)
  BY TurnedKeeps DEF Kept
<1>3. ASSUME NEW v \in Vertices(s), s.desc[v] \in {break("BREAK"), break("CONTINUE")}
      PROVE  /\ v \in Vertices(t) \ {PSEUDO_VERTEX}
             /\ s.desc[v] = t.desc[v] \/ have_loop(t, v)
  <2>1. v \in Vertices(t)
    <3>1. s.desc[v] \notin {block, branching}
      BY <1>3, NotBreaks
    <3> QED
      BY <3>1 DEF Turned
  <2>2. CASE v = bb
    BY <1>1, <1>3, <2>2
  <2>3. CASE v # bb
    <3>1. s.desc[v] = t.desc[v]
      BY <2>1, <2>3 DEF Turned
    <3> QED
      BY <1>3, <2>1, <3>1 DEF BreaksLooped
  <2> QED
    BY <2>2, <2>3
<1> QED
  BY <1>2, <1>3, BreaksKept

\* add_container and add_special keep breaks inside loops.
LEMMA ContainerOrSpecialBreaks ==
  ASSUME NEW t, GoodTree(t), NEW v \in t.bbs, NEW callees, NEW s, GoodTree(s),
         s \in add_container(t, v) \cup add_special(t, v, callees), BreaksLooped(t)
  PROVE  BreaksLooped(s)
<1>1. v \in Vertices(t)
  BY BlockParts
<1>2. CASE s = make_loop(t, v)
  <2>1. Turned(t, s, v)
    BY <1>2, LoopTurned
  <2>2. s.desc[v] = loop
    BY <1>1, <1>2 DEF make_loop, grow, turn_block, GoodTree, TreeType, Vertices
  <2>3. loop \notin {break("BREAK"), break("CONTINUE")}
    BY NotBreaks
  <2> QED
    BY <2>1, <2>2, <2>3, TurnedBreaks
<1>3. CASE \E cat \in BranchingCats, c \in IfBranches : s = make_branches(t, v, cat, c)
  <2>1. PICK cat \in BranchingCats, c \in IfBranches : s = make_branches(t, v, cat, c)
    BY <1>3
  <2>2. Turned(t, s, v)
    BY <2>1, BranchesTurned
  <2>3. s.desc[v] = plain(cat)
    BY <1>1, <2>1, BlocksAssumption
       DEF make_branches, grow, turn_block, GoodTree, TreeType, Vertices
  <2>4. plain(cat) \notin {break("BREAK"), break("CONTINUE")}
    BY NotBreaks
  <2> QED
    BY <2>2, <2>3, <2>4, TurnedBreaks
<1>4. ASSUME NEW prop, s = turn_block(t, v, prop),
             prop.cat \in {"CALL", "BREAK"}, prop.type # "DIRECT",
             prop \in {break("BREAK"), break("CONTINUE")} => have_loop(t, v)
      PROVE  BreaksLooped(s)
  <2>1. Turned(t, s, v)
    BY <1>4, SpecialTurned
  <2>2. s.desc[v] = prop
    BY <1>1, <1>4 DEF turn_block, GoodTree, TreeType
  <2> QED
    BY <1>4, <2>1, <2>2, TurnedBreaks
<1>5. CASE \E type \in IF have_loop(t, v) THEN BreakTypes ELSE {"RETURN"} :
             s = turn_block(t, v, break(type))
  <2>1. PICK type \in IF have_loop(t, v) THEN BreakTypes ELSE {"RETURN"} :
          s = turn_block(t, v, break(type))
    BY <1>5
  <2>2. break(type).cat \in {"CALL", "BREAK"} /\ break(type).type # "DIRECT"
    BY <2>1 DEF break, vprop, BreakTypes
  <2>3. break(type) \in {break("BREAK"), break("CONTINUE")} => have_loop(t, v)
    BY <2>1, NotBreaks
  <2> QED
    BY <1>4, <2>1, <2>2, <2>3
<1>6. CASE \E type \in {"CONDITIONAL", "INDIRECT"}, g \in 1..callees :
             s = turn_block(t, v, call(type, g))
  <2>1. PICK type \in {"CONDITIONAL", "INDIRECT"}, g \in 1..callees :
          s = turn_block(t, v, call(type, g))
    BY <1>6
  <2>2. call(type, g).cat \in {"CALL", "BREAK"} /\ call(type, g).type # "DIRECT"
    BY DEF call, vprop
  <2>3. call(type, g) \notin {break("BREAK"), break("CONTINUE")}
    BY NotBreaks
  <2> QED
    BY <1>4, <2>1, <2>2, <2>3
<1>7. CASE s = t
  BY <1>7
<1> QED
  BY <1>2, <1>3, <1>5, <1>6, <1>7 DEF add_container, add_special

\* A split keeps breaks inside loops.
LEMMA SplitBreaks ==
  ASSUME cf \in Config, GoodTree(tree), NEW bb \in tree.bbs, do_split(bb), BreaksLooped(tree)
  PROVE  BreaksLooped(tree')
<1> DEFINE k == cf.addblocks
           t == add_siblings(tree, bb, k)
<1>1. k \in Nat
  BY BlocksAssumption DEF Config
<1>2. PICK v \in split_targets(tree, bb, k) :
        tree' \in add_container(t, v) \cup add_special(t, v, cf.callees)
  BY DEF do_split
<1>3. GoodTree(t) /\ v \in t.bbs
  BY <1>1, SiblingsGood, TargetIsBlock
<1>4. Widened(tree, t, bb) /\ Grown(tree, t)
  BY <1>1, SiblingsWidened, WidenedKeeps DEF Kept
<1> HIDE DEF t
<1>5. BreaksLooped(t)
  <2>1. ASSUME NEW u \in Vertices(t), t.desc[u] \in {break("BREAK"), break("CONTINUE")}
        PROVE  u \in Vertices(tree) \ {PSEUDO_VERTEX} /\ t.desc[u] = tree.desc[u]
    <3>1. t.desc[u] # block
      BY <2>1, NotBreaks
    <3>2. u \in Vertices(tree) /\ t.desc[u] = tree.desc[u]
      BY <1>4, <3>1 DEF Widened
    <3> QED
      BY <2>1, <3>2 DEF BreaksLooped
  <2> QED
    BY <1>3, <1>4, <2>1, BreaksKept
<1> QED
  BY <1>2, <1>3, <1>5, SplitGood, ContainerOrSpecialBreaks

\* The seeds have no breaks.
LEMMA SeedsBreaks ==
  ASSUME NEW k \in 0..MaxCallees
  PROVE  BreaksLooped(seeds(k))
<1>1. k \in Nat
  BY BoundsAssumption
<1>2. \A v \in Vertices(seeds(k)) : seeds(k).desc[v].cat \in {"ILLEGAL", "CALL", "BLOCK"}
  BY <1>1 DEF seeds, Vertices, pseudo, call, block, plain, vprop
<1>3. \A type : break(type).cat = "BREAK"
  BY DEF break, vprop
<1> QED
  BY <1>2, <1>3 DEF BreaksLooped

-----------------------------------------------------------------------------
(* The invariant with the shape of the tree                                *)

GrowthInv ==
  Inv /\ Shaped(tree) /\ Directs(tree, cf.callees) /\ BreaksLooped(tree)

\* The seeds satisfy the invariant.
LEMMA InitGrowth == Init => GrowthInv
<1> SUFFICES ASSUME Init PROVE GrowthInv
  OBVIOUS
<1>1. cf.callees \in 0..MaxCallees
  BY DEF Init, Config
<1> QED
  BY <1>1, InitInv, SeedsShaped, SeedsBreaks DEF Init, GrowthInv

\* Every step keeps the invariant.
LEMMA NextGrowth == GrowthInv /\ [Next]_vars => GrowthInv'
<1> SUFFICES ASSUME GrowthInv, [Next]_vars PROVE GrowthInv'
  OBVIOUS
<1>1. Inv /\ Inv' /\ Kept(tree, tree')
  BY NextInv, StepKeeps DEF GrowthInv
<1>2. cf' = cf
  BY DEF Next, split, split_no_block, assign, assign_no_variable, Terminating, vars
<1>3. cf.callees \in Nat
  BY <1>1, BoundsAssumption DEF Inv, Config
<1>4. GoodTree(tree) /\ GoodTree(tree')
  BY <1>1 DEF Inv
<1>5. Shaped(tree')
  BY <1>1 DEF Kept, GrowthInv
<1>6. Directs(tree', cf.callees)
  BY <1>1, <1>3, <1>4, DirectsKept DEF GrowthInv
<1>7. BreaksLooped(tree')
  <2>1. CASE split
    BY <2>1, SplitBreaks DEF split, GrowthInv, Inv
  <2>2. CASE tree' = tree
    BY <2>2 DEF GrowthInv
  <2> QED
    BY <2>1, <2>2 DEF Next, split_no_block, assign, assign_no_variable, Terminating, vars
<1> QED
  BY <1>1, <1>2, <1>5, <1>6, <1>7 DEF GrowthInv

\* GrowthInv is an invariant of the specification, for every value of the options.
THEOREM GrowthInvariance == Spec => []GrowthInv
BY InitGrowth, NextGrowth, PTL DEF Spec

\* A split never leaves a container half made, and later splits inside it do
\* not change the branchings of an if, switch or region.
THEOREM ContainersKeepShape == Spec => []ContainersShaped
<1>1. GrowthInv => ContainersShaped
  BY DEF GrowthInv, ContainersShaped
<1> QED
  BY <1>1, GrowthInvariance, PTL

\* The direct calls that the seeds make stay at the top, one for each callee and
\* in the order of the callees, however many splits follow.
THEOREM DirectCallsStay == Spec => []DirectCallsKept
<1>1. GrowthInv => DirectCallsKept
  <2> SUFFICES ASSUME GrowthInv PROVE DirectCallsKept
    OBVIOUS
  <2>1. cf.callees \in Nat
    BY BoundsAssumption DEF GrowthInv, Inv, Config
  <2> QED
    BY <2>1, DirectsInOrder DEF GrowthInv, Inv
<1> QED
  BY <1>1, GrowthInvariance, PTL

\* add_special makes a break or continue only inside a loop, and no later split
\* takes the loop away from above it, however deep it comes to be.
THEOREM BreaksStayInLoops == Spec => []BreaksInLoops
<1>1. GrowthInv => BreaksInLoops
  BY DEF GrowthInv, BreaksLooped, BreaksInLoops
<1> QED
  BY <1>1, GrowthInvariance, PTL

\* do_split and assign never move or drop a vertex, never swap siblings and
\* change the property of nothing but a block.
THEOREM SplitsOnlyGrow == Spec => GrowsOnly
<1>1. Inv /\ [Next]_vars => [Grown(tree, tree')]_vars
  BY StepKeeps DEF Kept
<1> QED
  BY <1>1, Invariance, PTL DEF Spec, GrowsOnly
=============================================================================
