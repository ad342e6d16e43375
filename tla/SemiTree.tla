------------------------------ MODULE SemiTree ------------------------------
(***************************************************************************)
(* The intrusive tree: nodes linked to their siblings and parent by hand,  *)
(* one sentinel per branch that closes the ring of its children, and the   *)
(* two iterators over it. The caller holds one iterator, which it moves,   *)
(* converts and inserts at.                                                *)
(*                                                                         *)
(* Code: include/utils/{semitree,semitree_nodes,semitree_iterator}.h       *)
(***************************************************************************)
EXTENDS Naturals, Sequences, FiniteSets

CONSTANTS Leafs, Branches, Root,  \* as in OrderedTree
          Null                    \* the null pointer

Nodes == Leafs \cup Branches
Inner == Branches \cup {Root}

\* The sentinel of a branch.
sent(b) == [sentinel |-> b]
Sentinels == {sent(b) : b \in Inner}
Linkable == Nodes \cup {Root} \cup Sentinels

ASSUME NodesAssumption ==
  /\ Leafs \cap Branches = {} /\ Root \notin Nodes
  /\ Null \notin Linkable
  /\ Sentinels \cap (Nodes \cup {Root}) = {}
\* There are as many nodes as fit into memory.
ASSUME FiniteAssumption == IsFiniteSet(Leafs) /\ IsFiniteSet(Branches)

VARIABLES parent, prev, next,  \* the links of every node and sentinel
          it,                  \* the iterator of the caller
          op                   \* what the caller did last

links == <<parent, prev, next>>
vars  == <<links, it, op>>

is_branch(x)  == x \in Inner
has_parent(x) == parent[x] # Null
empty(b)      == next[sent(b)] = sent(b)
get_firstchild(b) == next[sent(b)]
get_lastchild(b)  == prev[sent(b)]

\* Iterators. A sibling iterator is a pointer; visited is of no meaning for it.
sibling(ptr) == [kind |-> "sibling", ptr |-> ptr, visited |-> FALSE]
inorder(ptr, visited) == [kind |-> "inorder", ptr |-> ptr, visited |-> visited]

\* Mutant: a visited branch becomes an iterator to the branch.
to_sibling_outside(i) == sibling(i.ptr)

\* A visited branch becomes the end of its children.
to_sibling(i) ==
  IF is_branch(i.ptr) /\ i.visited THEN sibling(sent(i.ptr)) ELSE sibling(i.ptr)

\* The end of the children of a branch becomes the visited branch.
to_inorder(i, visited) ==
  IF i.ptr = sent(parent[i.ptr]) THEN inorder(parent[i.ptr], TRUE)
  ELSE inorder(i.ptr, visited)

inorder_end   == inorder(Root, TRUE)
inorder_begin == to_inorder(sibling(get_firstchild(Root)), FALSE)

\* operator== of inorder iterators: visited counts for branches only.
equal(i, j) == i.ptr = j.ptr /\ (is_branch(i.ptr) => i.visited = j.visited)

-----------------------------------------------------------------------------
\* operator++ of inorder iterators.
increment(i) ==
  IF is_branch(i.ptr) /\ ~i.visited
  THEN IF empty(i.ptr) THEN inorder(i.ptr, TRUE)
       ELSE inorder(get_firstchild(i.ptr), FALSE)
  ELSE IF has_parent(i.ptr) /\ get_lastchild(parent[i.ptr]) = i.ptr
       THEN inorder(parent[i.ptr], TRUE)
       ELSE inorder(next[i.ptr], FALSE)

\* Mutant: a branch is entered by its front when walked backwards.
decrement_unvisited(i) ==
  IF is_branch(i.ptr) /\ i.visited
  THEN IF empty(i.ptr) THEN inorder(i.ptr, FALSE)
       ELSE inorder(get_lastchild(i.ptr), TRUE)
  ELSE IF has_parent(i.ptr) /\ get_firstchild(parent[i.ptr]) = i.ptr
       THEN inorder(parent[i.ptr], FALSE)
       ELSE inorder(prev[i.ptr], FALSE)

\* operator-- of inorder iterators.
decrement(i) ==
  IF is_branch(i.ptr) /\ i.visited
  THEN IF empty(i.ptr) THEN inorder(i.ptr, FALSE)
       ELSE inorder(get_lastchild(i.ptr), TRUE)
  ELSE IF has_parent(i.ptr) /\ get_firstchild(parent[i.ptr]) = i.ptr
       THEN inorder(parent[i.ptr], FALSE)
       ELSE inorder(prev[i.ptr], TRUE)

Init ==
  /\ parent = [x \in Linkable |->
                 IF x \in Sentinels THEN x.sentinel ELSE Null]
  /\ prev = [x \in Linkable |-> IF x \in Sentinels THEN x ELSE Null]
  /\ next = [x \in Linkable |-> IF x \in Sentinels THEN x ELSE Null]
  /\ it = inorder_end
  /\ op = "start"

\* The caller moves or replaces its iterator.
walk(name, i) == op' = name /\ it' = i /\ UNCHANGED links

\* Moving is defined between the ends of the range only.
inorder_forward ==
  /\ it.kind = "inorder" /\ ~equal(it, inorder_end)
  /\ walk("forward", increment(it))

inorder_back ==
  /\ it.kind = "inorder" /\ ~equal(it, inorder_begin)
  /\ walk("back", decrement(it))

sibling_forward ==
  /\ it.kind = "sibling" /\ it.ptr \notin Sentinels
  /\ walk("next", sibling(next[it.ptr]))

sibling_back ==
  /\ it.kind = "sibling" /\ prev[it.ptr] \notin Sentinels
  /\ walk("prev", sibling(prev[it.ptr]))

\* begin() and end() of the tree, and of any branch in it.
restart ==
  \/ walk("restart", inorder_begin)
  \/ walk("restart", inorder_end)
  \/ \E b \in Inner :
       /\ b = Root \/ has_parent(b)
       /\ \/ walk("restart", sibling(get_firstchild(b)))
          \/ walk("restart", sibling(sent(b)))

convert ==
  \/ it.kind = "inorder" /\ walk("convert", to_sibling(it))
  \/ it.kind = "sibling" /\ \E v \in BOOLEAN : walk("convert", to_inorder(it, v))

-----------------------------------------------------------------------------
\* Mutant: the right neighbour keeps its link to the left one.
insert_between_oneway(n, left, right) ==
  /\ next' = [next EXCEPT ![left] = n, ![n] = right]
  /\ prev' = [prev EXCEPT ![n] = left]
  /\ parent' = [parent EXCEPT ![n] = parent[left]]

insert_between(n, left, right) ==
  /\ next' = [next EXCEPT ![left] = n, ![n] = right]
  /\ prev' = [prev EXCEPT ![n] = left, ![right] = n]
  /\ parent' = [parent EXCEPT ![n] = parent[left]]

\* branch_t::insert links n before the node that pt points to and returns an
\* iterator to the successor of n.
branch_insert(pt, n) == insert_between(n, prev[pt], pt)

\* tree_t::insert with an inorder iterator: the end of a visited branch is the
\* end of its children. A node is inserted once.
insert_inorder(n) ==
  /\ it.kind = "inorder" /\ ~has_parent(n)
  /\ branch_insert(to_sibling(it).ptr, n)
  /\ it' = to_inorder(sibling(next'[n]), it.visited)
  /\ op' = "insert"

\* The same with a sibling iterator: it has to point to a child of the tree.
insert_sibling(n) ==
  /\ it.kind = "sibling" /\ ~has_parent(n)
  /\ parent[it.ptr] = Root
  /\ branch_insert(it.ptr, n)
  /\ it' = sibling(next'[n])
  /\ op' = "insert"

Next ==
  \/ inorder_forward \/ inorder_back
  \/ sibling_forward \/ sibling_back
  \/ restart \/ convert
  \/ \E n \in Nodes : insert_inorder(n) \/ insert_sibling(n)

Spec == Init /\ [][Next]_vars

-----------------------------------------------------------------------------
Linked == {x \in Linkable : parent[x] # Null}

\* A branch that hangs in the tree, or the tree itself.
placed(b) == b = Root \/ b \in Linked

\* Links lead to nodes or nowhere, and the caller holds an iterator.
TypeOK ==
  /\ parent \in [Linkable -> Inner \cup {Null}]
  /\ prev \in [Linkable -> Linkable \cup {Null}]
  /\ next \in [Linkable -> Linkable \cup {Null}]
  /\ it \in [kind : {"sibling", "inorder"}, ptr : Linkable, visited : BOOLEAN]

\* Whatever was inserted where, the children of a branch and its sentinel form
\* one ring that can be walked in both directions without leaving the branch
\* (insert_between writes five links by hand), nodes outside it have no links,
\* every linked node hangs in the tree, and the caller's iterator points into it.
LinksMatch ==
  /\ \A b \in Inner : parent[sent(b)] = b
  /\ \A x \in Linked :
       /\ x \in Sentinels \/ placed(parent[x])
       /\ next[x] \in Linked /\ prev[next[x]] = x /\ parent[next[x]] = parent[x]
       /\ prev[x] \in Linked /\ next[prev[x]] = x /\ parent[prev[x]] = parent[x]
  /\ \A x \in Linkable \ Linked : next[x] = Null /\ prev[x] = Null
  /\ Root \notin Linked
  /\ \/ it = inorder_end
     \/ it.ptr \in Linked /\ placed(parent[it.ptr])
  /\ it.kind = "inorder" => it.ptr \notin Sentinels

\* The iterators that ++ and -- can leave the caller with.
Positions ==
  {inorder(x, v) : x \in Linked \ Sentinels, v \in BOOLEAN} \cup {inorder_end}

\* A step forward and one back end at an iterator that equals the first one, and
\* the other way round, although their visited flags may differ (the comment on
\* operator--): a reverse walk meets what a walk meets.
StepsUndo ==
  \A i \in Positions :
    /\ ~equal(i, inorder_end) => equal(decrement(increment(i)), i)
    /\ ~equal(i, inorder_begin) => equal(increment(decrement(i)), i)

\* The children of a branch, found by following next_ from its sentinel.
hop(b) ==
  LET f[k \in 0..(Cardinality(Linkable) + 1)] == IF k = 0 THEN sent(b) ELSE next[f[k - 1]]
  IN  f

Followed(b) ==
  LET n == CHOOSE k \in 1..(Cardinality(Linkable) + 1) :
             /\ hop(b)[k] = sent(b) \/ k = Cardinality(Linkable) + 1
             /\ \A j \in 1..(k - 1) : hop(b)[j] # sent(b)
  IN  [k \in 1..(n - 1) |-> hop(b)[k]]

\* The visit an iterator stands for.
Visit(i) ==
  IF i.ptr \in Sentinels THEN <<parent[i.ptr], TRUE>>
  ELSE <<i.ptr, is_branch(i.ptr) /\ i.visited>>

Ordered == INSTANCE OrderedTree WITH
  childs <- [b \in Inner |-> Followed(b)],
  at <- Visit(it)

\* Links, sentinels and both iterators implement the ordered tree: insertion
\* puts a node right before the visit the caller stands at and leaves the caller
\* there, and ++ and -- visit every node in order, branches before and after
\* their children.
ImplementsOrderedTree == Ordered!Spec
=============================================================================
