----------------------------- MODULE CallGraph ------------------------------
(***************************************************************************)
(* The construction of a call graph: a random graph without self-loops is  *)
(* given a head if it has none, more leafs, edges that leave every         *)
(* component with one head, self-loops, a tree of direct calls from main,  *)
(* and a set of functions that may be called indirectly. Metastructure and *)
(* types of the functions follow in Signatures.                            *)
(*                                                                         *)
(* Code: lib/callgraph/callgraph.cc and include/callgraph/calltypes.h      *)
(***************************************************************************)
EXTENDS Integers, Sequences, FiniteSets, FiniteSetsExt, SequencesExt

CONSTANTS Sizes,      \* values of CG::VERTICES
          MaxEdges,   \* bound on the edges that CG::EDGESET sets
          Conns,      \* values of CG::ARTIFICIAL_CONNS
          AddLeafs,   \* values of CG::ADDLEAFS
          IndCounts,  \* values of CG::INDSETCNT
          Loopers     \* bound on the vertices that may get a self-loop

ASSUME OptionsAssumption ==
  /\ Sizes \subseteq Nat \ {0} /\ Conns \subseteq Nat /\ AddLeafs \subseteq Nat
  /\ IndCounts \subseteq Nat /\ Loopers \subseteq Nat /\ MaxEdges \in Nat

-----------------------------------------------------------------------------
VARIABLES phase,      \* the helper of the constructor that runs next
          size,       \* the number of vertices of graph_
          edges,      \* its edges, in the order they were added
          leafs,      \* leafs_
          non_leafs,  \* non_leafs_
          addleafs,   \* leafs still to add
          comps,      \* comps_: the head of each component and its members
          direct,     \* the edges whose calltype is DIRECT
          indsetcnt,  \* the number drawn for CG::INDSETCNT
          nindirect,  \* how many of them are still to be chosen
          outer,      \* the component that create_indcalls is at
          inds        \* inds_

vars == <<phase, size, edges, leafs, non_leafs, addleafs, comps, direct, indsetcnt,
          nindirect, outer, inds>>

Vertices == 0..(size - 1)

Edges == ToSet(edges)

without_loops(E) == {e \in E : e[1] # e[2]}
sources(E, v) == {e[1] : e \in {x \in E : x[2] = v}}
targets(E, S) == {e[2] : e \in {x \in E : x[1] \in S}}

\* The vertices of in-degree zero of the graph with n vertices and edges E.
heads_of(n, E) == {v \in 0..(n - 1) : sources(E, v) = {}}

\* What can be reached from S along E in at most i steps, for i up to n.
balls(n, E, S) ==
  LET ball[i \in 0..n] == IF i = 0 THEN S ELSE ball[i - 1] \cup targets(E, ball[i - 1])
  IN  ball

reach(n, E, S) == balls(n, E, S)[n]

\* Of n vertices those of S, and the edges of E between them, as loops visit them.
in_order(n, S) ==
  LET visited[i \in 0..n] ==
        IF i = 0 THEN <<>>
        ELSE LET before == visited[i - 1]
             IN  IF i - 1 \in S THEN Append(before, i - 1) ELSE before
  IN  visited[n]

edges_of(n, E, v) ==
  LET ws == in_order(n, targets(E, {v})) IN [k \in DOMAIN ws |-> <<v, ws[k]>>]
edges_in_order(n, E) == FlattenSeq([i \in 1..n |-> edges_of(n, E, i - 1)])

Init ==
  /\ phase = "generate"
  /\ size = 0 /\ edges = <<>>
  /\ leafs = {} /\ non_leafs = {} /\ addleafs = 0
  /\ comps = <<>> /\ direct = {}
  /\ indsetcnt = 0 /\ nindirect = 0 /\ outer = 0 /\ inds = <<>>

-----------------------------------------------------------------------------
(* generate_random_graph and process_leafs                                 *)

pairs(n) == {e \in (0..(n - 1)) \X (0..(n - 1)) : e[1] # e[2]}

\* The edges of an artificial head of a graph with n vertices: to k of them.
artificial(n, k) == {{<<n, v>> : v \in S} : S \in kSubset(Min({k, n}), 0..(n - 1))}

\* What CG::EDGESET may make of n vertices.
edge_sets(n) == {E \in SUBSET pairs(n) : Cardinality(E) <= MaxEdges}

\* Mutant of random_graphs: a graph without a head is left as it is.
random_graphs_headless(n) == {[size |-> n, edges |-> E] : E \in edge_sets(n)}

\* The graphs of n vertices, with an artificial head if they have no other.
random_graphs(n) ==
  {[size |-> n, edges |-> E] : E \in {F \in edge_sets(n) : heads_of(n, F) # {}}}
  \cup {[size |-> n + 1, edges |-> E \cup A] :
          E \in {F \in edge_sets(n) : heads_of(n, F) = {}}, A \in UNION {artificial(n, k) : k \in Conns}}

generate_random_graph ==
  /\ phase = "generate"
  /\ \E n \in Sizes : \E g \in random_graphs(n) :
       /\ size' = g.size
       /\ edges' = edges_in_order(g.size, g.edges)
       /\ leafs' = {v \in 0..(g.size - 1) : targets(g.edges, {v}) = {}}
       /\ non_leafs' = (0..(g.size - 1)) \ leafs'
  /\ addleafs' \in AddLeafs
  /\ phase' = "leafs"
  /\ UNCHANGED <<comps, direct, indsetcnt, nindirect, outer, inds>>

\* Mutant of process_leafs: the caller of the new leaf is any vertex.
process_leafs_anyone ==
  /\ phase = "leafs"
  /\ addleafs > 0
  /\ \E v \in Vertices : edges' = Append(edges, <<v, size>>)
  /\ leafs' = leafs \cup {size}
  /\ size' = size + 1
  /\ addleafs' = addleafs - 1
  /\ UNCHANGED <<phase, non_leafs, comps, direct, indsetcnt, nindirect, outer, inds>>

\* One more leaf, called by some non-leaf.
process_leafs ==
  /\ phase = "leafs"
  /\ addleafs > 0
  /\ \E v \in non_leafs : edges' = Append(edges, <<v, size>>)
  /\ leafs' = leafs \cup {size}
  /\ size' = size + 1
  /\ addleafs' = addleafs - 1
  /\ UNCHANGED <<phase, non_leafs, comps, direct, indsetcnt, nindirect, outer, inds>>

\* The assertion that there are non-leafs fails; a build without assertions
\* divides by zero for the first leaf, if there is one to add.
no_non_leafs ==
  /\ phase = "leafs"
  /\ non_leafs = {}
  /\ phase' = "fault"
  /\ UNCHANGED <<size, edges, leafs, non_leafs, addleafs, comps, direct, indsetcnt,
                 nindirect, outer, inds>>

leafs_added ==
  /\ phase = "leafs"
  /\ addleafs = 0
  /\ phase' = "connect"
  /\ UNCHANGED <<size, edges, leafs, non_leafs, addleafs, comps, direct, indsetcnt,
                 nindirect, outer, inds>>

-----------------------------------------------------------------------------
(* connect_components                                                      *)

\* Mutant of component: sets are linked along the direction of the edges only.
component_forward(v) == reach(size, Edges, {v})

\* The members of the component of v: disjoint sets linked along every edge.
component(v) == reach(size, Edges \cup {<<e[2], e[1]>> : e \in Edges}, {v})

Heads == heads_of(size, Edges)

\* The components that have a head, with their heads.
headed == {[heads |-> component(v) \cap Heads, members |-> component(v)] : v \in Heads}

\* The smallest head comes first in the vector of heads of a component.
top(c) == Min(c.heads)

\* hreps_vector: sorted by the number of heads, the largest first.
orders ==
  {s \in SetToSeqs(headed) :
     \A i, j \in DOMAIN s : i < j => Cardinality(s[i].heads) >= Cardinality(s[j].heads)}

\* Mutant of head_edges: the edges lead from the other heads to the top.
head_edges_reversed(c) == edges_in_order(size, {<<h, top(c)>> : h \in c.heads \ {top(c)}})

\* The edges from the top of c to its other heads.
head_edges(c) == edges_in_order(size, {<<top(c), h>> : h \in c.heads \ {top(c)}})

connect_components ==
  /\ phase = "connect"
  /\ \E s \in orders :
       /\ edges' = edges \o FlattenSeq([i \in DOMAIN s |-> head_edges(s[i])])
       /\ comps' = [i \in DOMAIN s |-> [head |-> top(s[i]), members |-> s[i].members]]
  /\ phase' = "loops"
  /\ UNCHANGED <<size, leafs, non_leafs, addleafs, direct, indsetcnt, nindirect, outer, inds>>

-----------------------------------------------------------------------------
(* add_self_loops                                                          *)

\* Mutant of bfs_edge: every edge that is looked at is a tree edge.
bfs_edge_any(found, e) ==
  [queue |-> IF e[2] \in ToSet(found.queue) THEN found.queue ELSE Append(found.queue, e[2]),
   tree |-> found.tree \cup {e}]

\* Breadth first search: the vertices in the order they are found, and the tree
\* edges they are found by. The edges of a vertex are tried in their order.
bfs_edge(found, e) ==
  IF e[2] \in ToSet(found.queue) THEN found
  ELSE [queue |-> Append(found.queue, e[2]), tree |-> found.tree \cup {e}]

bfs_visit(E, found, v) ==
  LET tried[k \in 0..Len(E)] ==
        IF k = 0 THEN found
        ELSE LET before == tried[k - 1]
             IN  IF E[k][1] = v THEN bfs_edge(before, E[k]) ELSE before
  IN  tried[Len(E)]

bfs(E, root) ==
  LET found[i \in 0..size] ==
        IF i = 0 THEN [queue |-> <<root>>, tree |-> {}]
        ELSE LET before == found[i - 1]
             IN  IF i \in DOMAIN before.queue THEN bfs_visit(E, before, before.queue[i]) ELSE before
  IN  found[size]

add_self_loops ==
  /\ phase = "loops"
  /\ \E S \in SUBSET (Loopers \cap Vertices) :
       edges' = edges \o edges_in_order(size, {<<v, v>> : v \in S})
  /\ direct' = bfs(edges', comps[1].head).tree
  /\ phase' = "indcnt"
  /\ UNCHANGED <<size, leafs, non_leafs, addleafs, comps, indsetcnt, nindirect, outer, inds>>

-----------------------------------------------------------------------------
(* create_indcalls                                                         *)

\* A component as the vector it is: its head, then the others in their order.
listing(c) == <<c.head>> \o in_order(size, c.members \ {c.head})

start_indcalls ==
  /\ phase = "indcnt"
  /\ indsetcnt' \in IndCounts
  /\ nindirect' = indsetcnt'
  /\ outer' = IF indsetcnt' > 0 THEN 2 ELSE Len(comps) + 1
  /\ phase' = "indcalls"
  /\ UNCHANGED <<size, edges, leafs, non_leafs, addleafs, comps, direct, inds>>

\* One turn of the outer loop. When nindirect comes to 0 the inner loop is left,
\* the outer one is not.
indirect_component ==
  /\ phase = "indcalls"
  /\ outer \in DOMAIN comps
  /\ LET vs == listing(comps[outer])
         n == IF nindirect \in 1..Len(vs) THEN nindirect ELSE Len(vs)
     IN  inds' = inds \o SubSeq(vs, 1, n) /\ nindirect' = nindirect - n
  /\ outer' = outer + 1
  /\ UNCHANGED <<phase, size, edges, leafs, non_leafs, addleafs, comps, direct, indsetcnt>>

\* Functions of the main component, but not main, fill the set.
indirect_main ==
  /\ phase = "indcalls"
  /\ outer \notin DOMAIN comps
  /\ LET rest == comps[1].members \ {comps[1].head}
         n == Min({nindirect, Cardinality(rest)})
     IN  \/ /\ nindirect > 0
            /\ \E S \in kSubset(n, rest) : inds' = inds \o in_order(size, S)
         \/ /\ nindirect <= 0
            /\ inds' = inds
  /\ phase' = "done"
  /\ UNCHANGED <<size, edges, leafs, non_leafs, addleafs, comps, direct, indsetcnt,
                 nindirect, outer>>

Terminating == phase \in {"done", "fault"} /\ UNCHANGED vars

Next ==
  \/ generate_random_graph \/ process_leafs \/ no_non_leafs \/ leafs_added
  \/ connect_components \/ add_self_loops
  \/ start_indcalls \/ indirect_component \/ indirect_main
  \/ Terminating

Spec == Init /\ [][Next]_vars

-----------------------------------------------------------------------------
connected == phase \in {"loops", "indcnt", "indcalls", "done"}
searched  == phase \in {"indcnt", "indcalls", "done"}
main == comps[1].head

\* The two assertions of the constructor. callgraph.cc:347: heads can not be empty
\* by construction, so there is a main; callgraph.cc:294: there are non-leafs to
\* call the new leafs, which takes a random graph without any edge to fail.
AssertionsHold ==
  /\ phase = "connect" => Heads # {}
  /\ phase = "fault" => edges = <<>>

\* After connect_components the head is the only function of its component that
\* nothing else calls: every other head was made reachable.
OneHead ==
  connected => \A i \in DOMAIN comps :
    heads_of(size, without_loops(Edges)) \cap comps[i].members = {comps[i].head}

\* The components do not overlap, no edge leaves one, and a function in none of
\* them is called by another one: it lies on or behind a cycle without a head.
ComponentsApart ==
  connected =>
    /\ \A i, j \in DOMAIN comps : i # j => comps[i].members \cap comps[j].members = {}
    /\ \A e \in Edges : \A i \in DOMAIN comps : e[1] \in comps[i].members <=> e[2] \in comps[i].members
    /\ \A v \in Vertices : \/ \E i \in DOMAIN comps : v \in comps[i].members
                           \/ \E u \in Vertices \ {v} : <<u, v>> \in Edges

\* leafs_ and non_leafs_ stay true while edges are added: a leaf never gets to
\* call anything but itself, a non-leaf always calls another function.
LeafsStayLeafs ==
  phase \notin {"generate", "fault"} =>
    /\ leafs \cup non_leafs = Vertices
    /\ \A v \in Vertices : v \in leafs <=> targets(without_loops(Edges), {v}) = {}

\* The direct calls are a tree that spans what main can reach: main is entered
\* by none, every other function by exactly one, and all from main.
DirectTree ==
  searched =>
    /\ reach(size, direct, {main}) = reach(size, Edges, {main})
    /\ \A e, f \in direct : e[2] = f[2] => e = f
    /\ \A e \in direct : e[2] # main /\ e[1] \in reach(size, direct, {main})
=============================================================================
