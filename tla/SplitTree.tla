----------------------------- MODULE SplitTree ------------------------------
(***************************************************************************)
(* The split tree of one function of a control graph: it starts as a row   *)
(* of blocks and direct calls under a pseudo vertex and is grown by        *)
(* splits, each of which adds sibling blocks and turns one block into a    *)
(* container (loop, if, switch, region) or a special block (break, call).  *)
(* Then variables are assigned to the vertices.                            *)
(*                                                                         *)
(* Code: lib/controlgraph/splittree.cc, include/controlgraph/splittree.h   *)
(* and include/controlgraph/controltypes.h                                 *)
(***************************************************************************)
EXTENDS Integers, Sequences

CONSTANTS MaxCallees,      \* bound on the callees of the function
          MaxSplits,       \* bound on MS::SPLITS
          AddBlocks,       \* values of CN::ADDBLOCKS
          IfBranches,      \* values of CN::NBRANCHES_IF
          SwitchBranches,  \* values of CN::NBRANCHES_SWITCH, which nothing reads
          RegionBranches   \* values of CN::NBRANCHES_RGN, which nothing reads

ASSUME BoundsAssumption == MaxCallees \in Nat /\ MaxSplits \in Nat
ASSUME BlocksAssumption ==
  /\ AddBlocks \subseteq Nat
  /\ \A option \in {IfBranches, SwitchBranches, RegionBranches} : option \subseteq Nat \ {0}

-----------------------------------------------------------------------------
(* Vertices and their properties (category_t and the variant common_t)     *)

PSEUDO_VERTEX  == 0
ILLEGAL_VERTEX == -1

vprop(cat, type, callee) == [cat |-> cat, type |-> type, callee |-> callee]
plain(cat) == vprop(cat, "none", 0)

block      == plain("BLOCK")
pseudo     == plain("ILLEGAL")
branching  == plain("BRANCHING")
call(t, g) == vprop("CALL", t, g)   \* callees are numbered by the function's edges
break(t)   == vprop("BREAK", t, 0)
loop       == plain("LOOP")

BranchingCats == {"IF", "SWITCH", "REGION"}
CallTypes  == {"DIRECT", "CONDITIONAL", "INDIRECT"}
BreakTypes == {"CONTINUE", "BREAK", "RETURN"}

Props == {pseudo, block, branching, loop} \cup {plain(c) : c \in BranchingCats}
         \cup {call(t, g) : t \in CallTypes, g \in 1..MaxCallees} \cup {break(t) : t \in BreakTypes}

is_branching(p) == p.cat \in BranchingCats
allow_uses(p)   == p.cat \notin BranchingCats
allow_defs(p)   == p.cat \in {"BLOCK", "CALL"}

-----------------------------------------------------------------------------
VARIABLES tree,     \* adj_, parent_of_, desc_of_ and bbs_
          cf,       \* the options drawn for this tree
          splits,   \* splits still to do
          phase,    \* "split", "done", or "fault" after a division by zero
          defs,     \* the vertices that were given definitions
          uses      \* the vertices that were given uses

vars == <<tree, cf, splits, phase, defs, uses>>

Vertices(t) == 0..(t.size - 1)

Config == [callees : 0..MaxCallees, splits : 0..MaxSplits, addblocks : AddBlocks, vars : BOOLEAN]

\* The seeds of a function with k callees: block, call, block, ..., call, block.
\* The iterators over callees ignore the type of call they are asked for, so the
\* callees are the targets of all edges of the function in the call graph.
seeds(k) ==
  LET last == 2 * k + 1
      prop(v) == IF v = PSEUDO_VERTEX THEN pseudo
                 ELSE IF v % 2 = 0 THEN call("DIRECT", v \div 2) ELSE block
  IN  [size   |-> last + 1,
       adj    |-> [v \in 0..last |-> IF v = PSEUDO_VERTEX THEN [i \in 1..last |-> i] ELSE <<>>],
       parent |-> [v \in 0..last |-> IF v = PSEUDO_VERTEX THEN ILLEGAL_VERTEX ELSE PSEUDO_VERTEX],
       desc   |-> [v \in 0..last |-> prop(v)],
       bbs    |-> {v \in 1..last : v % 2 = 1}]

Init ==
  /\ cf \in Config
  /\ tree = seeds(cf.callees)
  /\ splits = cf.splits
  /\ phase = "split"
  /\ defs = {} /\ uses = {}

-----------------------------------------------------------------------------
(* Editing the tree                                                        *)

\* new, a sequence of fresh vertices, is put behind position i of s.
insert_after(s, i, new) == SubSeq(s, 1, i) \o new \o SubSeq(s, i + 1, Len(s))

\* t with m fresh vertices, whose parents and properties par and prop give;
\* adj gives the children of every vertex.
grow(t, m, adj, par, prop) ==
  LET all == 0..(t.size + m - 1)
      new == t.size..(t.size + m - 1)
  IN  [size   |-> t.size + m,
       adj    |-> [v \in all |-> adj[v]],
       parent |-> [v \in all |-> IF v \in new THEN par[v] ELSE t.parent[v]],
       desc   |-> [v \in all |-> IF v \in new THEN prop[v] ELSE t.desc[v]],
       bbs    |-> t.bbs \cup {v \in new : prop[v] = block}]

\* Mutant of add_siblings: the parent of the new blocks is the block itself.
add_siblings_child(t, bb, k) ==
  LET n == t.size
      new == n..(n + k - 1)
      p == t.parent[bb]
      pos == CHOOSE i \in DOMAIN t.adj[p] : t.adj[p][i] = bb
      adj == [v \in 0..(n + k - 1) |->
                IF v = p THEN insert_after(t.adj[p], pos, [i \in 1..k |-> n + i - 1])
                ELSE IF v \in new THEN <<>> ELSE t.adj[v]]
  IN  grow(t, k, adj, [v \in new |-> bb], [v \in new |-> block])

\* add_block, k times in a row: the new blocks follow bb among its siblings.
add_siblings(t, bb, k) ==
  LET n == t.size
      new == n..(n + k - 1)
      p == t.parent[bb]
      pos == CHOOSE i \in DOMAIN t.adj[p] : t.adj[p][i] = bb
      adj == [v \in 0..(n + k - 1) |->
                IF v = p THEN insert_after(t.adj[p], pos, [i \in 1..k |-> n + i - 1])
                ELSE IF v \in new THEN <<>> ELSE t.adj[v]]
  IN  grow(t, k, adj, [v \in new |-> p], [v \in new |-> block])

\* Mutant of turn_block: the vertex stays among the blocks.
turn_block_tracked(t, v, prop) == [t EXCEPT !.desc[v] = prop]

\* turn_block: the vertex gets another property and leaves the blocks.
turn_block(t, v, prop) ==
  [size |-> t.size, adj |-> t.adj, parent |-> t.parent,
   desc |-> [t.desc EXCEPT ![v] = prop], bbs |-> t.bbs \ {v}]

\* A loop gets one block as its body.
make_loop(t, bb) ==
  LET n == t.size
      adj == [v \in 0..n |-> IF v = bb THEN <<n>> ELSE IF v = n THEN <<>> ELSE t.adj[v]]
  IN  grow(turn_block(t, bb, loop), 1, adj, [v \in {n} |-> bb], [v \in {n} |-> block])

\* An if, switch or region gets c branchings, all but the first inserted behind
\* the first, and then, the last branching first, one block under each.
make_branches(t, bb, cat, c) ==
  LET n == t.size
      new == n..(n + 2 * c - 1)
      inner(v) == v < n + c                  \* a branching, not its block
      body(v) == 2 * n + 2 * c - 1 - v       \* the block of a branching, and back
      adj == [v \in 0..(n + 2 * c - 1) |->
                IF v = bb THEN [i \in 1..c |-> IF i = 1 THEN n ELSE n + c + 1 - i]
                ELSE IF v < n THEN t.adj[v]
                ELSE IF inner(v) THEN <<body(v)>> ELSE <<>>]
  IN  grow(turn_block(t, bb, plain(cat)), 2 * c, adj,
           [v \in new |-> IF inner(v) THEN bb ELSE body(v)],
           [v \in new |-> IF inner(v) THEN branching ELSE block])

\* have_parent(v, LOOP): is there a loop above v?
have_loop(t, v) ==
  LET above[u \in Vertices(t)] ==
        LET p == t.parent[u]
        IN  u # PSEUDO_VERTEX /\ p # PSEUDO_VERTEX /\ (t.desc[p] = loop \/ above[p])
  IN  above[v]

\* Mutant of add_container: the number of branches is never drawn.
add_container_single(t, bb) ==
  {make_loop(t, bb)} \cup {make_branches(t, bb, cat, 1) : cat \in BranchingCats}

\* add_container: the trees that bb may be turned into. Whatever the category, the
\* number of branches is drawn from the option for ifs.
add_container(t, bb) ==
  {make_loop(t, bb)}
  \cup {make_branches(t, bb, cat, c) : cat \in BranchingCats, c \in IfBranches}

\* Mutant of add_special: no look at the parents for a break.
add_special_anywhere(t, bb, callees) ==
  {turn_block(t, bb, break(type)) : type \in BreakTypes}
  \cup (IF callees = 0 THEN {t}
        ELSE {turn_block(t, bb, call(type, g)) : type \in {"CONDITIONAL", "INDIRECT"},
                                                 g \in 1..callees})

\* Mutant of add_special: a call of any type is drawn.
add_special_direct(t, bb, callees) ==
  {turn_block(t, bb, break(type)) :
     type \in IF have_loop(t, bb) THEN BreakTypes ELSE {"RETURN"}}
  \cup (IF callees = 0 THEN {t}
        ELSE {turn_block(t, bb, call(type, g)) : type \in CallTypes, g \in 1..callees})

\* add_special: a break or continue only inside a loop, a call only if the
\* function has callees (random_callee is not -1), to any of them.
add_special(t, bb, callees) ==
  {turn_block(t, bb, break(type)) :
     type \in IF have_loop(t, bb) THEN BreakTypes ELSE {"RETURN"}}
  \cup (IF callees = 0 THEN {t}
        ELSE {turn_block(t, bb, call(type, g)) : type \in {"CONDITIONAL", "INDIRECT"},
                                                 g \in 1..callees})

\* The block that is split after k siblings were added behind bb: bb or one of
\* the siblings, but never the last of them.
split_targets(t, bb, k) == {bb} \cup {t.size + i : i \in 0..(k - 2)}

-----------------------------------------------------------------------------
(* split_tree_t::process                                                   *)

\* Mutant of do_split: no sibling is added.
do_split_bare(bb) ==
  tree' \in add_container(tree, bb) \cup add_special(tree, bb, cf.callees)

do_split(bb) ==
  LET k == cf.addblocks
      t == add_siblings(tree, bb, k)
  IN  \E v \in split_targets(tree, bb, k) :
        tree' \in add_container(t, v) \cup add_special(t, v, cf.callees)

\* Mutant of split: any vertex may be split, not only a block.
split_any ==
  /\ phase = "split"
  /\ splits > 0
  /\ tree.bbs # {}
  /\ \E bb \in Vertices(tree) \ {PSEUDO_VERTEX} : do_split(bb)
  /\ splits' = splits - 1
  /\ UNCHANGED <<cf, phase, defs, uses>>

split ==
  /\ phase = "split"
  /\ splits > 0
  /\ tree.bbs # {}
  /\ \E bb \in tree.bbs : do_split(bb)
  /\ splits' = splits - 1
  /\ UNCHANGED <<cf, phase, defs, uses>>

\* rand_positive() % navail with no basic block left.
split_no_block ==
  /\ phase = "split"
  /\ splits > 0
  /\ tree.bbs = {}
  /\ phase' = "fault"
  /\ UNCHANGED <<tree, cf, splits, defs, uses>>

\* assign_vars_to: a loop is left alone, the others get what their category
\* allows. How many definitions and uses a vertex gets, and which, is left out.
gets_defs(p) == p # loop /\ allow_defs(p)
gets_uses(p) == p # loop /\ allow_uses(p)

\* The vertices that the loop over adj_ visits: all but the pseudo vertex.
assigned_vertices(t) == 1..(t.size - 1)

\* The loop over accblocks that follows does nothing yet.
assign ==
  /\ phase = "split"
  /\ splits = 0
  /\ defs' = {v \in assigned_vertices(tree) : gets_defs(tree.desc[v])}
  /\ uses' = {v \in assigned_vertices(tree) : gets_uses(tree.desc[v])}
  /\ phase' = "done"
  /\ UNCHANGED <<cf, tree, splits>>

\* rand_positive() % nvars in a function that has no variables; it does not
\* come to that if CN::DEFS and CN::USES draw no variable for any vertex.
assign_no_variable ==
  /\ phase = "split"
  /\ splits = 0
  /\ ~cf.vars
  /\ \E v \in assigned_vertices(tree) : gets_defs(tree.desc[v]) \/ gets_uses(tree.desc[v])
  /\ phase' = "fault"
  /\ UNCHANGED <<cf, tree, splits, defs, uses>>

Terminating == phase \in {"done", "fault"} /\ UNCHANGED vars

Next == split \/ split_no_block \/ assign \/ assign_no_variable \/ Terminating

Spec == Init /\ [][Next]_vars

-----------------------------------------------------------------------------
\* The members of split_tree_t keep their types.
TypeOK ==
  /\ cf \in Config
  /\ splits \in 0..MaxSplits
  /\ phase \in {"split", "done", "fault"}
  /\ tree.size \in Nat \ {0}
  /\ tree.adj \in [Vertices(tree) -> Seq(Vertices(tree))]
  /\ tree.parent \in [Vertices(tree) -> Vertices(tree) \cup {ILLEGAL_VERTEX}]
  /\ tree.desc \in [Vertices(tree) -> Props]
  /\ tree.bbs \subseteq Vertices(tree)
  /\ defs \subseteq Vertices(tree) /\ uses \subseteq Vertices(tree)

\* The adjacency lists and parent_of_ describe one tree, however siblings and
\* children are inserted: a vertex is once in the list of its parent and in no
\* other, and parents are older than their children, so there is no cycle.
WellFormed(t) ==
  /\ \A p \in Vertices(t) : \A i \in DOMAIN t.adj[p] :
       t.adj[p][i] \in Vertices(t) /\ t.parent[t.adj[p][i]] = p
  /\ \A p \in Vertices(t) : \A i, j \in DOMAIN t.adj[p] : t.adj[p][i] = t.adj[p][j] => i = j
  /\ \A v \in Vertices(t) \ {PSEUDO_VERTEX} :
       /\ t.parent[v] \in 0..(v - 1)
       /\ \E i \in DOMAIN t.adj[t.parent[v]] : t.adj[t.parent[v]][i] = v

\* The tree is well formed after every split.
TreeWellFormed == WellFormed(tree)

\* bbs_ is the set of blocks, kept up to date by add_block and turn_block.
BlocksTracked == \A v \in Vertices(tree) : v \in tree.bbs <=> tree.desc[v] = block

\* Containers have bodies and other vertices have none; the children of an if,
\* switch or region are its branchings, for an if as many as its option says, and
\* nothing else is a branching.
Shaped(t) ==
  /\ \A v \in Vertices(t) : t.desc[v].cat \in {"BLOCK", "CALL", "BREAK"} => t.adj[v] = <<>>
  /\ \A v \in Vertices(t) : t.desc[v].cat \in {"LOOP", "BRANCHING"} => t.adj[v] # <<>>
  /\ \A v \in Vertices(t) : is_branching(t.desc[v]) => t.adj[v] # <<>>
  /\ \A v \in Vertices(t) : t.desc[v].cat = "IF" => Len(t.adj[v]) \in IfBranches
  /\ \A v \in Vertices(t) \ {PSEUDO_VERTEX} :
       is_branching(t.desc[t.parent[v]]) <=> t.desc[v] = branching

\* do_split leaves no container half made. How many branches a switch or region
\* should have is another question: see BranchesAsConfigured.
ContainersShaped == Shaped(tree)

\* An if, a switch and a region have as many branches as the option of their own
\* category allows ("Amount of branches inside ..."). add_container asks the
\* option for ifs for all three.
BranchesAsConfigured ==
  \A v \in Vertices(tree) :
    LET n == Len(tree.adj[v])
    IN  CASE tree.desc[v].cat = "IF"     -> n \in IfBranches
          [] tree.desc[v].cat = "SWITCH" -> n \in SwitchBranches
          [] tree.desc[v].cat = "REGION" -> n \in RegionBranches
          [] OTHER -> TRUE

\* A break or continue is inside a loop, also after later splits above it.
BreaksInLoops ==
  \A v \in Vertices(tree) :
    tree.desc[v] \in {break("BREAK"), break("CONTINUE")} => have_loop(tree, v)

\* The modulo of a random number is by zero only if no blocks are added on a
\* split, or if the function has no variables (CN::ADDBLOCKS, fv_begin/fv_end).
FaultsExplained == phase = "fault" => cf.addblocks = 0 \/ ~cf.vars

\* However the tree grows, a function calls each of its callees directly, once,
\* in their order and unconditionally: at the top, outside of all containers.
DirectCallsKept ==
  LET top == tree.adj[PSEUDO_VERTEX]
      direct(v) == tree.desc[v].type = "DIRECT"
      callee(v) == tree.desc[v].callee
  IN  /\ \A g \in 1..cf.callees : \E i \in DOMAIN top : tree.desc[top[i]] = call("DIRECT", g)
      /\ \A i, j \in DOMAIN top :
           i < j /\ direct(top[i]) /\ direct(top[j]) => callee(top[i]) < callee(top[j])
      /\ \A v \in Vertices(tree) :
           direct(v) => tree.parent[v] = PSEUDO_VERTEX /\ callee(v) \in 1..cf.callees

\* The elements of the sequence a are in b, in the same order.
Embedded(a, b) ==
  \A j \in DOMAIN a : \A i \in 1..j :
    \E x \in i..Len(b) : b[x] = a[i] /\ \E y \in (x + j - i)..Len(b) : b[y] = a[j]

\* From t to s vertices keep their parents and the order among their siblings,
\* and only blocks change into something else.
Grown(t, s) ==
  \A v \in Vertices(t) :
    /\ v \in Vertices(s) /\ s.parent[v] = t.parent[v]
    /\ t.desc[v] # block => s.desc[v] = t.desc[v]
    /\ Embedded(t.adj[v], s.adj[v])

\* Splits only add to the tree.
GrowsOnly == [][Grown(tree, tree')]_vars
=============================================================================
