----------------------------- MODULE UtilsProofs -----------------------------
(***************************************************************************)
(* Proofs about what include/utils offers.                                 *)
(*                                                                         *)
(* SemiTree, for any leafs and branches: insertion at any iterator keeps   *)
(* the rings of links whole, and no operation takes the caller's iterator  *)
(* out of the tree. Links, sentinels and iterators implement OrderedTree.  *)
(* IndentStream, for any widths: no line is indented twice or too far,     *)
(* however often the sink fails, and no started line gets a space.         *)
(***************************************************************************)
EXTENDS SemiTree, IndentStream, FiniteSetTheorems, WellFoundedInduction, TLAPS

-----------------------------------------------------------------------------
(* The semitree                                                            *)

\* The iterators a caller may hold: into the tree, or past its end.
Held(i) ==
  /\ i \in [kind : {"sibling", "inorder"}, ptr : Linkable, visited : BOOLEAN]
  /\ \/ i = inorder_end
     \/ i.ptr \in Linked /\ placed(parent[i.ptr])
  /\ i.kind = "inorder" => i.ptr \notin Sentinels

\* Sentinels are linked from the start, to their branch and to nobody else.
LEMMA SentinelsLinked ==
  ASSUME TypeOK, LinksMatch, NEW b \in Inner
  PROVE  sent(b) \in Linked /\ parent[sent(b)] = b /\ sent(b) \in Linkable
<1>1. sent(b) \in Linkable  BY DEF Linkable, Sentinels
<1>2. parent[sent(b)] = b  BY DEF LinksMatch
<1>3. b # Null  BY NodesAssumption DEF Linkable, Inner, Nodes
<1> QED  BY <1>1, <1>2, <1>3 DEF Linked

\* The neighbours of a linked node, in and out of a sentinel, are where it is.
LEMMA Neighbours ==
  ASSUME TypeOK, LinksMatch, NEW x \in Linked, placed(parent[x])
  PROVE  /\ next[x] \in Linked /\ placed(parent[next[x]])
         /\ prev[x] \in Linked /\ placed(parent[prev[x]])
         /\ parent[x] \in Inner /\ x \in Linkable
         /\ parent[next[x]] = parent[x] /\ parent[prev[x]] = parent[x]
<1>1. /\ next[x] \in Linked /\ parent[next[x]] = parent[x]
      /\ prev[x] \in Linked /\ parent[prev[x]] = parent[x]
  BY DEF LinksMatch
<1> QED  BY <1>1 DEF TypeOK, Linked

\* The branch a node hangs in is itself a position, as are its ends.
LEMMA ParentHeld ==
  ASSUME TypeOK, LinksMatch, NEW b \in Inner, placed(b)
  PROVE  /\ Held(inorder(b, TRUE))
         /\ b # Root => \A v \in BOOLEAN : Held(inorder(b, v))
<1>1. b \in Linkable /\ b \notin Sentinels
  BY NodesAssumption DEF Linkable, Inner, Nodes
<1>2. b = Root => inorder(b, TRUE) = inorder_end  BY DEF inorder_end
<1>3. b # Root => b \in Linked /\ b \notin Sentinels
  BY NodesAssumption DEF placed, Inner, Nodes
<1>4. b # Root => placed(parent[b])  BY <1>3 DEF LinksMatch
<1> QED  BY <1>1, <1>2, <1>3, <1>4 DEF Held, inorder

\* A linked node in the tree can be held in any way.
LEMMA LinkedHeld ==
  ASSUME TypeOK, LinksMatch, NEW x \in Linked, placed(parent[x])
  PROVE  /\ Held(sibling(x))
         /\ x \notin Sentinels => \A v \in BOOLEAN : Held(inorder(x, v))
BY DEF Held, sibling, inorder, Linked

\* Stepping out of a node leads to a sentinel from the ends of a ring only.
LEMMA EndsOfRings ==
  ASSUME TypeOK, LinksMatch, NEW x \in Linked, placed(parent[x])
  PROVE  /\ next[x] \in Sentinels => get_lastchild(parent[x]) = x
         /\ prev[x] \in Sentinels => get_firstchild(parent[x]) = x
<1>1. /\ parent[next[x]] = parent[x] /\ parent[prev[x]] = parent[x]
      /\ prev[next[x]] = x /\ next[prev[x]] = x
  BY DEF LinksMatch
<1>2. ASSUME NEW b \in Inner, NEW y, y = sent(b), parent[y] = parent[x]
      PROVE  y = sent(parent[x])
  BY <1>2, SentinelsLinked
<1> QED  BY <1>1, <1>2 DEF Sentinels, get_lastchild, get_firstchild

\* Conversions keep an iterator in the tree.
LEMMA ConversionsHeld ==
  ASSUME TypeOK, LinksMatch, NEW i, Held(i)
  PROVE  /\ i.kind = "inorder" => /\ to_sibling(i).ptr \in Linked
                                  /\ placed(parent[to_sibling(i).ptr])
                                  /\ Held(to_sibling(i))
         /\ i.kind = "sibling" => \A v \in BOOLEAN : Held(to_inorder(i, v))
<1>1. ASSUME i.kind = "inorder"
      PROVE  /\ to_sibling(i).ptr \in Linked
             /\ placed(parent[to_sibling(i).ptr])
  <2>1. CASE is_branch(i.ptr) /\ i.visited
    <3>1. to_sibling(i).ptr = sent(i.ptr)  BY <2>1 DEF to_sibling, sibling
    <3>2. i.ptr \in Inner  BY <2>1 DEF is_branch
    <3>3. sent(i.ptr) \in Linked /\ parent[sent(i.ptr)] = i.ptr
      BY <3>2, SentinelsLinked
    <3>4. placed(i.ptr)  BY DEF Held, inorder_end, inorder, placed
    <3> QED  BY <3>1, <3>3, <3>4
  <2>2. CASE ~(is_branch(i.ptr) /\ i.visited)
    <3>1. to_sibling(i).ptr = i.ptr  BY <2>2 DEF to_sibling, sibling
    <3>2. i # inorder_end
      BY <2>2 DEF inorder_end, inorder, is_branch, Inner
    <3> QED  BY <3>1, <3>2 DEF Held
  <2> QED  BY <2>1, <2>2
<1>2. ASSUME i.kind = "inorder" PROVE Held(to_sibling(i))
  <2>1. to_sibling(i) = sibling(to_sibling(i).ptr)  BY DEF to_sibling, sibling
  <2> QED  BY <1>1, <1>2, <2>1, LinkedHeld
<1>3. ASSUME i.kind = "sibling", NEW v \in BOOLEAN PROVE Held(to_inorder(i, v))
  <2>1. i.ptr \in Linked /\ placed(parent[i.ptr])
    BY <1>3 DEF Held, inorder_end, inorder
  <2>2. parent[i.ptr] \in Inner  BY <2>1, Neighbours
  <2>3. CASE i.ptr = sent(parent[i.ptr])
    <3>1. Held(inorder(parent[i.ptr], TRUE))  BY <2>1, <2>2, ParentHeld
    <3> QED  BY <2>3, <3>1 DEF to_inorder
  <2>4. CASE i.ptr # sent(parent[i.ptr])
    <3>1. i.ptr \notin Sentinels  BY <2>1, <2>4, SentinelsLinked DEF Sentinels
    <3>2. Held(inorder(i.ptr, v))  BY <2>1, <3>1, LinkedHeld
    <3> QED  BY <2>4, <3>2 DEF to_inorder
  <2> QED  BY <2>3, <2>4
<1> QED  BY <1>1, <1>2, <1>3

\* So do steps between the ends of the walk.
LEMMA StepsHeld ==
  ASSUME TypeOK, LinksMatch, NEW i, Held(i), i.kind = "inorder"
  PROVE  /\ ~equal(i, inorder_end) => Held(increment(i))
         /\ Held(decrement(i)) \/ equal(i, inorder_begin)
<1>1. ASSUME NEW b \in Inner, placed(b)
      PROVE  /\ get_firstchild(b) \in Linked /\ placed(parent[get_firstchild(b)])
             /\ get_lastchild(b) \in Linked /\ placed(parent[get_lastchild(b)])
  BY <1>1, SentinelsLinked, Neighbours DEF get_firstchild, get_lastchild
<1>2. i.ptr \in Inner => placed(i.ptr)
  BY DEF Held, inorder_end, inorder, placed
<1>3. i # inorder_end => i.ptr \in Linked /\ placed(parent[i.ptr]) /\ i.ptr # Root
  BY DEF Held, LinksMatch
<1>6. ASSUME NEW b \in Inner, placed(b), get_firstchild(b) # sent(b)
      PROVE  get_firstchild(b) \notin Sentinels /\ get_lastchild(b) \notin Sentinels
  <2>1. /\ sent(b) \in Linked /\ parent[sent(b)] = b  BY SentinelsLinked
  <2>2. /\ parent[get_firstchild(b)] = b /\ parent[get_lastchild(b)] = b
        /\ next[get_lastchild(b)] = sent(b)
    BY <2>1 DEF LinksMatch, get_firstchild, get_lastchild
  <2> QED  BY <1>6, <2>2, SentinelsLinked DEF Sentinels, get_firstchild
<1>4. ASSUME ~equal(i, inorder_end) PROVE Held(increment(i))
  <2>1. i # inorder_end  BY <1>4 DEF equal
  <2>2. CASE is_branch(i.ptr) /\ ~i.visited
    <3>1. i.ptr \in Inner /\ placed(i.ptr)  BY <1>2, <2>2 DEF is_branch
    <3>2. Held(inorder(i.ptr, TRUE))  BY <3>1, ParentHeld
    <3>3. ASSUME ~empty(i.ptr) PROVE Held(inorder(get_firstchild(i.ptr), FALSE))
      <4>1. get_firstchild(i.ptr) \notin Sentinels
        BY <3>1, <3>3, <1>6 DEF empty, get_firstchild
      <4> QED  BY <3>1, <1>1, <4>1, LinkedHeld
    <3> QED  BY <2>2, <3>2, <3>3 DEF increment
  <2>3. CASE ~(is_branch(i.ptr) /\ ~i.visited)
    <3>1. i.ptr \in Linked /\ placed(parent[i.ptr])  BY <1>3, <2>1
    <3>2. parent[i.ptr] \in Inner /\ next[i.ptr] \in Linked /\ placed(parent[next[i.ptr]])
      BY <3>1, Neighbours
    <3>3. Held(inorder(parent[i.ptr], TRUE))  BY <3>1, <3>2, ParentHeld
    <3>4. next[i.ptr] \notin Sentinels => Held(inorder(next[i.ptr], FALSE))
      BY <3>2, LinkedHeld
    <3>5. next[i.ptr] \in Sentinels =>
            has_parent(i.ptr) /\ get_lastchild(parent[i.ptr]) = i.ptr
      BY <3>1, EndsOfRings DEF Linked, has_parent
    <3> QED  BY <2>3, <3>3, <3>4, <3>5 DEF increment
  <2> QED  BY <2>2, <2>3
<1>5. ASSUME ~equal(i, inorder_begin) PROVE Held(decrement(i))
  <2>1. CASE is_branch(i.ptr) /\ i.visited
    <3>1. i.ptr \in Inner /\ placed(i.ptr)  BY <1>2, <2>1 DEF is_branch
    <3>2. ASSUME ~empty(i.ptr) PROVE Held(inorder(get_lastchild(i.ptr), TRUE))
      <4>1. get_lastchild(i.ptr) \notin Sentinels
        BY <3>1, <3>2, <1>6 DEF empty, get_firstchild
      <4> QED  BY <3>1, <1>1, <4>1, LinkedHeld
    <3>3. i.ptr # Root => Held(inorder(i.ptr, FALSE))  BY <3>1, ParentHeld
    <3>4. ASSUME i.ptr = Root, empty(i.ptr) PROVE FALSE
      <4>1. get_firstchild(Root) = sent(Root)  BY <3>4 DEF empty, get_firstchild
      <4>2. parent[sent(Root)] = Root  BY SentinelsLinked DEF Inner
      <4>3. inorder_begin = inorder(Root, TRUE)
        BY <4>1, <4>2 DEF inorder_begin, to_inorder, sibling
      <4>4. equal(i, inorder_begin)  BY <2>1, <3>4, <4>3 DEF equal, inorder
      <4> QED  BY <1>5, <4>4
    <3> QED  BY <2>1, <3>2, <3>3, <3>4 DEF decrement
  <2>2. CASE ~(is_branch(i.ptr) /\ i.visited)
    <3>1. i # inorder_end  BY <2>2 DEF inorder_end, inorder, is_branch, Inner
    <3>2. i.ptr \in Linked /\ placed(parent[i.ptr])  BY <1>3, <3>1
    <3>3. parent[i.ptr] \in Inner /\ prev[i.ptr] \in Linked /\ placed(parent[prev[i.ptr]])
      BY <3>2, Neighbours
    <3>4. prev[i.ptr] \notin Sentinels => Held(inorder(prev[i.ptr], TRUE))
      BY <3>3, LinkedHeld
    <3>7. prev[i.ptr] \in Sentinels =>
            has_parent(i.ptr) /\ get_firstchild(parent[i.ptr]) = i.ptr
      BY <3>2, EndsOfRings DEF Linked, has_parent
    <3>5. i.ptr \notin Sentinels /\ has_parent(i.ptr)
      BY <3>2 DEF Held, Linked, has_parent
    <3>8. parent[i.ptr] # Root => Held(inorder(parent[i.ptr], FALSE))
      BY <3>2, <3>3, ParentHeld
    <3>6. ASSUME parent[i.ptr] = Root, get_firstchild(Root) = i.ptr PROVE FALSE
      <4>1. i.ptr # sent(Root)  BY <3>5 DEF Sentinels, Inner
      <4>2. inorder_begin = inorder(i.ptr, FALSE)
        BY <3>6, <4>1 DEF inorder_begin, to_inorder, sibling
      <4> QED  BY <1>5, <2>2, <4>2 DEF equal, inorder, Held
    <3> QED  BY <2>2, <3>4, <3>5, <3>6, <3>7, <3>8 DEF decrement
  <2> QED  BY <2>1, <2>2
<1> QED  BY <1>4, <1>5
-----------------------------------------------------------------------------
(* The invariant                                                           *)

IndInv == TypeOK /\ LinksMatch

\* The sentinels close empty rings at the start, and nothing else is linked.
LEMMA InitInvariant == Init => IndInv
<1> SUFFICES ASSUME Init PROVE IndInv  OBVIOUS
<1>1. \A x \in Sentinels : x.sentinel \in Inner /\ x = sent(x.sentinel)
  BY DEF Sentinels, sent
<1>2. \A b \in Inner : sent(b) \in Sentinels /\ sent(b).sentinel = b /\ sent(b) \in Linkable
  BY DEF Sentinels, sent, Linkable
<1>3. Null \notin Inner /\ Root \in Linkable /\ Root \notin Sentinels /\ Root \in Inner
  BY NodesAssumption DEF Linkable, Inner, Nodes
<1>4. Linked = Sentinels  BY <1>1, <1>3 DEF Init, Linked, Linkable
<1>5. TypeOK
  BY <1>1, <1>3 DEF Init, TypeOK, inorder_end, inorder, Linkable
<1>6. LinksMatch
  <2>1. \A b \in Inner : parent[sent(b)] = b  BY <1>2 DEF Init
  <2>2. \A x \in Linked : /\ parent[x] \in Inner
                          /\ next[x] = x /\ prev[x] = x
    BY <1>1, <1>4 DEF Init, Linkable
  <2>3. \A x \in Linkable \ Linked : next[x] = Null /\ prev[x] = Null
    BY <1>4 DEF Init
  <2>4. Root \notin Linked  BY <1>3, <1>4
  <2>5. it = inorder_end /\ it.ptr \notin Sentinels
    BY <1>3 DEF Init, inorder_end, inorder
  <2> QED  BY <1>4, <2>1, <2>2, <2>3, <2>4, <2>5 DEF LinksMatch
<1> QED  BY <1>5, <1>6 DEF IndInv

\* Taking up an iterator that may be held changes no link.
LEMMA WalkInvariant ==
  ASSUME IndInv, NEW name, NEW i, Held(i), walk(name, i)
  PROVE  IndInv'
<1>1. UNCHANGED links /\ it' = i  BY DEF walk
<1>2. Linked' = Linked /\ parent' = parent  BY <1>1 DEF links, Linked
<1>3. \A b : placed(b)' <=> placed(b)  BY <1>2 DEF placed
<1>4. TypeOK'  BY <1>1 DEF IndInv, TypeOK, Held, links
<1>5. LinksMatch'
  BY <1>1, <1>2, <1>3 DEF IndInv, LinksMatch, Held, links, inorder_end, inorder
<1> QED  BY <1>4, <1>5 DEF IndInv

\* Linking n before pt, which is in the tree, puts n into the ring of pt: the
\* five links that insert_between writes are all that the new ring needs.
LEMMA InsertLinks ==
  ASSUME IndInv, NEW n \in Nodes, ~has_parent(n),
         NEW pt \in Linked, placed(parent[pt]), branch_insert(pt, n),
         it' = inorder_end \/ (it'.ptr \in Linked /\ placed(parent[it'.ptr])),
         it' \in [kind : {"sibling", "inorder"}, ptr : Linkable, visited : BOOLEAN],
         it'.kind = "inorder" => it'.ptr \notin Sentinels
  PROVE  IndInv'
<1> DEFINE left == prev[pt]
           b == parent[pt]
<1> USE DEF IndInv
<1>1. /\ left \in Linked /\ next[left] = pt /\ parent[left] = b
      /\ b \in Inner /\ b # Null /\ left \in Linkable /\ pt \in Linkable
  <2>1. left \in Linked /\ next[left] = pt /\ parent[left] = b
    BY DEF LinksMatch
  <2> QED  BY <2>1 DEF Linked, TypeOK
<1>2. n \in Linkable /\ n \notin Linked /\ n # left /\ n # pt
      /\ n \notin Sentinels /\ n # Root
  BY <1>1, NodesAssumption DEF Linkable, has_parent, Linked
<1>3. /\ next' = [next EXCEPT ![left] = n, ![n] = pt]
      /\ prev' = [prev EXCEPT ![n] = left, ![pt] = n]
      /\ parent' = [parent EXCEPT ![n] = b]
  BY <1>1 DEF branch_insert, insert_between
<1>4. Linked' = Linked \cup {n}
  BY <1>1, <1>2, <1>3 DEF Linked, TypeOK
<1>5. \A x \in Linkable :
        /\ parent'[x] = IF x = n THEN b ELSE parent[x]
        /\ next'[x] = IF x = n THEN pt ELSE IF x = left THEN n ELSE next[x]
        /\ prev'[x] = IF x = pt THEN n ELSE IF x = n THEN left ELSE prev[x]
  BY <1>1, <1>2, <1>3 DEF TypeOK
<1>6. b = Root \/ b \in Linked'  BY <1>4 DEF placed
<1>7. TypeOK'
  BY <1>1, <1>2, <1>3 DEF TypeOK
<1>8. ASSUME NEW x \in Linked'
      PROVE  /\ parent'[x] \in Inner
             /\ x \in Sentinels \/ parent'[x] = Root \/ parent'[x] \in Linked'
             /\ next'[x] \in Linked' /\ prev'[next'[x]] = x /\ parent'[next'[x]] = parent'[x]
             /\ prev'[x] \in Linked' /\ next'[prev'[x]] = x /\ parent'[prev'[x]] = parent'[x]
  <2>1. CASE x = n
    <3>1. parent'[n] = b /\ next'[n] = pt /\ prev'[n] = left  BY <1>2, <1>5
    <3>2. prev'[pt] = n /\ next'[left] = n /\ parent'[pt] = b /\ parent'[left] = b
      BY <1>1, <1>2, <1>5
    <3> QED  BY <2>1, <1>1, <1>4, <1>6, <3>1, <3>2
  <2>2. CASE x # n
    <3>1. x \in Linked /\ x \in Linkable  BY <2>2, <1>4 DEF Linked
    <3>2. /\ parent[x] \in Inner
          /\ x \in Sentinels \/ placed(parent[x])
          /\ next[x] \in Linked /\ prev[next[x]] = x /\ parent[next[x]] = parent[x]
          /\ prev[x] \in Linked /\ next[prev[x]] = x /\ parent[prev[x]] = parent[x]
      BY <3>1 DEF LinksMatch, TypeOK, Linked
    <3>3. next[x] \in Linkable /\ prev[x] \in Linkable /\ next[x] # n /\ prev[x] # n
      BY <3>2, <1>2 DEF Linked
    <3>4. /\ parent'[x] = parent[x]
          /\ x \in Sentinels \/ parent'[x] = Root \/ parent'[x] \in Linked'
      BY <2>2, <3>1, <3>2, <1>4, <1>5 DEF placed
    <3>5. /\ next'[x] \in Linked' /\ prev'[next'[x]] = x
          /\ parent'[next'[x]] = parent'[x]
      <4>1. CASE x = left
        <5>1. next'[x] = n  BY <4>1, <3>1, <2>2, <1>5
        <5> QED  BY <4>1, <5>1, <1>1, <1>2, <1>4, <1>5
      <4>2. CASE x # left
        <5>1. next'[x] = next[x]  BY <4>2, <3>1, <2>2, <1>5
        <5>2. next[x] # pt  BY <4>2, <3>2
        <5> QED  BY <5>1, <5>2, <3>2, <3>3, <3>4, <1>4, <1>5
      <4> QED  BY <4>1, <4>2
    <3>6. /\ prev'[x] \in Linked' /\ next'[prev'[x]] = x
          /\ parent'[prev'[x]] = parent'[x]
      <4>1. CASE x = pt
        <5>1. prev'[x] = n  BY <4>1, <3>1, <2>2, <1>5
        <5> QED  BY <4>1, <5>1, <1>1, <1>2, <1>4, <1>5
      <4>2. CASE x # pt
        <5>1. prev'[x] = prev[x]  BY <4>2, <3>1, <2>2, <1>5
        <5>2. prev[x] # left  BY <4>2, <3>2, <1>1
        <5> QED  BY <5>1, <5>2, <3>2, <3>3, <3>4, <1>4, <1>5
      <4> QED  BY <4>1, <4>2
    <3> QED  BY <3>2, <3>4, <3>5, <3>6
  <2> QED  BY <2>1, <2>2
<1>9. \A x \in Linkable \ Linked' : next'[x] = Null /\ prev'[x] = Null
  BY <1>1, <1>2, <1>4, <1>5 DEF LinksMatch
<1>10. \A c \in Inner : parent'[sent(c)] = c
  BY <1>2, <1>5, SentinelsLinked DEF LinksMatch, Sentinels
<1>11. Root \notin Linked'  BY <1>2, <1>4 DEF LinksMatch
<1>12. \/ it' = inorder_end
       \/ it'.ptr \in Linked' /\ (parent'[it'.ptr] = Root \/ parent'[it'.ptr] \in Linked')
  BY <1>2, <1>4, <1>5 DEF placed, Linked
<1>13. LinksMatch'
  BY <1>8, <1>9, <1>10, <1>11, <1>12 DEF LinksMatch, inorder_end, inorder, placed
<1> QED  BY <1>7, <1>13

\* Every operation of the caller keeps the invariant.
LEMMA NextInvariant == IndInv /\ [Next]_vars => IndInv'
<1> SUFFICES ASSUME IndInv, [Next]_vars PROVE IndInv'  OBVIOUS
<1> USE DEF IndInv
<1>1. Held(it)  BY DEF Held, TypeOK, LinksMatch
<1>2. ASSUME NEW b \in Inner, b = Root \/ has_parent(b)
      PROVE  Held(sibling(get_firstchild(b))) /\ Held(sibling(sent(b)))
  <2>1. placed(b)  BY <1>2 DEF placed, has_parent, Linked, Linkable, Inner, Nodes
  <2>2. sent(b) \in Linked /\ parent[sent(b)] = b  BY SentinelsLinked
  <2> QED  BY <2>1, <2>2, Neighbours, LinkedHeld DEF get_firstchild
<1>3. Held(inorder_begin) /\ Held(inorder_end)
  <2>1. Held(sibling(get_firstchild(Root)))  BY <1>2 DEF Inner
  <2>2. Held(inorder_begin)
    BY <2>1, ConversionsHeld DEF inorder_begin, sibling
  <2>3. placed(Root) /\ Root \in Inner  BY DEF placed, Inner
  <2> QED  BY <2>2, <2>3, ParentHeld DEF inorder_end
<1>4. CASE inorder_forward
  BY <1>1, <1>4, StepsHeld, WalkInvariant DEF inorder_forward
<1>5. CASE inorder_back
  BY <1>1, <1>5, StepsHeld, WalkInvariant DEF inorder_back
<1>6. CASE sibling_forward \/ sibling_back
  <2>1. it.kind = "sibling" => it.ptr \in Linked /\ placed(parent[it.ptr])
    BY <1>1 DEF Held, inorder_end, inorder
  <2>2. it.kind = "sibling" => Held(sibling(next[it.ptr])) /\ Held(sibling(prev[it.ptr]))
    BY <2>1, Neighbours, LinkedHeld
  <2> QED  BY <1>6, <2>2, WalkInvariant DEF sibling_forward, sibling_back
<1>7. CASE restart
  BY <1>2, <1>3, <1>7, WalkInvariant DEF restart
<1>8. CASE convert
  BY <1>1, <1>8, ConversionsHeld, WalkInvariant DEF convert
<1>9. ASSUME NEW n \in Nodes, insert_inorder(n) PROVE IndInv'
  <2> DEFINE pt == to_sibling(it).ptr
  <2>1. pt \in Linked /\ placed(parent[pt])
    BY <1>1, <1>9, ConversionsHeld DEF insert_inorder
  <2>2. branch_insert(pt, n) /\ ~has_parent(n)  BY <1>9 DEF insert_inorder
  <2>3. n \in Linkable /\ n # prev[pt]
    <3>1. prev[pt] \in Linked  BY <2>1, Neighbours
    <3> QED  BY <2>2, <3>1 DEF Linkable, has_parent, Linked
  <2>4. next'[n] = pt
    BY <2>2, <2>3 DEF branch_insert, insert_between, TypeOK
  <2>5. it' = to_inorder(sibling(pt), it.visited)
    BY <2>4, <1>9 DEF insert_inorder
  <2>6. Held(sibling(pt))  BY <2>1, LinkedHeld
  <2>7. Held(it')
    BY <2>5, <2>6, ConversionsHeld DEF sibling, TypeOK
  <2>8. it' = inorder_end \/ (it'.ptr \in Linked /\ placed(parent[it'.ptr]))
    BY <2>7 DEF Held
  <2> QED  BY <2>1, <2>2, <2>7, <2>8, InsertLinks DEF Held
<1>10. ASSUME NEW n \in Nodes, insert_sibling(n) PROVE IndInv'
  <2>1. it.ptr \in Linked /\ placed(parent[it.ptr])
    BY <1>1, <1>10 DEF Held, inorder_end, inorder, insert_sibling
  <2>2. branch_insert(it.ptr, n) /\ ~has_parent(n)  BY <1>10 DEF insert_sibling
  <2>3. n \in Linkable /\ n # prev[it.ptr]
    <3>1. prev[it.ptr] \in Linked  BY <2>1, Neighbours
    <3> QED  BY <2>2, <3>1 DEF Linkable, has_parent, Linked
  <2>4. it' = sibling(it.ptr)
    BY <1>10, <2>2, <2>3 DEF insert_sibling, branch_insert, insert_between, TypeOK
  <2> QED  BY <2>1, <2>2, <2>4, InsertLinks DEF sibling, TypeOK
<1>11. CASE UNCHANGED vars
  BY <1>11 DEF vars, links, TypeOK, LinksMatch, Linked, placed
<1> QED
  BY <1>4, <1>5, <1>6, <1>7, <1>8, <1>9, <1>10, <1>11 DEF Next

\* Whatever a caller does with iterators that it got from the tree, every node
\* is in the ring of its parent or in none.
THEOREM Invariance == Spec => []IndInv
BY InitInvariant, NextInvariant, PTL DEF Spec

\* The rings of siblings are whole in both directions and the caller's iterator
\* stays in the tree, for every number of nodes and insertions.
THEOREM RingsStayWhole == Spec => []LinksMatch
<1>1. IndInv => LinksMatch  BY DEF IndInv
<1> QED  BY Invariance, <1>1, PTL

-----------------------------------------------------------------------------
(* Steps undo each other                                                   *)

\* What is known of a node in a ring: its neighbours, and when they are ends.
LEMMA NodeInRing ==
  ASSUME IndInv, NEW x \in Linked \ Sentinels
  PROVE  /\ has_parent(x) /\ parent[x] \in Inner /\ placed(parent[x])
         /\ get_lastchild(parent[x]) = x <=> next[x] = sent(parent[x])
         /\ get_firstchild(parent[x]) = x <=> prev[x] = sent(parent[x])
         /\ prev[next[x]] = x /\ next[prev[x]] = x
         /\ get_lastchild(parent[x]) # x => /\ next[x] \in Linked \ Sentinels
                                            /\ parent[next[x]] = parent[x]
         /\ get_firstchild(parent[x]) # x => /\ prev[x] \in Linked \ Sentinels
                                             /\ parent[prev[x]] = parent[x]
<1> USE DEF IndInv
<1>1. parent[x] \in Inner /\ placed(parent[x]) /\ has_parent(x)
  BY DEF LinksMatch, TypeOK, Linked, has_parent
<1>2. /\ next[x] \in Linked /\ prev[next[x]] = x /\ parent[next[x]] = parent[x]
      /\ prev[x] \in Linked /\ next[prev[x]] = x /\ parent[prev[x]] = parent[x]
  BY DEF LinksMatch
<1>3. sent(parent[x]) \in Linked  BY <1>1, SentinelsLinked
<1>4. /\ prev[next[sent(parent[x])]] = sent(parent[x])
      /\ next[prev[sent(parent[x])]] = sent(parent[x])
  BY <1>3 DEF LinksMatch
<1> QED  BY <1>1, <1>2, <1>4, EndsOfRings DEF get_lastchild, get_firstchild

\* The first and the last child of a branch that has any.
LEMMA Children ==
  ASSUME IndInv, NEW b \in Inner, ~empty(b)
  PROVE  /\ get_firstchild(b) \in Linked \ Sentinels
         /\ parent[get_firstchild(b)] = b
         /\ get_lastchild(b) \in Linked \ Sentinels
         /\ parent[get_lastchild(b)] = b
<1> USE DEF IndInv
<1>1. sent(b) \in Linked /\ parent[sent(b)] = b  BY SentinelsLinked
<1>2. /\ get_firstchild(b) \in Linked /\ parent[get_firstchild(b)] = b
      /\ get_lastchild(b) \in Linked /\ parent[get_lastchild(b)] = b
      /\ next[get_lastchild(b)] = sent(b)
  BY <1>1 DEF LinksMatch, get_firstchild, get_lastchild
<1>3. get_firstchild(b) # sent(b) /\ get_lastchild(b) # sent(b)
  BY <1>2 DEF empty, get_firstchild
<1> QED  BY <1>2, <1>3, SentinelsLinked DEF Sentinels

\* Iterators to one node are equal if they agree on visited, or if it is a leaf.
LEMMA EqualIterators ==
  ASSUME NEW i, NEW x, NEW v,
         x = i.ptr, is_branch(x) => v = i.visited
  PROVE  equal(inorder(x, v), i)
BY DEF equal, inorder

\* A step forward from any position but the end is undone by one back.
LEMMA ForwardUndone ==
  ASSUME IndInv, NEW i \in Positions, ~equal(i, inorder_end)
  PROVE  equal(decrement(increment(i)), i)
<1> USE DEF IndInv
<1>1. i.ptr \in Linked \ Sentinels /\ i.visited \in BOOLEAN
  <2>1. CASE i \in {inorder(x, v) : x \in Linked \ Sentinels, v \in BOOLEAN}
    <3>1. PICK x \in Linked \ Sentinels, v \in BOOLEAN : i = inorder(x, v)
      BY <2>1
    <3> QED  BY <3>1 DEF inorder
  <2>2. CASE i = inorder_end  BY <2>2 DEF equal
  <2> QED  BY <2>1, <2>2 DEF Positions
<1>2. CASE is_branch(i.ptr) /\ ~i.visited
  <2>1. CASE empty(i.ptr)
    <3>1. increment(i) = inorder(i.ptr, TRUE)  BY <1>2, <2>1 DEF increment
    <3>2. decrement(inorder(i.ptr, TRUE)) = inorder(i.ptr, FALSE)
      BY <1>2, <2>1 DEF decrement, inorder
    <3> QED  BY <1>1, <1>2, <3>1, <3>2, EqualIterators
  <2>2. CASE ~empty(i.ptr)
    <3> DEFINE f == get_firstchild(i.ptr)
    <3>1. f \in Linked \ Sentinels /\ parent[f] = i.ptr
      BY <1>2, <2>2, Children DEF is_branch
    <3>2. has_parent(f)  BY <3>1, NodeInRing
    <3>3. increment(i) = inorder(f, FALSE)  BY <1>2, <2>2 DEF increment
    <3>4. decrement(inorder(f, FALSE)) = inorder(i.ptr, FALSE)
      BY <3>1, <3>2 DEF decrement, inorder
    <3> QED  BY <1>1, <1>2, <3>3, <3>4, EqualIterators
  <2> QED  BY <2>1, <2>2
<1>3. CASE ~(is_branch(i.ptr) /\ ~i.visited)
  <2> DEFINE q == parent[i.ptr]
  <2>1. q \in Inner /\ has_parent(i.ptr)  BY <1>1, NodeInRing
  <2>2. CASE get_lastchild(q) = i.ptr
    <3>1. increment(i) = inorder(q, TRUE)  BY <1>3, <2>1, <2>2 DEF increment
    <3>2. ~empty(q)
      <4>1. sent(q) \in Sentinels  BY <2>1 DEF Sentinels
      <4>2. sent(q) \in Linked /\ parent[sent(q)] = q  BY <2>1, SentinelsLinked
      <4>3. prev[next[sent(q)]] = sent(q)  BY <4>2 DEF LinksMatch
      <4> QED  BY <1>1, <2>2, <4>1, <4>3 DEF empty, get_lastchild
    <3>3. decrement(inorder(q, TRUE)) = inorder(i.ptr, TRUE)
      BY <2>1, <2>2, <3>2 DEF decrement, inorder, is_branch
    <3> QED  BY <1>1, <1>3, <3>1, <3>3, EqualIterators
  <2>3. CASE get_lastchild(q) # i.ptr
    <3> DEFINE y == next[i.ptr]
    <3>1. increment(i) = inorder(y, FALSE)  BY <1>3, <2>1, <2>3 DEF increment
    <3>2. y \in Linked \ Sentinels /\ parent[y] = q /\ prev[y] = i.ptr
      BY <1>1, <2>3, NodeInRing
    <3>3. get_firstchild(q) # y
      BY <1>1, <2>1, <3>2, NodeInRing DEF Sentinels
    <3>4. decrement(inorder(y, FALSE)) = inorder(i.ptr, TRUE)
      BY <3>2, <3>3 DEF decrement, inorder
    <3> QED  BY <1>1, <1>3, <3>1, <3>4, EqualIterators
  <2> QED  BY <2>2, <2>3
<1> QED  BY <1>2, <1>3

\* A step back from any position but the first is undone by one forward.
LEMMA BackUndone ==
  ASSUME IndInv, NEW i \in Positions, ~equal(i, inorder_begin)
  PROVE  equal(increment(decrement(i)), i)
<1> USE DEF IndInv
<1>0. i.visited \in BOOLEAN
  <2>1. CASE i \in {inorder(x, v) : x \in Linked \ Sentinels, v \in BOOLEAN}
    BY <2>1 DEF inorder
  <2>2. CASE i = inorder_end  BY <2>2 DEF inorder_end, inorder
  <2> QED  BY <2>1, <2>2 DEF Positions
<1>1. i.ptr \in Linked \ Sentinels \/ (i.ptr = Root /\ i.visited)
  <2>1. CASE i \in {inorder(x, v) : x \in Linked \ Sentinels, v \in BOOLEAN}
    <3>1. PICK x \in Linked \ Sentinels, v \in BOOLEAN : i = inorder(x, v)
      BY <2>1
    <3> QED  BY <3>1 DEF inorder
  <2>2. CASE i = inorder_end  BY <2>2 DEF inorder_end, inorder
  <2> QED  BY <2>1, <2>2 DEF Positions
<1>2. CASE is_branch(i.ptr) /\ i.visited
  <2>1. CASE empty(i.ptr)
    <3>1. decrement(i) = inorder(i.ptr, FALSE)  BY <1>2, <2>1 DEF decrement
    <3>2. increment(inorder(i.ptr, FALSE)) = inorder(i.ptr, TRUE)
      BY <1>2, <2>1 DEF increment, inorder
    <3> QED  BY <1>0, <1>2, <3>1, <3>2, EqualIterators
  <2>2. CASE ~empty(i.ptr)
    <3> DEFINE l == get_lastchild(i.ptr)
    <3>1. l \in Linked \ Sentinels /\ parent[l] = i.ptr
      BY <1>2, <2>2, Children DEF is_branch
    <3>2. has_parent(l)  BY <3>1, NodeInRing
    <3>3. decrement(i) = inorder(l, TRUE)  BY <1>2, <2>2 DEF decrement
    <3>4. increment(inorder(l, TRUE)) = inorder(i.ptr, TRUE)
      BY <3>1, <3>2 DEF increment, inorder
    <3> QED  BY <1>0, <1>2, <3>3, <3>4, EqualIterators
  <2> QED  BY <2>1, <2>2
<1>3. CASE ~(is_branch(i.ptr) /\ i.visited)
  <2> DEFINE q == parent[i.ptr]
  <2>0. i.ptr \in Linked \ Sentinels  BY <1>1, <1>3 DEF is_branch, Inner
  <2>1. q \in Inner /\ has_parent(i.ptr)  BY <2>0, NodeInRing
  <2>2. CASE get_firstchild(q) = i.ptr
    <3>1. decrement(i) = inorder(q, FALSE)  BY <1>3, <2>1, <2>2 DEF decrement
    <3>2. ~empty(q)
      BY <2>0, <2>1, <2>2 DEF empty, get_firstchild, Sentinels
    <3>3. increment(inorder(q, FALSE)) = inorder(i.ptr, FALSE)
      BY <2>1, <2>2, <3>2 DEF increment, inorder, is_branch
    <3> QED  BY <1>0, <1>3, <3>1, <3>3, EqualIterators
  <2>3. CASE get_firstchild(q) # i.ptr
    <3> DEFINE z == prev[i.ptr]
    <3>1. decrement(i) = inorder(z, TRUE)  BY <1>3, <2>1, <2>3 DEF decrement
    <3>2. z \in Linked \ Sentinels /\ parent[z] = q /\ next[z] = i.ptr
      BY <2>0, <2>3, NodeInRing
    <3>3. get_lastchild(q) # z
      BY <2>0, <2>1, <3>2, NodeInRing DEF Sentinels
    <3>4. increment(inorder(z, TRUE)) = inorder(i.ptr, FALSE)
      BY <3>2, <3>3 DEF increment, inorder
    <3> QED  BY <1>0, <1>3, <3>1, <3>4, EqualIterators
  <2> QED  BY <2>2, <2>3
<1> QED  BY <1>2, <1>3

\* ++ and -- undo each other at every position of every tree, up to the equality
\* of iterators, although they may leave different visited flags.
THEOREM StepsUndoEachOther == Spec => []StepsUndo
<1>1. IndInv => StepsUndo
  BY ForwardUndone, BackUndone DEF StepsUndo
<1> QED  BY Invariance, <1>1, PTL

-----------------------------------------------------------------------------
(* Naturals and functions that iterate                                     *)

\* A set of naturals that is not empty has a least element.
LEMMA Least ==
  ASSUME NEW T, T \subseteq Nat, T # {}
  PROVE  \E m \in T : \A k \in T : m <= k
<1>1. IsWellFoundedOn(OpToRel(<, Nat), Nat)
  BY NatLessThanWellFounded
<1>2. PICK x \in T : \A y \in T : ~ (<<y, x>> \in OpToRel(<, Nat))
  BY <1>1, WFMin
<1>3. \A y \in T : ~(y < x)
  BY <1>2 DEF OpToRel
<1> QED
  BY <1>3

\* What holds of 0 and of the successor of what it holds of holds up to n.
LEMMA Induction ==
  ASSUME NEW n \in Nat, NEW T, 0 \in T, \A i \in 1..n : i - 1 \in T => i \in T
  PROVE  0..n \subseteq T
<1> SUFFICES ASSUME NEW j \in 0..n, j \notin T PROVE FALSE
  OBVIOUS
<1> DEFINE U == (0..n) \ T
<1>0. U \subseteq Nat /\ U # {}
  OBVIOUS
<1>1. PICK m \in U : \A k \in U : m <= k
  <2> HIDE DEF U
  <2> QED
    BY <1>0, Least
<1>2. m \in 1..n /\ m - 1 \in T
  BY <1>1
<1> QED
  BY <1>1, <1>2

\* F takes A on in n steps.
Iterated(n, D, A, F) ==
  \E g \in [0..n -> D] : g[0] = A /\ \A i \in 1..n : g[i] = F[<<i, g[i - 1]>>]

\* So it is for functions of a step and a member of a set to that set.
LEMMA IterateExists ==
  ASSUME NEW n \in Nat, NEW D, NEW A \in D, NEW F \in [(1..n) \X D -> D]
  PROVE  Iterated(n, D, A, F)
<1> DEFINE Upto(k) == \E g \in [0..k -> D] : g[0] = A /\ \A i \in 1..k : g[i] = F[<<i, g[i - 1]>>]
           T == {k \in 0..n : Upto(k)}
<1>1. Upto(0)
  <2> DEFINE g == [i \in 0..0 |-> A]
  <2>1. g \in [0..0 -> D] /\ g[0] = A /\ \A i \in 1..0 : g[i] = F[<<i, g[i - 1]>>]
    OBVIOUS
  <2> QED
    BY <2>1
<1>2. ASSUME NEW k \in 1..n, Upto(k - 1)
      PROVE  Upto(k)
  <2>1. PICK g \in [0..(k - 1) -> D] : g[0] = A /\ \A i \in 1..(k - 1) : g[i] = F[<<i, g[i - 1]>>]
    BY <1>2
  <2> DEFINE last == F[<<k, g[k - 1]>>]
             h == [i \in 0..k |-> IF i = k THEN last ELSE g[i]]
  <2>2. last \in D
    <3>1. g[k - 1] \in D
      BY <2>1
    <3> QED
      BY <3>1
  <2>3. h \in [0..k -> D]
    BY <2>1, <2>2
  <2>4. h[0] = A /\ \A i \in 1..(k - 1) : h[i] = g[i] /\ h[i - 1] = g[i - 1]
    BY <2>1
  <2>5. h[k] = F[<<k, h[k - 1]>>]
    <3>1. h[k] = last
      OBVIOUS
    <3>2. h[k - 1] = g[k - 1]
      OBVIOUS
    <3> HIDE DEF h
    <3> QED
      BY <3>1, <3>2
  <2>6. \A i \in 1..k : h[i] = F[<<i, h[i - 1]>>]
    <3> HIDE DEF h
    <3> TAKE i \in 1..k
    <3>1. CASE i = k
      BY <2>5, <3>1
    <3>2. CASE i # k
      <4>1. i \in 1..(k - 1)
        BY <3>2
      <4> QED
        BY <2>1, <2>4, <4>1
    <3> QED
      BY <3>1, <3>2
  <2> HIDE DEF h
  <2> QED
    BY <2>3, <2>4, <2>6
<1> HIDE DEF Upto
<1>3. 0 \in T /\ \A i \in 1..n : i - 1 \in T => i \in T
  BY <1>1, <1>2
<1>4. Upto(n)
  <2>1. 0..n \subseteq T
    <3> HIDE DEF T
    <3> QED
      BY <1>3, Induction
  <2> QED
    BY <2>1
<1>5. PICK g \in [0..n -> D] : g[0] = A /\ \A i \in 1..n : g[i] = F[<<i, g[i - 1]>>]
  BY <1>4 DEF Upto
<1> QED
  BY <1>5 DEF Iterated

\* Two functions that agree at 0 and after every step at which they agreed.
LEMMA SameLast ==
  ASSUME NEW n \in Nat, NEW f, NEW g, f[0] = g[0],
         \A i \in 1..n : f[i - 1] = g[i - 1] => f[i] = g[i]
  PROVE  f[n] = g[n]
<1> DEFINE T == {i \in 0..n : f[i] = g[i]}
<1>1. 0 \in T /\ \A i \in 1..n : i - 1 \in T => i \in T
  OBVIOUS
<1>2. 0..n \subseteq T
  <2> HIDE DEF T
  <2> QED
    BY <1>1, Induction
<1> QED
  BY <1>2
-----------------------------------------------------------------------------
(* Sequences                                                               *)

\* No element of s occurs twice.
Distinct(s) == \A i, j \in 1..Len(s) : s[i] = s[j] => i = j
Items(s) == {s[i] : i \in 1..Len(s)}

\* t is s with e at position i.
HasAt(t, s, i, e) ==
  /\ Len(t) = Len(s) + 1 /\ t[i] = e
  /\ \A j \in 1..(i - 1) : t[j] = s[j]
  /\ \A j \in (i + 1)..(Len(s) + 1) : t[j] = s[j - 1]

\* s is a and then b.
Joined(a, b, s) ==
  /\ Len(s) = Len(a) + Len(b)
  /\ \A i \in 1..Len(a) : s[i] = a[i]
  /\ \A i \in 1..Len(b) : s[Len(a) + i] = b[i]

\* What \o does to sequences over a set.
LEMMA Joins ==
  ASSUME NEW S, NEW a \in Seq(S), NEW b \in Seq(S)
  PROVE  a \o b \in Seq(S) /\ Joined(a, b, a \o b)
BY DEF Joined

\* What SubSeq does.
LEMMA PartOf ==
  ASSUME NEW S, NEW s \in Seq(S), NEW m \in 1..(Len(s) + 1), NEW n \in (m - 1)..Len(s)
  PROVE  /\ SubSeq(s, m, n) \in Seq(S) /\ Len(SubSeq(s, m, n)) = n + 1 - m
         /\ \A j \in 1..(n + 1 - m) : SubSeq(s, m, n)[j] = s[m + j - 1]
<1>1. \A j \in 1..(n + 1 - m) : m + j - 1 \in 1..Len(s)
  OBVIOUS
<1>2. SubSeq(s, m, n) = [j \in 1..(n + 1 - m) |-> s[m + j - 1]]
  OBVIOUS
<1>3. n + 1 - m \in Nat
  OBVIOUS
<1>4. [j \in 1..(n + 1 - m) |-> s[m + j - 1]] \in [1..(n + 1 - m) -> S]
  BY <1>1
<1> QED
  BY <1>2, <1>3, <1>4

\* What InsertAt of the ordered tree does.
LEMMA InsertedAt ==
  ASSUME NEW S, NEW s \in Seq(S), NEW e \in S, NEW i \in 1..(Len(s) + 1)
  PROVE  Ordered!InsertAt(s, i, e) \in Seq(S) /\ HasAt(Ordered!InsertAt(s, i, e), s, i, e)
<1> DEFINE left == SubSeq(s, 1, i - 1)
           right == SubSeq(s, i, Len(s))
<1>0. Len(s) \in Nat
  OBVIOUS
<1>1. PICK a \in Seq(S) : /\ a = left /\ Len(a) = i - 1
                          /\ \A j \in 1..(i - 1) : a[j] = s[j]
  <2>1. /\ left \in Seq(S) /\ Len(left) = (i - 1) + 1 - 1
        /\ \A j \in 1..((i - 1) + 1 - 1) : left[j] = s[1 + j - 1]
    BY <1>0, PartOf
  <2>2. \A j \in 1..(i - 1) : 1 + j - 1 = j
    OBVIOUS
  <2>3. (i - 1) + 1 - 1 = i - 1
    OBVIOUS
  <2> HIDE DEF left
  <2> QED
    BY <2>1, <2>2, <2>3
<1>2. PICK z \in Seq(S) : /\ z = right /\ Len(z) = Len(s) + 1 - i
                          /\ \A j \in 1..(Len(s) + 1 - i) : z[j] = s[i + j - 1]
  <2>1. /\ right \in Seq(S) /\ Len(right) = Len(s) + 1 - i
        /\ \A j \in 1..(Len(s) + 1 - i) : right[j] = s[i + j - 1]
    BY <1>0, PartOf
  <2> HIDE DEF right
  <2> QED
    BY <2>1
<1>3. PICK o \in Seq(S) : o = <<e>> /\ Len(o) = 1 /\ o[1] = e
  <2>1. <<e>> \in Seq(S) /\ Len(<<e>>) = 1 /\ <<e>>[1] = e
    OBVIOUS
  <2> QED
    BY <2>1
<1>4. PICK u \in Seq(S) : u = a \o o /\ Joined(a, o, u)
  BY <1>1, <1>3, Joins
<1>5. PICK t \in Seq(S) : t = u \o z /\ Joined(u, z, t)
  BY <1>2, <1>4, Joins
<1>6. Ordered!InsertAt(s, i, e) = t
  BY <1>1, <1>2, <1>3, <1>4, <1>5 DEF Ordered!InsertAt, left, right
<1> HIDE DEF left, right
<1>7. /\ Len(u) = i /\ u[i] = e /\ Len(t) = Len(s) + 1 /\ \A j \in 1..(i - 1) : u[j] = s[j]
  <2>1. Len(u) = i /\ (i - 1) + 1 = i
    BY <1>1, <1>3, <1>4 DEF Joined
  <2>2. u[i] = e
    BY <1>1, <1>3, <1>4, <2>1 DEF Joined
  <2>3. Len(t) = Len(s) + 1
    BY <1>0, <1>2, <1>5, <2>1 DEF Joined
  <2> QED
    BY <1>1, <1>4, <2>1, <2>2, <2>3 DEF Joined
<1>8. t[i] = e /\ \A j \in 1..(i - 1) : t[j] = s[j]
  BY <1>5, <1>7 DEF Joined
<1>9. ASSUME NEW j \in (i + 1)..(Len(s) + 1)
      PROVE  t[j] = s[j - 1]
  <2>1. PICK k \in 1..(Len(s) + 1 - i) : k = j - i
    OBVIOUS
  <2>2. i + k = j /\ i + k - 1 = j - 1
    BY <2>1
  <2>3. t[i + k] = z[k]
    BY <1>2, <1>5, <1>7 DEF Joined
  <2> QED
    BY <1>2, <2>2, <2>3
<1> QED
  BY <1>5, <1>6, <1>7, <1>8, <1>9 DEF HasAt

\* A new element keeps a sequence without repetitions so.
LEMMA InsertedDistinct ==
  ASSUME NEW S, NEW s \in Seq(S), NEW t \in Seq(S), NEW e \in S, NEW i \in 1..(Len(s) + 1),
         HasAt(t, s, i, e), Distinct(s), e \notin Items(s)
  PROVE  Distinct(t) /\ Items(t) = Items(s) \cup {e}
<1> DEFINE was(j) == IF j < i THEN j ELSE j - 1
<1>1. \A j \in 1..Len(t) : j # i => was(j) \in 1..Len(s) /\ t[j] = s[was(j)] /\ t[j] \in Items(s)
  BY DEF HasAt, Items
<1>2. t[i] = e /\ i \in 1..Len(t)
  BY DEF HasAt
<1>3. ASSUME NEW j \in 1..Len(t), NEW k \in 1..Len(t), t[j] = t[k]
      PROVE  j = k
  <2>1. CASE j = i \/ k = i
    BY <1>1, <1>2, <1>3, <2>1
  <2>2. CASE j # i /\ k # i
    <3>1. was(j) = was(k)
      BY <1>1, <1>3, <2>2 DEF Distinct
    <3> QED
      BY <2>2, <3>1
  <2> QED
    BY <2>1, <2>2
<1>4. ASSUME NEW x \in Items(s)
      PROVE  x \in Items(t)
  <2>1. PICK j \in 1..Len(s) : x = s[j]
    BY <1>4 DEF Items
  <2>2. CASE j < i
    <3>1. j \in 1..Len(t) /\ t[j] = s[j]
      BY <2>2 DEF HasAt
    <3> QED
      BY <2>1, <3>1 DEF Items
  <2>3. CASE ~(j < i)
    <3>1. j + 1 \in 1..Len(t) /\ t[j + 1] = s[j]
      BY <2>3 DEF HasAt
    <3> QED
      BY <2>1, <3>1 DEF Items
  <2> QED
    BY <2>2, <2>3
<1>5. Items(t) \subseteq Items(s) \cup {e}
  BY <1>1, <1>2 DEF Items
<1>6. e \in Items(t)
  BY <1>2 DEF Items
<1> QED
  BY <1>3, <1>4, <1>5, <1>6 DEF Distinct

\* There are no more elements in it than in the set they are from.
LEMMA DistinctLength ==
  ASSUME NEW S, IsFiniteSet(S), NEW s \in Seq(S), Distinct(s)
  PROVE  Len(s) <= Cardinality(S) /\ Cardinality(S) \in Nat
<1>1. Cardinality(S) \in Nat
  BY FS_CardinalityType
<1>2. /\ IsFiniteSet(1..Len(s)) /\ Cardinality(1..Len(s)) = Len(s)
  <2>1. Len(s) \in Nat /\ Len(s) \in Int /\ 1 \in Int
    OBVIOUS
  <2>2. \A n \in Nat : (IF 1 > n THEN 0 ELSE n - 1 + 1) = n
    OBVIOUS
  <2> QED
    BY <2>1, <2>2, FS_Interval
<1>3. s \in Injection(1..Len(s), S)
  <2>1. s \in [1..Len(s) -> S]
    OBVIOUS
  <2>2. \A i, j \in 1..Len(s) : s[i] = s[j] => i = j
    BY DEF Distinct
  <2> QED
    BY <2>1, <2>2 DEF Injection, IsInjective
<1> QED
  BY <1>1, <1>2, <1>3, FS_Injection
-----------------------------------------------------------------------------
(* The rings, as lists                                                     *)

\* The places of a ring with s: the sentinel is before the first and after the
\* last.
At(b, s, i) == IF i \in 1..Len(s) THEN s[i] ELSE sent(b)

\* The children of b are those in s, in the order of their links.
Ring(nx, pa, b, s) ==
  /\ s \in Seq(Nodes) /\ Distinct(s)
  /\ \A x \in Nodes : pa[x] = b <=> x \in Items(s)
  /\ \A i \in 0..Len(s) : nx[At(b, s, i)] = At(b, s, i + 1)

Rings(nx, pa) == \A b \in Inner : \E s : Ring(nx, pa, b, s)

\* No branch is in itself: r falls from a branch to those in it.
Falls(pa, m, r) ==
  r \in [Inner -> 0..m] /\ \A n \in Branches : pa[n] # Null => r[n] < r[pa[n]]

Heights(pa) == \E m \in Nat : \E r : Falls(pa, m, r)

\* The caller's sibling iterators are made from a pointer alone.
Plain == it.kind = "sibling" => ~it.visited

TreeInv == IndInv /\ Rings(next, parent) /\ Heights(parent) /\ Plain

\* The nodes, the root, the sentinels and the null pointer are different things.
LEMMA Apart ==
  /\ \A b \in Inner : sent(b) \in Linkable /\ sent(b) \in Sentinels /\ sent(b) \notin Nodes /\ b # Null
  /\ \A b, c : sent(b) = sent(c) => b = c
  /\ \A x \in Nodes : x \in Linkable /\ x \notin Sentinels /\ x # Root
  /\ Branches \subseteq Inner /\ Branches \subseteq Nodes /\ Root \in Inner
<1>1. \A b, c : sent(b) = sent(c) => b = c
  <2> TAKE b, c
  <2>1. sent(b).sentinel = b /\ sent(c).sentinel = c
    BY DEF sent
  <2> QED
    BY <2>1
<1> QED
  BY <1>1, NodesAssumption DEF Linkable, Sentinels, Nodes, Inner

\* At the start all rings are empty.
LEMMA InitTree == Init => TreeInv
<1> SUFFICES ASSUME Init PROVE TreeInv
  OBVIOUS
<1>1. ASSUME NEW b \in Inner
      PROVE  Ring(next, parent, b, <<>>)
  <2>1. next[sent(b)] = sent(b) /\ \A x \in Nodes : parent[x] = Null
    BY Apart DEF Init
  <2>2. <<>> \in Seq(Nodes) /\ Len(<<>>) = 0
    OBVIOUS
  <2>3. Distinct(<<>>) /\ Items(<<>>) = {}
    BY <2>2 DEF Distinct, Items
  <2>4. At(b, <<>>, 0) = sent(b) /\ At(b, <<>>, 1) = sent(b)
    BY <2>2 DEF At
  <2> QED
    BY <2>1, <2>2, <2>3, <2>4, Apart DEF Ring
<1>2. Falls(parent, 0, [b \in Inner |-> 0])
  BY Apart DEF Init, Falls
<1>3. Plain
  BY DEF Init, Plain, inorder_end, inorder
<1> QED
  BY <1>1, <1>2, <1>3, InitInvariant DEF Rings, Heights, TreeInv

\* What branch_insert does to the links.
LEMMA Linking ==
  ASSUME IndInv, NEW n \in Nodes, ~has_parent(n),
         NEW pt \in Linked, placed(parent[pt]), branch_insert(pt, n)
  PROVE  /\ n # pt /\ n # prev[pt] /\ prev[pt] \in Linked /\ parent[pt] \in Inner /\ parent[n] = Null
         /\ next[n] = Null
         /\ \A x \in Linkable : next'[x] = IF x = n THEN pt ELSE IF x = prev[pt] THEN n ELSE next[x]
         /\ \A x \in Linkable : parent'[x] = IF x = n THEN parent[pt] ELSE parent[x]
<1> USE DEF IndInv
<1>1. prev[pt] \in Linked /\ parent[prev[pt]] = parent[pt] /\ parent[pt] \in Inner
  BY Neighbours
<1>2. n \in Linkable /\ parent[n] = Null /\ n \notin Linked
  BY Apart DEF has_parent, Linked
<1>3. n # pt /\ n # prev[pt] /\ next[n] = Null
  BY <1>1, <1>2 DEF LinksMatch
<1> QED
  BY <1>1, <1>2, <1>3 DEF branch_insert, insert_between, TypeOK, Linked

\* Where the children of a branch are linked.
LEMMA InRing ==
  ASSUME IndInv, NEW x \in Linked, placed(parent[x]), NEW s, Ring(next, parent, parent[x], s)
  PROVE  /\ \E i \in 1..(Len(s) + 1) : At(parent[x], s, i) = x
         /\ \A i \in 1..(Len(s) + 1) : At(parent[x], s, i) = x =>
              prev[x] = At(parent[x], s, i - 1)
<1> USE DEF IndInv
<1>0. Len(s) \in Nat /\ parent[x] \in Inner /\ s \in Seq(Nodes)
  BY Neighbours DEF Ring
<1>1. x \in Nodes \/ x = sent(parent[x])
  <2>1. x \in Nodes \cup Sentinels
    BY DEF Linked, Linkable, LinksMatch
  <2>2. ASSUME NEW b \in Inner, x = sent(b)
        PROVE  b = parent[x]
    BY <2>2, SentinelsLinked
  <2> QED
    BY <2>1, <2>2 DEF Sentinels
<1>2. \E i \in 1..(Len(s) + 1) : At(parent[x], s, i) = x
  <2>1. CASE x \in Nodes
    <3>1. x \in Items(s)
      BY <2>1 DEF Ring
    <3>2. PICK i \in 1..Len(s) : s[i] = x
      BY <3>1 DEF Items
    <3> QED
      BY <1>0, <3>2 DEF At
  <2>2. CASE x = sent(parent[x])
    <3>1. Len(s) + 1 \in 1..(Len(s) + 1) /\ Len(s) + 1 \notin 1..Len(s)
      BY <1>0
    <3> QED
      BY <2>2, <3>1 DEF At
  <2> QED
    BY <1>1, <2>1, <2>2
<1>3. ASSUME NEW i \in 1..(Len(s) + 1), At(parent[x], s, i) = x
      PROVE  prev[x] = At(parent[x], s, i - 1)
  <2>1. PICK y : y = At(parent[x], s, i - 1)
    OBVIOUS
  <2>2. next[y] = x
    <3>1. i - 1 \in 0..Len(s) /\ (i - 1) + 1 = i
      BY <1>0
    <3> QED
      BY <1>3, <2>1, <3>1 DEF Ring
  <2>3. y \in Linked
    <3>1. CASE i - 1 \in 1..Len(s)
      <4>1. y \in Nodes /\ y \in Items(s)
        BY <1>0, <2>1, <3>1 DEF At, Items
      <4>2. parent[y] = parent[x]
        BY <4>1 DEF Ring
      <4> QED
        BY <1>0, <4>1, <4>2, Apart DEF Linked
    <3>2. CASE i - 1 \notin 1..Len(s)
      BY <1>0, <2>1, <3>2, SentinelsLinked DEF At
    <3> QED
      BY <3>1, <3>2
  <2> QED
    BY <2>1, <2>2, <2>3 DEF LinksMatch
<1> QED
  BY <1>2, <1>3

\* The new ring.
LEMMA InsertRing ==
  ASSUME IndInv, NEW n \in Nodes, ~has_parent(n),
         NEW pt \in Linked, placed(parent[pt]), branch_insert(pt, n),
         NEW b \in Inner, b = parent[pt], NEW s, Ring(next, parent, b, s),
         NEW i \in 1..(Len(s) + 1), At(b, s, i) = pt,
         NEW t \in Seq(Nodes), HasAt(t, s, i, n)
  PROVE  Ring(next', parent', b, t)
<1>1. /\ n # pt /\ n # prev[pt] /\ parent[n] = Null
      /\ \A x \in Linkable : next'[x] = IF x = n THEN pt ELSE IF x = prev[pt] THEN n ELSE next[x]
      /\ \A x \in Linkable : parent'[x] = IF x = n THEN b ELSE parent[x]
  BY Linking
<1>2. /\ s \in Seq(Nodes) /\ Len(s) \in Nat /\ Distinct(s)
      /\ \A x \in Nodes : parent[x] = b <=> x \in Items(s)
      /\ \A j \in 0..Len(s) : next[At(b, s, j)] = At(b, s, j + 1)
  BY DEF Ring
<1>3. n \notin Items(s)
  BY <1>1, <1>2, Apart
<1>4. Distinct(t) /\ Items(t) = Items(s) \cup {n}
  BY <1>2, <1>3, InsertedDistinct
<1>5. \A x \in Nodes : parent'[x] = b <=> x \in Items(t)
  BY <1>1, <1>2, <1>4, Apart
<1>6. prev[pt] = At(b, s, i - 1)
  BY InRing
<1>7. Len(t) = Len(s) + 1 /\ At(b, t, i) = n
  <2>1. Len(t) = Len(s) + 1 /\ t[i] = n
    BY DEF HasAt
  <2> QED
    BY <1>2, <2>1 DEF At
<1>8. \A j \in 0..(i - 1) : At(b, t, j) = At(b, s, j)
  <2> TAKE j \in 0..(i - 1)
  <2>1. CASE j = 0
    BY <1>7, <2>1 DEF At
  <2>2. CASE j # 0
    <3>1. j \in 1..(i - 1) /\ j \in 1..Len(s) /\ j \in 1..Len(t)
      BY <1>2, <1>7, <2>2
    <3> QED
      BY <3>1 DEF At, HasAt
  <2> QED
    BY <2>1, <2>2
<1>9. \A j \in (i + 1)..(Len(s) + 2) : At(b, t, j) = At(b, s, j - 1)
  <2> TAKE j \in (i + 1)..(Len(s) + 2)
  <2>1. CASE j = Len(s) + 2
    <3>1. j \notin 1..Len(t) /\ j - 1 \notin 1..Len(s)
      BY <1>2, <1>7, <2>1
    <3> QED
      BY <3>1 DEF At
  <2>2. CASE j # Len(s) + 2
    <3>1. j \in (i + 1)..(Len(s) + 1) /\ j \in 1..Len(t) /\ j - 1 \in 1..Len(s)
      BY <1>2, <1>7, <2>2
    <3> QED
      BY <3>1 DEF At, HasAt
  <2> QED
    BY <2>1, <2>2
<1>10. \A j \in 0..(Len(s) + 1) : At(b, s, j) \in Linkable /\ At(b, s, j) # n
  <2> TAKE j \in 0..(Len(s) + 1)
  <2>1. CASE j \in 1..Len(s)
    <3>1. s[j] \in Items(s) /\ s[j] \in Nodes
      BY <1>2, <2>1 DEF Items
    <3> QED
      BY <1>3, <2>1, <3>1, Apart DEF At
  <2>2. CASE j \notin 1..Len(s)
    BY <2>2, Apart DEF At
  <2> QED
    BY <2>1, <2>2
<1>11. \A j, k \in 0..Len(s) : At(b, s, j) = At(b, s, k) => j = k
  <2> SUFFICES ASSUME NEW j \in 0..Len(s), NEW k \in 0..Len(s), At(b, s, j) = At(b, s, k)
               PROVE  j = k
    OBVIOUS
  <2>1. \A l \in 1..Len(s) : s[l] # sent(b)
    BY <1>2, Apart
  <2>2. \A l \in 0..Len(s) : l \in 1..Len(s) \/ l = 0
    BY <1>2
  <2> QED
    BY <2>1, <2>2, <1>2 DEF At, Distinct
<1>12. ASSUME NEW j \in 0..Len(t)
       PROVE  next'[At(b, t, j)] = At(b, t, j + 1)
  <2>1. CASE j < i - 1
    <3>1. /\ j \in 0..(i - 1) /\ j + 1 \in 0..(i - 1) /\ j \in 0..Len(s) /\ i - 1 \in 0..Len(s) /\ j # i - 1
      BY <1>2, <2>1
    <3>2. At(b, s, j) # prev[pt]
      BY <1>6, <1>11, <3>1
    <3>3. next'[At(b, s, j)] = next[At(b, s, j)]
      BY <1>1, <1>2, <1>10, <3>1, <3>2
    <3> QED
      BY <1>2, <1>8, <3>1, <3>3
  <2>2. CASE j = i - 1
    <3>1. i - 1 \in 0..(i - 1) /\ i - 1 \in 0..(Len(s) + 1) /\ j + 1 = i
      BY <1>2, <2>2
    <3>2. At(b, t, j) = prev[pt] /\ prev[pt] \in Linkable
      BY <1>6, <1>8, <1>10, <2>2, <3>1
    <3> QED
      BY <1>1, <1>7, <3>1, <3>2
  <2>3. CASE j = i
    <3>1. i + 1 \in (i + 1)..(Len(s) + 2) /\ (i + 1) - 1 = i
      BY <1>2
    <3>2. At(b, t, i + 1) = pt
      BY <1>9, <3>1
    <3> QED
      BY <1>1, <1>7, <2>3, <3>2, Apart
  <2>4. CASE j > i
    <3>1. /\ j \in (i + 1)..(Len(s) + 2) /\ j + 1 \in (i + 1)..(Len(s) + 2)
          /\ j - 1 \in 0..Len(s) /\ j - 1 \in 0..(Len(s) + 1) /\ i - 1 \in 0..Len(s)
          /\ j - 1 # i - 1 /\ (j + 1) - 1 = (j - 1) + 1
      BY <1>2, <1>7, <2>4
    <3>2. At(b, s, j - 1) # prev[pt]
      BY <1>6, <1>11, <3>1
    <3>3. next'[At(b, s, j - 1)] = next[At(b, s, j - 1)]
      BY <1>1, <1>10, <3>1, <3>2
    <3>4. At(b, t, j) = At(b, s, j - 1) /\ At(b, t, j + 1) = At(b, s, (j - 1) + 1)
      BY <1>9, <3>1
    <3> QED
      BY <1>2, <3>1, <3>3, <3>4
  <2>5. j < i - 1 \/ j = i - 1 \/ j = i \/ j > i
    BY <1>7
  <2> QED
    BY <2>1, <2>2, <2>3, <2>4, <2>5
<1> QED
  BY <1>4, <1>5, <1>12 DEF Ring

\* Other rings stay.
LEMMA OtherRings ==
  ASSUME IndInv, NEW n \in Nodes, ~has_parent(n),
         NEW pt \in Linked, placed(parent[pt]), branch_insert(pt, n),
         NEW c \in Inner, c # parent[pt], NEW s, Ring(next, parent, c, s)
  PROVE  Ring(next', parent', c, s)
<1>1. /\ parent[n] = Null /\ prev[pt] \in Linked
      /\ \A x \in Linkable : next'[x] = IF x = n THEN pt ELSE IF x = prev[pt] THEN n ELSE next[x]
      /\ \A x \in Linkable : parent'[x] = IF x = n THEN parent[pt] ELSE parent[x]
  BY Linking
<1>2. /\ s \in Seq(Nodes) /\ Distinct(s) /\ Len(s) \in Nat
      /\ \A x \in Nodes : parent[x] = c <=> x \in Items(s)
      /\ \A i \in 0..Len(s) : next[At(c, s, i)] = At(c, s, i + 1)
  BY DEF Ring
<1>3. \A x \in Nodes : parent'[x] = c <=> x \in Items(s)
  BY <1>1, <1>2, Apart
<1>4. parent[prev[pt]] = parent[pt]
  BY DEF IndInv, LinksMatch
<1>5. ASSUME NEW i \in 0..Len(s)
      PROVE  next'[At(c, s, i)] = next[At(c, s, i)]
  <2>1. PICK x : x = At(c, s, i)
    OBVIOUS
  <2>2. x \in Linkable /\ parent[x] = c
    <3>1. CASE i \in 1..Len(s)
      <4>1. s[i] \in Nodes /\ s[i] \in Items(s)
        BY <1>2, <3>1 DEF Items
      <4> QED
        BY <1>2, <2>1, <3>1, <4>1, Apart DEF At
    <3>2. CASE i \notin 1..Len(s)
      BY <2>1, <3>2, Apart DEF At, IndInv, LinksMatch
    <3> QED
      BY <3>1, <3>2
  <2>3. x # n /\ x # prev[pt]
    BY <1>1, <1>4, <2>2, Apart
  <2> QED
    BY <1>1, <2>1, <2>2, <2>3
<1> QED
  BY <1>2, <1>3, <1>5 DEF Ring

\* A branch that is new has no branch in it yet.
LEMMA InsertHeights ==
  ASSUME IndInv, Heights(parent), NEW n \in Nodes, ~has_parent(n),
         NEW pt \in Linked, placed(parent[pt]), branch_insert(pt, n)
  PROVE  Heights(parent')
<1>1. PICK m \in Nat : \E r : Falls(parent, m, r)
  BY DEF Heights
<1>2. PICK r : Falls(parent, m, r)
  BY <1>1
<1>3. /\ parent[n] = Null /\ parent[pt] \in Inner /\ n # parent[pt]
      /\ \A x \in Linkable : parent'[x] = IF x = n THEN parent[pt] ELSE parent[x]
  <2>1. n # parent[pt]
    BY Apart DEF placed, has_parent, Linked
  <2> QED
    BY <2>1, Linking
<1>4. \A x \in Nodes : parent[x] # n
  <2> SUFFICES ASSUME NEW x \in Nodes, parent[x] = n PROVE FALSE
    OBVIOUS
  <2>1. x \in Linked /\ x \notin Sentinels
    BY Apart, NodesAssumption DEF Linked
  <2>2. placed(n)
    BY <2>1 DEF IndInv, LinksMatch
  <2> QED
    BY <2>2, Apart DEF placed, has_parent, Linked
<1> DEFINE q == [c \in Inner |-> IF c = n THEN 0 ELSE r[c] + 1]
<1>5. q \in [Inner -> 0..(m + 1)] /\ m + 1 \in Nat
  BY <1>2 DEF Falls
<1>6. ASSUME NEW c \in Branches, parent'[c] # Null
      PROVE  q[c] < q[parent'[c]]
  <2>1. c \in Linkable /\ c \in Nodes /\ c \in Inner
    BY Apart
  <2>2. CASE c = n
    BY <1>2, <1>3, <2>1, <2>2 DEF Falls
  <2>3. CASE c # n
    <3>1. parent'[c] = parent[c] /\ parent[c] # n
      BY <1>3, <1>4, <2>1, <2>3
    <3>2. parent[c] \in Inner
      BY <1>6, <2>1, <3>1 DEF IndInv, TypeOK
    <3>3. r[c] < r[parent[c]] /\ r[c] \in 0..m /\ r[parent[c]] \in 0..m
      BY <1>2, <1>6, <2>1, <3>1, <3>2 DEF Falls
    <3> QED
      BY <2>1, <2>3, <3>1, <3>2, <3>3
  <2> QED
    BY <2>2, <2>3
<1>7. Falls(parent', m + 1, q)
  BY <1>5, <1>6 DEF Falls
<1> QED
  BY <1>5, <1>7 DEF Heights
-----------------------------------------------------------------------------
(* The rings stay lists                                                    *)

\* The visit that a pointer among siblings stands for.
visitAt(pt) == IF pt \in Sentinels THEN <<parent[pt], TRUE>> ELSE <<pt, FALSE>>

\* A node is linked before a pointer into the tree, and the caller stays at the
\* visit of that pointer.
Inserting(n, pt) ==
  /\ pt \in Linked /\ placed(parent[pt])
  /\ branch_insert(pt, n) /\ ~has_parent(n)
  /\ Visit(it) = visitAt(pt) /\ Visit(it)' = visitAt(pt)
  /\ op' = "insert"

\* A linked sentinel is that of its parent.
LEMMA SentinelOf ==
  ASSUME IndInv, NEW x \in Linked
  PROVE  x \in Sentinels <=> x = sent(parent[x])
<1>1. parent[x] \in Inner
  BY DEF IndInv, TypeOK, Linked
<1>2. ASSUME NEW b \in Inner, x = sent(b)
      PROVE  x = sent(parent[x])
  BY <1>2, SentinelsLinked DEF IndInv
<1> QED
  BY <1>1, <1>2 DEF Sentinels

\* What the caller holds points into the tree or to its end.
LEMMA CallerHeld ==
  ASSUME TreeInv
  PROVE  /\ Held(it) /\ it.visited \in BOOLEAN /\ it.kind \in {"sibling", "inorder"}
         /\ it.kind = "sibling" => /\ it.ptr \in Linked /\ placed(parent[it.ptr])
                                   /\ it = sibling(it.ptr) /\ ~it.visited
         /\ it.kind = "inorder" => /\ it \in Positions /\ it.ptr \notin Sentinels
                                   /\ it = inorder(it.ptr, it.visited)
<1>1. Held(it)
  BY DEF TreeInv, IndInv, Held, TypeOK, LinksMatch
<1>2. it.visited \in BOOLEAN /\ it.kind \in {"sibling", "inorder"}
  BY DEF TreeInv, IndInv, TypeOK
<1>3. ASSUME it.kind = "sibling"
      PROVE  it.ptr \in Linked /\ placed(parent[it.ptr]) /\ it = sibling(it.ptr) /\ ~it.visited
  <2>1. it.ptr \in Linked /\ placed(parent[it.ptr])
    BY <1>1, <1>3 DEF Held, inorder_end, inorder
  <2>2. ~it.visited
    BY <1>3 DEF TreeInv, Plain
  <2>3. it = sibling(it.ptr)
    BY <1>2, <1>3, <2>2 DEF TreeInv, IndInv, TypeOK, sibling
  <2> QED
    BY <2>1, <2>2, <2>3
<1>4. ASSUME it.kind = "inorder"
      PROVE  it \in Positions /\ it.ptr \notin Sentinels /\ it = inorder(it.ptr, it.visited)
  <2>1. it.ptr \notin Sentinels
    BY <1>1, <1>4 DEF Held
  <2>2. it = inorder(it.ptr, it.visited)
    BY <1>2, <1>4 DEF TreeInv, IndInv, TypeOK, inorder
  <2>3. it = inorder_end \/ it.ptr \in Linked \ Sentinels
    BY <1>1, <2>1 DEF Held
  <2> QED
    BY <1>2, <2>1, <2>2, <2>3 DEF Positions
<1> QED
  BY <1>1, <1>2, <1>3, <1>4

\* Both insertions link before a pointer, which the caller then stands at.
LEMMA InsertInorder ==
  ASSUME TreeInv, NEW n \in Nodes, insert_inorder(n)
  PROVE  Inserting(n, to_sibling(it).ptr) /\ it'.kind = "inorder"
<1> USE DEF IndInv
<1>0. IndInv /\ Held(it) /\ it.kind = "inorder" /\ it.ptr \notin Sentinels
  BY CallerHeld DEF insert_inorder, TreeInv
<1>10. PICK pt : pt = to_sibling(it).ptr
  OBVIOUS
<1>1. pt \in Linked /\ placed(parent[pt])
  BY <1>0, <1>10, ConversionsHeld
<1>2. branch_insert(pt, n) /\ ~has_parent(n)
  BY <1>10 DEF insert_inorder
<1>3. n \in Linkable /\ n # prev[pt] /\ n # pt
  BY <1>0, <1>1, <1>2, Linking, Apart
<1>4. next'[n] = pt
  BY <1>0, <1>2, <1>3 DEF branch_insert, insert_between, TypeOK
<1>5. it' = to_inorder(sibling(pt), it.visited) /\ op' = "insert"
  BY <1>4, <1>10 DEF insert_inorder
<1>6. parent[pt] \in Inner /\ (pt \in Sentinels <=> pt = sent(parent[pt]))
  BY <1>0, <1>1, Neighbours, SentinelOf
<1>7. CASE is_branch(it.ptr) /\ it.visited
  <2>1. pt = sent(it.ptr) /\ it.ptr \in Inner
    BY <1>7, <1>10 DEF to_sibling, sibling, is_branch
  <2>2. parent[pt] = it.ptr /\ pt \in Sentinels
    BY <1>0, <2>1, SentinelsLinked DEF Sentinels
  <2>3. it' = inorder(it.ptr, TRUE)
    BY <1>5, <1>6, <2>2 DEF to_inorder, sibling
  <2>4. Visit(it) = <<it.ptr, TRUE>> /\ Visit(it)' = <<it.ptr, TRUE>>
    BY <1>0, <1>7, <2>3 DEF Visit, inorder, is_branch
  <2>5. Inserting(n, pt)
    <3>1. visitAt(pt) = <<it.ptr, TRUE>>
      BY <2>2 DEF visitAt
    <3> QED
      BY <1>1, <1>2, <1>5, <2>4, <3>1 DEF Inserting
  <2> QED
    BY <1>10, <2>3, <2>5 DEF inorder
<1>8. CASE ~(is_branch(it.ptr) /\ it.visited)
  <2>1. pt = it.ptr /\ pt \notin Sentinels
    BY <1>0, <1>8, <1>10 DEF to_sibling, sibling
  <2>2. it' = inorder(pt, it.visited)
    BY <1>5, <1>6, <2>1 DEF to_inorder, sibling
  <2>3. Visit(it) = <<it.ptr, FALSE>> /\ Visit(it)' = <<it.ptr, FALSE>>
    BY <1>0, <1>8, <2>1, <2>2 DEF Visit, inorder, is_branch
  <2>4. Inserting(n, pt)
    <3>1. visitAt(pt) = <<it.ptr, FALSE>>
      BY <2>1 DEF visitAt
    <3> QED
      BY <1>1, <1>2, <1>5, <2>3, <3>1 DEF Inserting
  <2> QED
    BY <1>10, <2>2, <2>4 DEF inorder
<1> QED
  BY <1>7, <1>8

\* A sibling iterator stays as it is.
LEMMA InsertSibling ==
  ASSUME TreeInv, NEW n \in Nodes, insert_sibling(n)
  PROVE  Inserting(n, it.ptr) /\ it' = sibling(it.ptr)
<1> USE DEF IndInv
<1>0. /\ IndInv /\ it.kind = "sibling" /\ ~it.visited
      /\ it.ptr \in Linked /\ placed(parent[it.ptr])
  BY CallerHeld DEF insert_sibling, TreeInv
<1>2. branch_insert(it.ptr, n) /\ ~has_parent(n)
  BY DEF insert_sibling
<1>3. /\ n \in Linkable /\ n # prev[it.ptr] /\ n # it.ptr
      /\ parent'[it.ptr] = parent[it.ptr]
  BY <1>0, <1>2, Linking, Apart DEF Linked
<1>4. it' = sibling(it.ptr) /\ op' = "insert"
  BY <1>0, <1>2, <1>3 DEF insert_sibling, branch_insert, insert_between, TypeOK
<1>5. Visit(it) = visitAt(it.ptr)
  BY <1>0 DEF Visit, visitAt
<1>6. Visit(it)' = visitAt(it.ptr)
  BY <1>3, <1>4 DEF Visit, visitAt, sibling
<1> QED
  BY <1>0, <1>2, <1>4, <1>5, <1>6 DEF Inserting

\* Insertion keeps the rings lists, and no branch gets into itself.
LEMMA InsertKeeps ==
  ASSUME TreeInv, NEW n \in Nodes, NEW pt, Inserting(n, pt)
  PROVE  Rings(next', parent') /\ Heights(parent')
<1>0. /\ IndInv /\ pt \in Linked /\ placed(parent[pt]) /\ branch_insert(pt, n)
      /\ ~has_parent(n) /\ Rings(next, parent) /\ Heights(parent)
  BY DEF TreeInv, Inserting
<1>1. ASSUME NEW c \in Inner
      PROVE  \E s : Ring(next', parent', c, s)
  <2>1. PICK s : Ring(next, parent, c, s)
    BY <1>0 DEF Rings
  <2>2. CASE c = parent[pt]
    <3>1. PICK i \in 1..(Len(s) + 1) : At(c, s, i) = pt
      BY <1>0, <2>1, <2>2, InRing
    <3>2. PICK t : t = Ordered!InsertAt(s, i, n)
      OBVIOUS
    <3>3. t \in Seq(Nodes) /\ HasAt(t, s, i, n)
      BY <2>1, <3>2, InsertedAt DEF Ring
    <3>4. Ring(next', parent', c, t)
      BY <1>0, <2>1, <2>2, <3>1, <3>3, InsertRing
    <3> QED
      BY <3>4
  <2>3. CASE c # parent[pt]
    BY <1>0, <2>1, <2>3, OtherRings
  <2> QED
    BY <2>2, <2>3
<1>2. Heights(parent')
  BY <1>0, InsertHeights
<1> QED
  BY <1>1, <1>2 DEF Rings

\* So does everything else a caller does.
LEMMA NextTree == TreeInv /\ [Next]_vars => TreeInv'
<1> SUFFICES ASSUME TreeInv, [Next]_vars PROVE TreeInv'
  OBVIOUS
<1>1. IndInv'
  BY NextInvariant DEF TreeInv
<1>2. ASSUME UNCHANGED links, Plain'
      PROVE  TreeInv'
  BY <1>1, <1>2 DEF TreeInv, links
<1>3. ASSUME NEW name, NEW i, walk(name, i), i.kind = "sibling" => ~i.visited
      PROVE  TreeInv'
  BY <1>2, <1>3 DEF walk, Plain
<1>4. /\ \A x : sibling(x).kind = "sibling" /\ ~sibling(x).visited
      /\ \A x, v : inorder(x, v).kind = "inorder"
  BY DEF sibling, inorder
<1>5. \A i : increment(i).kind = "inorder" /\ decrement(i).kind = "inorder"
  BY <1>4 DEF increment, decrement
<1>6. /\ \A i, v : to_inorder(i, v).kind = "inorder"
      /\ \A i : to_sibling(i).kind = "sibling" /\ ~to_sibling(i).visited
      /\ inorder_begin.kind = "inorder" /\ inorder_end.kind = "inorder"
  BY <1>4 DEF to_inorder, to_sibling, inorder_begin, inorder_end
<1>7. CASE inorder_forward \/ inorder_back
  BY <1>3, <1>5, <1>7 DEF inorder_forward, inorder_back
<1>8. CASE sibling_forward \/ sibling_back
  BY <1>3, <1>4, <1>8 DEF sibling_forward, sibling_back
<1>9. CASE restart
  BY <1>3, <1>4, <1>6, <1>9 DEF restart
<1>10. CASE convert
  BY <1>3, <1>6, <1>10 DEF convert
<1>11. ASSUME NEW n \in Nodes, insert_inorder(n)
       PROVE  TreeInv'
  BY <1>1, <1>11, InsertInorder, InsertKeeps DEF TreeInv, Plain
<1>12. ASSUME NEW n \in Nodes, insert_sibling(n)
       PROVE  TreeInv'
  BY <1>1, <1>4, <1>12, InsertSibling, InsertKeeps DEF TreeInv, Plain
<1>13. CASE UNCHANGED vars
  BY <1>2, <1>13 DEF vars, links, Plain, TreeInv
<1> QED
  BY <1>7, <1>8, <1>9, <1>10, <1>11, <1>12, <1>13 DEF Next
-----------------------------------------------------------------------------
(* Following the links                                                     *)

\* There are finitely many links to follow.
LEMMA LinkableFinite == IsFiniteSet(Linkable) /\ Cardinality(Linkable) \in Nat
<1>1. IsFiniteSet(Inner) /\ IsFiniteSet(Nodes)
  BY FiniteAssumption, FS_Singleton, FS_Union DEF Inner, Nodes
<1>2. IsFiniteSet(Sentinels)
  <2> DEFINE f == [b \in Inner |-> sent(b)]
  <2>1. f \in Surjection(Inner, Sentinels)
    BY DEF Surjection, Sentinels
  <2> QED
    BY <1>1, <2>1, FS_Surjection
<1>3. IsFiniteSet(Linkable)
  BY <1>1, <1>2, FS_Singleton, FS_Union DEF Linkable
<1> QED
  BY <1>3, FS_CardinalityType

\* hop and Followed, of any links.
hopOf(nx, b) ==
  LET f[k \in 0..(Cardinality(Linkable) + 1)] == IF k = 0 THEN sent(b) ELSE nx[f[k - 1]]
  IN  f

followedOf(nx, b) ==
  LET n == CHOOSE k \in 1..(Cardinality(Linkable) + 1) :
             /\ hopOf(nx, b)[k] = sent(b) \/ k = Cardinality(Linkable) + 1
             /\ \A j \in 1..(k - 1) : hopOf(nx, b)[j] # sent(b)
  IN  [k \in 1..(n - 1) |-> hopOf(nx, b)[k]]

\* Links that stay in a set can be followed.
LEMMA HopSteps ==
  ASSUME NEW nx, NEW b, NEW D, sent(b) \in D, \A x \in D : nx[x] \in D,
         NEW N \in Nat, N = Cardinality(Linkable) + 1
  PROVE  /\ hopOf(nx, b)[0] = sent(b)
         /\ \A k \in 1..N : hopOf(nx, b)[k] = nx[hopOf(nx, b)[k - 1]]
<1> DEFINE F == [p \in (1..N) \X D |-> nx[p[2]]]
<1>1. PICK g \in [0..N -> D] : g[0] = sent(b) /\ \A i \in 1..N : g[i] = nx[g[i - 1]]
  <2>1. F \in [(1..N) \X D -> D]
    OBVIOUS
  <2>2. Iterated(N, D, sent(b), F)
    <3> HIDE DEF F
    <3> QED
      BY <2>1, IterateExists
  <2>3. PICK g \in [0..N -> D] : g[0] = sent(b) /\ \A i \in 1..N : g[i] = F[<<i, g[i - 1]>>]
    BY <2>2 DEF Iterated
  <2>4. \A i \in 1..N : g[i - 1] \in D
    OBVIOUS
  <2>5. \A i \in 1..N : F[<<i, g[i - 1]>>] = nx[g[i - 1]]
    BY <2>4
  <2> HIDE DEF F
  <2>6. \A i \in 1..N : g[i] = nx[g[i - 1]]
    BY <2>3, <2>5
  <2> QED
    BY <2>3, <2>6
<1>2. g = [k \in 0..N |-> IF k = 0 THEN sent(b) ELSE nx[g[k - 1]]]
  <2>1. \A k \in 0..N : g[k] = IF k = 0 THEN sent(b) ELSE nx[g[k - 1]]
    BY <1>1
  <2>2. g = [k \in 0..N |-> g[k]]
    OBVIOUS
  <2> QED
    BY <2>1, <2>2
<1>3. PICK h : h = hopOf(nx, b)
  OBVIOUS
<1>4. h = [k \in 0..N |-> IF k = 0 THEN sent(b) ELSE nx[h[k - 1]]]
  <2>1. h = CHOOSE f : f = [k \in 0..N |-> IF k = 0 THEN sent(b) ELSE nx[f[k - 1]]]
    BY <1>3 DEF hopOf
  <2> QED
    BY <1>2, <2>1
<1>5. h[0] = sent(b)
  <2>1. 0 \in 0..N
    OBVIOUS
  <2> QED
    BY <1>4, <2>1
<1>6. \A k \in 1..N : h[k] = nx[h[k - 1]]
  <2> TAKE k \in 1..N
  <2>1. k \in 0..N /\ k # 0
    OBVIOUS
  <2> QED
    BY <1>4, <2>1
<1> QED
  BY <1>3, <1>5, <1>6

\* Following the links of a ring yields its list.
LEMMA FollowedRing ==
  ASSUME NEW nx, NEW pa, NEW b \in Inner, NEW s, Ring(nx, pa, b, s)
  PROVE  followedOf(nx, b) = s
<1> DEFINE D == {At(b, s, i) : i \in 0..Len(s)}
<1>0. /\ s \in Seq(Nodes) /\ Len(s) \in Nat /\ Distinct(s)
      /\ \A i \in 0..Len(s) : nx[At(b, s, i)] = At(b, s, i + 1)
  BY DEF Ring
<1>1. PICK N \in Nat : N = Cardinality(Linkable) + 1
  BY LinkableFinite
<1>2. Len(s) + 1 <= N
  <2>1. s \in Seq(Linkable)
    BY <1>0, Apart
  <2>2. Len(s) <= Cardinality(Linkable) /\ Cardinality(Linkable) \in Nat
    BY <1>0, <2>1, LinkableFinite, DistinctLength
  <2> QED
    BY <1>0, <1>1, <2>2
<1>3. At(b, s, 0) = sent(b) /\ At(b, s, Len(s) + 1) = sent(b)
  BY <1>0 DEF At
<1>4. sent(b) \in D /\ \A x \in D : nx[x] \in D
  <2>1. 0 \in 0..Len(s)
    BY <1>0
  <2>2. sent(b) \in D
    BY <1>3, <2>1
  <2>3. ASSUME NEW i \in 0..Len(s)
        PROVE  nx[At(b, s, i)] \in D
    <3>1. CASE i = Len(s)
      BY <1>0, <1>3, <2>2, <3>1
    <3>2. CASE i # Len(s)
      <4>1. i + 1 \in 0..Len(s)
        BY <1>0, <3>2
      <4> QED
        BY <1>0, <4>1
    <3> QED
      BY <3>1, <3>2
  <2> QED
    BY <2>2, <2>3
<1>5. PICK h : h = hopOf(nx, b)
  OBVIOUS
<1>6. h[0] = sent(b) /\ \A k \in 1..N : h[k] = nx[h[k - 1]]
  <2> HIDE DEF D
  <2> QED
    BY <1>1, <1>4, <1>5, HopSteps
<1>7. ASSUME NEW k \in 0..(Len(s) + 1)
      PROVE  h[k] = At(b, s, k)
  <2> DEFINE g == [i \in 0..(Len(s) + 1) |-> At(b, s, i)]
  <2>1. k \in Nat /\ \A i \in 0..k : g[i] = At(b, s, i)
    BY <1>0
  <2>2. h[0] = g[0]
    BY <1>3, <1>6, <2>1
  <2>3. ASSUME NEW i \in 1..k, h[i - 1] = g[i - 1]
        PROVE  h[i] = g[i]
    <3>1. i - 1 \in 0..Len(s) /\ i - 1 \in 0..k /\ i \in 0..k /\ i \in 1..N /\ (i - 1) + 1 = i
      BY <1>0, <1>2
    <3>2. g[i - 1] = At(b, s, i - 1) /\ g[i] = At(b, s, i)
      BY <2>1, <3>1
    <3>3. h[i] = nx[At(b, s, i - 1)]
      BY <1>6, <2>3, <3>1, <3>2
    <3> QED
      BY <1>0, <3>1, <3>2, <3>3
  <2>4. h[k] = g[k]
    <3> HIDE DEF g
    <3> QED
      BY <2>1, <2>2, <2>3, SameLast
  <2> QED
    BY <2>1, <2>4
<1>8. \A k \in 1..Len(s) : h[k] = s[k] /\ h[k] # sent(b)
  <2> TAKE k \in 1..Len(s)
  <2>1. k \in 0..(Len(s) + 1) /\ s[k] \in Nodes
    BY <1>0
  <2>2. h[k] = s[k]
    BY <1>7, <2>1 DEF At
  <2> QED
    BY <2>1, <2>2, Apart
<1>9. h[Len(s) + 1] = sent(b)
  <2>1. Len(s) + 1 \in 0..(Len(s) + 1)
    BY <1>0
  <2> QED
    BY <1>3, <1>7, <2>1
<1> DEFINE Ends(k) == /\ h[k] = sent(b) \/ k = N
                      /\ \A j \in 1..(k - 1) : h[j] # sent(b)
<1>10. Len(s) + 1 \in 1..N /\ Ends(Len(s) + 1)
  BY <1>0, <1>2, <1>8, <1>9
<1>11. ASSUME NEW k \in 1..N, Ends(k)
       PROVE  k = Len(s) + 1
  <2>1. CASE k < Len(s) + 1
    <3>1. k \in 1..Len(s) /\ k # N
      BY <1>0, <1>2, <2>1
    <3> QED
      BY <1>8, <1>11, <3>1
  <2>2. CASE k > Len(s) + 1
    <3>1. Len(s) + 1 \in 1..(k - 1)
      BY <1>0, <2>2
    <3> QED
      BY <1>9, <1>11, <3>1
  <2>3. k < Len(s) + 1 \/ k > Len(s) + 1 \/ k = Len(s) + 1
    BY <1>0
  <2> QED
    BY <2>1, <2>2, <2>3
<1>12. (CHOOSE k \in 1..N : Ends(k)) = Len(s) + 1
  <2> HIDE DEF Ends
  <2> QED
    BY <1>10, <1>11
<1>13. followedOf(nx, b) = [k \in 1..((CHOOSE k \in 1..N : Ends(k)) - 1) |-> h[k]]
  BY <1>1, <1>5 DEF followedOf
<1>14. followedOf(nx, b) = [k \in 1..Len(s) |-> h[k]]
  <2>1. (Len(s) + 1) - 1 = Len(s)
    BY <1>0
  <2> HIDE DEF Ends
  <2> QED
    BY <1>12, <1>13, <2>1
<1>15. s = [k \in 1..Len(s) |-> s[k]]
  BY <1>0
<1> QED
  BY <1>8, <1>14, <1>15

\* The children of the refinement, of the links as they are and as they become.
kids == [b \in Inner |-> Followed(b)]

\* Both are what Followed is, of the links as they are and as they become.
LEMMA FollowedOf ==
  /\ \A b : Followed(b) = followedOf(next, b)
  /\ \A b : Followed(b)' = followedOf(next', b)
<1>1. \A b : Followed(b) = followedOf(next, b)
  BY DEF Followed, followedOf, hop, hopOf
<1>2. \A b : Followed(b)' = followedOf(next', b)
  BY DEF Followed, followedOf, hop, hopOf
<1> QED
  BY <1>1, <1>2
-----------------------------------------------------------------------------
(* Steps in sequences                                                      *)

Step(s, x, y) == \E i \in 1..(Len(s) - 1) : s[i] = x /\ s[i + 1] = y

\* Some sequence from the first element to the last.
Ends(s, first, last) == Len(s) >= 1 /\ s[1] = first /\ s[Len(s)] = last

\* The steps of both parts stay, and one goes from the first to the second.
LEMMA JoinSteps ==
  ASSUME NEW S, NEW a \in Seq(S), NEW b \in Seq(S)
  PROVE  /\ a \o b \in Seq(S)
         /\ \A x, y : Step(a, x, y) => Step(a \o b, x, y)
         /\ \A x, y : Step(b, x, y) => Step(a \o b, x, y)
         /\ \A u, v, x, y : Ends(a, u, v) /\ Ends(b, x, y) =>
              Ends(a \o b, u, y) /\ Step(a \o b, v, x)
<1>1. PICK s \in Seq(S) : s = a \o b /\ Joined(a, b, s)
  BY Joins
<1>2. /\ Len(a) \in Nat /\ Len(b) \in Nat /\ Len(s) = Len(a) + Len(b)
      /\ \A i \in 1..Len(a) : s[i] = a[i]
      /\ \A i \in 1..Len(b) : s[Len(a) + i] = b[i]
  BY <1>1 DEF Joined
<1>3. ASSUME NEW x, NEW y, Step(a, x, y)
      PROVE  Step(s, x, y)
  <2>1. PICK i \in 1..(Len(a) - 1) : a[i] = x /\ a[i + 1] = y
    BY <1>3 DEF Step
  <2>2. i \in 1..Len(a) /\ i + 1 \in 1..Len(a) /\ i \in 1..(Len(s) - 1)
    BY <1>2
  <2> QED
    BY <1>2, <2>1, <2>2 DEF Step
<1>4. ASSUME NEW x, NEW y, Step(b, x, y)
      PROVE  Step(s, x, y)
  <2>1. PICK i \in 1..(Len(b) - 1) : b[i] = x /\ b[i + 1] = y
    BY <1>4 DEF Step
  <2>2. /\ i \in 1..Len(b) /\ i + 1 \in 1..Len(b) /\ Len(a) + i \in 1..(Len(s) - 1)
        /\ Len(a) + (i + 1) = (Len(a) + i) + 1
    BY <1>2
  <2>3. s[Len(a) + i] = x /\ s[Len(a) + (i + 1)] = y
    BY <1>2, <2>1, <2>2
  <2> QED
    BY <2>2, <2>3 DEF Step
<1>5. ASSUME NEW u, NEW v, NEW x, NEW y, Ends(a, u, v), Ends(b, x, y)
      PROVE  Ends(s, u, y) /\ Step(s, v, x)
  <2>1. /\ Len(a) >= 1 /\ a[1] = u /\ a[Len(a)] = v
        /\ Len(b) >= 1 /\ b[1] = x /\ b[Len(b)] = y
    BY <1>5 DEF Ends
  <2>2. 1 \in 1..Len(a) /\ Len(a) \in 1..Len(a) /\ 1 \in 1..Len(b) /\ Len(b) \in 1..Len(b)
    BY <1>2, <2>1
  <2>3. s[1] = u /\ s[Len(a)] = v
    BY <1>2, <2>1, <2>2
  <2>4. s[Len(a) + 1] = x
    BY <1>2, <2>1, <2>2
  <2>5. s[Len(s)] = y
    BY <1>2, <2>1, <2>2
  <2>6. Len(a) \in 1..(Len(s) - 1) /\ Len(s) >= 1
    BY <1>2, <2>1
  <2> QED
    BY <2>3, <2>4, <2>5, <2>6 DEF Ends, Step
<1> QED
  BY <1>1, <1>3, <1>4, <1>5

\* The sequences of q one after the other, up to the i-th.
Prefixes(q, g) == g = [i \in 1..Len(q) |-> IF i = 1 THEN q[i] ELSE g[i - 1] \o q[i]]

\* FlattenSeq joins the sequences from the first to the last.
LEMMA Flattened ==
  ASSUME NEW S, NEW q \in Seq(Seq(S)), Len(q) >= 1
  PROVE  \E g : /\ g \in [1..Len(q) -> Seq(S)]
                /\ g[1] = q[1]
                /\ \A i \in 2..Len(q) : g[i] = g[i - 1] \o q[i]
                /\ Ordered!FlattenSeq(q) = g[Len(q)]
<1> DEFINE F == [p \in (1..(Len(q) - 1)) \X Seq(S) |-> p[2] \o q[p[1] + 1]]
<1>0. Len(q) \in Nat /\ Len(q) - 1 \in Nat
  OBVIOUS
<1>1. PICK h \in [0..(Len(q) - 1) -> Seq(S)] :
        h[0] = q[1] /\ \A i \in 1..(Len(q) - 1) : h[i] = h[i - 1] \o q[i + 1]
  <2>1. F \in [(1..(Len(q) - 1)) \X Seq(S) -> Seq(S)]
    <3>1. ASSUME NEW p \in (1..(Len(q) - 1)) \X Seq(S)
          PROVE  p[2] \o q[p[1] + 1] \in Seq(S)
      <4>1. p[1] + 1 \in 1..Len(q) /\ p[2] \in Seq(S)
        BY <1>0
      <4>2. q[p[1] + 1] \in Seq(S)
        BY <4>1
      <4> QED
        BY <4>1, <4>2
    <3> QED
      BY <3>1
  <2>2. q[1] \in Seq(S)
    <3>1. 1 \in 1..Len(q)
      BY <1>0
    <3> QED
      BY <3>1
  <2>3. Iterated(Len(q) - 1, Seq(S), q[1], F)
    <3> HIDE DEF F
    <3> QED
      BY <1>0, <2>1, <2>2, IterateExists
  <2>4. PICK h \in [0..(Len(q) - 1) -> Seq(S)] :
          h[0] = q[1] /\ \A i \in 1..(Len(q) - 1) : h[i] = F[<<i, h[i - 1]>>]
    BY <2>3 DEF Iterated
  <2>5. \A i \in 1..(Len(q) - 1) : h[i - 1] \in Seq(S)
    <3>1. \A i \in 1..(Len(q) - 1) : i - 1 \in 0..(Len(q) - 1)
      BY <1>0
    <3> QED
      BY <3>1
  <2>6. \A i \in 1..(Len(q) - 1) : F[<<i, h[i - 1]>>] = h[i - 1] \o q[i + 1]
    BY <2>5
  <2> QED
    BY <2>4, <2>6
<1> DEFINE k == [i \in 1..Len(q) |-> h[i - 1]]
<1>2. k \in [1..Len(q) -> Seq(S)] /\ \A i \in 1..Len(q) : k[i] = h[i - 1]
  <2>1. \A i \in 1..Len(q) : i - 1 \in 0..(Len(q) - 1)
    BY <1>0
  <2> QED
    BY <2>1
<1>3. Prefixes(q, k)
  <2>1. ASSUME NEW i \in 1..Len(q)
        PROVE  k[i] = IF i = 1 THEN q[i] ELSE k[i - 1] \o q[i]
    <3>1. CASE i = 1
      BY <1>0, <1>1, <1>2, <3>1
    <3>2. CASE i # 1
      <4>1. i - 1 \in 1..(Len(q) - 1) /\ i - 1 \in 1..Len(q) /\ (i - 1) + 1 = i
        BY <1>0, <3>2
      <4>2. k[i] = h[i - 1] /\ k[i - 1] = h[(i - 1) - 1]
        BY <1>2, <4>1
      <4>3. h[i - 1] = h[(i - 1) - 1] \o q[i]
        BY <1>1, <4>1
      <4> HIDE DEF k
      <4> QED
        BY <3>2, <4>2, <4>3
    <3> QED
      BY <3>1, <3>2
  <2>2. k = [i \in 1..Len(q) |-> k[i]]
    OBVIOUS
  <2> HIDE DEF k
  <2> QED
    BY <2>1, <2>2 DEF Prefixes
<1>4. PICK g : g = CHOOSE f : f = [i \in 1..Len(q) |-> IF i = 1 THEN q[i] ELSE f[i - 1] \o q[i]]
  OBVIOUS
<1>5. Prefixes(q, g)
  <2> HIDE DEF k
  <2>1. \E f : f = [i \in 1..Len(q) |-> IF i = 1 THEN q[i] ELSE f[i - 1] \o q[i]]
    BY <1>3 DEF Prefixes
  <2> QED
    BY <1>4, <2>1 DEF Prefixes
<1>6. Ordered!FlattenSeq(q) = g[Len(q)]
  BY <1>0, <1>4 DEF Ordered!FlattenSeq
<1>7. g[1] = q[1] /\ \A i \in 2..Len(q) : g[i] = g[i - 1] \o q[i]
  <2>1. 1 \in 1..Len(q) /\ \A i \in 2..Len(q) : i \in 1..Len(q) /\ i # 1
    BY <1>0
  <2> QED
    BY <1>5, <2>1 DEF Prefixes
<1>8. g \in [1..Len(q) -> Seq(S)]
  <2> DEFINE T == {i \in 0..(Len(q) - 1) : g[i + 1] \in Seq(S)}
  <2>1. 0 \in T
    <3>1. q[1] \in Seq(S)
      BY <1>2, <1>0, <1>1
    <3> QED
      BY <1>0, <1>7, <3>1
  <2>2. ASSUME NEW i \in 1..(Len(q) - 1), i - 1 \in T
        PROVE  i \in T
    <3>1. i + 1 \in 2..Len(q) /\ (i + 1) - 1 = i /\ (i - 1) + 1 = i /\ i + 1 \in 1..Len(q)
      BY <1>0
    <3>2. g[i] \in Seq(S)
      BY <2>2, <3>1
    <3>3. g[i + 1] = g[i] \o q[i + 1]
      BY <1>7, <3>1
    <3>4. q[i + 1] \in Seq(S)
      BY <3>1
    <3>5. g[i + 1] \in Seq(S)
      BY <3>2, <3>3, <3>4
    <3> QED
      BY <3>5, <1>0
  <2>3. 0..(Len(q) - 1) \subseteq T
    <3> HIDE DEF T
    <3> QED
      BY <1>0, <2>1, <2>2, Induction
  <2>4. ASSUME NEW i \in 1..Len(q)
        PROVE  g[i] \in Seq(S)
    <3>1. i - 1 \in 0..(Len(q) - 1) /\ (i - 1) + 1 = i
      BY <1>0
    <3> QED
      BY <2>3, <3>1
  <2>5. g = [i \in 1..Len(q) |-> g[i]]
    BY <1>5 DEF Prefixes
  <2> QED
    BY <2>4, <2>5
<1> QED
  BY <1>6, <1>7, <1>8

\* Nothing flattens to nothing.
LEMMA NothingFlattened ==
  ASSUME NEW q, q = <<>>
  PROVE  Ordered!FlattenSeq(q) = <<>>
BY DEF Ordered!FlattenSeq
\* The steps of the sequences stay, and from each one goes a step to the next.
LEMMA FlattenSteps ==
  ASSUME NEW S, NEW q \in Seq(Seq(S)), Len(q) >= 1,
         NEW first, NEW last, \A i \in 1..Len(q) : Ends(q[i], first[i], last[i])
  PROVE  /\ Ordered!FlattenSeq(q) \in Seq(S)
         /\ Ends(Ordered!FlattenSeq(q), first[1], last[Len(q)])
         /\ \A i \in 1..Len(q) : \A x, y :
              Step(q[i], x, y) => Step(Ordered!FlattenSeq(q), x, y)
         /\ \A i \in 1..(Len(q) - 1) : Step(Ordered!FlattenSeq(q), last[i], first[i + 1])
<1>0. Len(q) \in Nat /\ Len(q) - 1 \in Nat /\ \A i \in 1..Len(q) : q[i] \in Seq(S)
  OBVIOUS
<1>1. PICK g : /\ g \in [1..Len(q) -> Seq(S)]
               /\ g[1] = q[1]
               /\ \A i \in 2..Len(q) : g[i] = g[i - 1] \o q[i]
               /\ Ordered!FlattenSeq(q) = g[Len(q)]
  BY Flattened
<1> DEFINE Good(k) == /\ Ends(g[k], first[1], last[k])
                      /\ \A i \in 1..k : \A x, y : Step(q[i], x, y) => Step(g[k], x, y)
                      /\ \A i \in 1..(k - 1) : Step(g[k], last[i], first[i + 1])
<1>2. Good(1)
  <2>1. 1 \in 1..Len(q) /\ \A i \in 1..1 : i = 1
    BY <1>0
  <2> QED
    BY <1>1, <2>1
<1>3. ASSUME NEW k \in 2..Len(q), Good(k - 1)
      PROVE  Good(k)
  <2>0. k \in 1..Len(q) /\ k - 1 \in 1..Len(q) /\ (k - 1) + 1 = k
    BY <1>0
  <2>1. PICK a \in Seq(S) : a = g[k - 1]
    BY <1>1, <2>0
  <2>2. PICK b \in Seq(S) : b = q[k]
    BY <1>0, <2>0
  <2>3. g[k] = a \o b
    BY <1>1, <2>1, <2>2
  <2>4. /\ \A x, y : Step(a, x, y) => Step(g[k], x, y)
        /\ \A x, y : Step(b, x, y) => Step(g[k], x, y)
        /\ \A u, v, x, y : Ends(a, u, v) /\ Ends(b, x, y) =>
             Ends(g[k], u, y) /\ Step(g[k], v, x)
    BY <2>3, JoinSteps
  <2>5. Ends(a, first[1], last[k - 1]) /\ Ends(b, first[k], last[k])
    BY <1>3, <2>0, <2>1, <2>2
  <2>6. Ends(g[k], first[1], last[k]) /\ Step(g[k], last[k - 1], first[k])
    BY <2>4, <2>5
  <2>7. ASSUME NEW i \in 1..k, NEW x, NEW y, Step(q[i], x, y)
        PROVE  Step(g[k], x, y)
    <3>1. CASE i = k
      BY <2>2, <2>4, <2>7, <3>1
    <3>2. CASE i # k
      <4>1. i \in 1..(k - 1)
        BY <3>2
      <4>2. Step(a, x, y)
        BY <1>3, <2>1, <2>7, <4>1
      <4> QED
        BY <2>4, <4>2
    <3> QED
      BY <3>1, <3>2
  <2>8. ASSUME NEW i \in 1..(k - 1)
        PROVE  Step(g[k], last[i], first[i + 1])
    <3>1. CASE i = k - 1
      BY <2>0, <2>6, <3>1
    <3>2. CASE i # k - 1
      <4>1. i \in 1..((k - 1) - 1)
        BY <3>2
      <4>2. Step(a, last[i], first[i + 1])
        BY <1>3, <2>1, <4>1
      <4> QED
        BY <2>4, <4>2
    <3> QED
      BY <3>1, <3>2
  <2> QED
    BY <2>6, <2>7, <2>8
<1>4. Good(Len(q))
  <2> DEFINE T == {k \in 0..(Len(q) - 1) : Good(k + 1)}
  <2> HIDE DEF Good
  <2>1. 0 \in T
    BY <1>0, <1>2
  <2>2. ASSUME NEW k \in 1..(Len(q) - 1), k - 1 \in T
        PROVE  k \in T
    <3>1. k + 1 \in 2..Len(q) /\ (k + 1) - 1 = k /\ (k - 1) + 1 = k
      BY <1>0
    <3>2. Good((k + 1) - 1)
      BY <2>2, <3>1
    <3>3. Good(k + 1)
      BY <1>3, <3>1, <3>2
    <3> QED
      BY <3>3
  <2>3. 0..(Len(q) - 1) \subseteq T
    <3> HIDE DEF T
    <3> QED
      BY <1>0, <2>1, <2>2, Induction
  <2>4. Len(q) - 1 \in 0..(Len(q) - 1) /\ (Len(q) - 1) + 1 = Len(q)
    BY <1>0
  <2>5. Len(q) - 1 \in T
    BY <2>3, <2>4
  <2> QED
    BY <2>4, <2>5
<1>5. g[Len(q)] \in Seq(S)
  <2>1. Len(q) \in 1..Len(q)
    BY <1>0
  <2> QED
    BY <1>1, <2>1
<1> QED
  BY <1>1, <1>4, <1>5

-----------------------------------------------------------------------------
(* Visits                                                                  *)

VisitSeqs == Seq((Nodes \cup {Root}) \X BOOLEAN)

\* The visits of a child, if f has those of the children of branches.
Block(f, n) ==
  IF n \in Leafs THEN <<<<n, FALSE>>>>
  ELSE <<<<n, FALSE>>>> \o f[n] \o <<<<n, TRUE>>>>
Blocks(f, s) == [i \in DOMAIN s |-> Block(f, s[i])]

lastVisit(n) == IF n \in Leafs THEN <<n, FALSE>> ELSE <<n, TRUE>>

\* One element is first and last.
LEMMA Singleton ==
  ASSUME NEW S, NEW e \in S
  PROVE  <<e>> \in Seq(S) /\ Ends(<<e>>, e, e)
<1>1. <<e>> \in Seq(S) /\ Len(<<e>>) = 1 /\ <<e>>[1] = e
  OBVIOUS
<1> QED
  BY <1>1 DEF Ends

\* The visits of a child begin and end with the child; those of its children are
\* between.
LEMMA BlockSteps ==
  ASSUME NEW n \in Nodes, NEW f, n \in Branches => f[n] \in VisitSeqs
  PROVE  /\ Block(f, n) \in VisitSeqs
         /\ Ends(Block(f, n), <<n, FALSE>>, lastVisit(n))
         /\ n \in Branches =>
              /\ f[n] = <<>> => Step(Block(f, n), <<n, FALSE>>, <<n, TRUE>>)
              /\ \A x, y : Step(f[n], x, y) => Step(Block(f, n), x, y)
              /\ \A x, y : Ends(f[n], x, y) => /\ Step(Block(f, n), <<n, FALSE>>, x)
                                               /\ Step(Block(f, n), y, <<n, TRUE>>)
<1>0. PICK S : S = (Nodes \cup {Root}) \X BOOLEAN
  OBVIOUS
<1>1. PICK in \in Seq(S) : in = <<<<n, FALSE>>>> /\ Ends(in, <<n, FALSE>>, <<n, FALSE>>)
  <2>1. <<n, FALSE>> \in S
    BY <1>0
  <2> QED
    BY <2>1, Singleton
<1>2. PICK out \in Seq(S) : out = <<<<n, TRUE>>>> /\ Ends(out, <<n, TRUE>>, <<n, TRUE>>)
  <2>1. <<n, TRUE>> \in S
    BY <1>0
  <2> QED
    BY <2>1, Singleton
<1>3. CASE n \in Leafs
  <2>1. n \notin Branches
    BY <1>3, NodesAssumption
  <2>2. Block(f, n) = in /\ lastVisit(n) = <<n, FALSE>>
    BY <1>1, <1>3 DEF Block, lastVisit
  <2> QED
    BY <1>0, <1>1, <2>1, <2>2 DEF VisitSeqs
<1>4. CASE n \notin Leafs
  <2>1. PICK z \in Seq(S) : z = f[n] /\ n \in Branches
    BY <1>0, <1>4 DEF Nodes, VisitSeqs
  <2>2. PICK a \in Seq(S) : a = in \o z
    BY <2>1, JoinSteps
  <2>3. PICK w \in Seq(S) : w = a \o out
    BY <2>2, JoinSteps
  <2>4. Block(f, n) = w /\ lastVisit(n) = <<n, TRUE>>
    BY <1>1, <1>2, <1>4, <2>1, <2>2, <2>3 DEF Block, lastVisit
  <2>5. /\ \A x, y : Step(z, x, y) => Step(a, x, y)
        /\ \A u, v, x, y : Ends(in, u, v) /\ Ends(z, x, y) =>
             Ends(a, u, y) /\ Step(a, v, x)
    BY <2>2, JoinSteps
  <2>6. /\ \A x, y : Step(a, x, y) => Step(w, x, y)
        /\ \A u, v, x, y : Ends(a, u, v) /\ Ends(out, x, y) =>
             Ends(w, u, y) /\ Step(w, v, x)
    BY <2>3, JoinSteps
  <2>7. \A x, y : Ends(z, x, y) => /\ Step(w, <<n, FALSE>>, x) /\ Step(w, y, <<n, TRUE>>)
                                   /\ Ends(w, <<n, FALSE>>, <<n, TRUE>>)
    BY <1>1, <1>2, <2>5, <2>6
  <2>8. z = <<>> => Step(w, <<n, FALSE>>, <<n, TRUE>>) /\ Ends(w, <<n, FALSE>>, <<n, TRUE>>)
    <3>1. z = <<>> => a = in
      BY <2>2
    <3> QED
      BY <1>1, <1>2, <2>6, <3>1
  <2>9. z = <<>> \/ Ends(z, z[1], z[Len(z)])
    <3>1. z = <<>> \/ Len(z) >= 1
      OBVIOUS
    <3> QED
      BY <3>1 DEF Ends
  <2>10. /\ Ends(w, <<n, FALSE>>, <<n, TRUE>>)
         /\ z = <<>> => Step(w, <<n, FALSE>>, <<n, TRUE>>)
         /\ \A x, y : Step(z, x, y) => Step(w, x, y)
         /\ \A x, y : Ends(z, x, y) => Step(w, <<n, FALSE>>, x) /\ Step(w, y, <<n, TRUE>>)
    BY <2>5, <2>6, <2>7, <2>8, <2>9
  <2> QED
    BY <1>0, <2>1, <2>4, <2>10 DEF VisitSeqs
<1> QED
  BY <1>3, <1>4

\* The same of all children of a branch, s.
LEMMA ChildrenSteps ==
  ASSUME NEW s \in Seq(Nodes), NEW f,
         \A i \in 1..Len(s) : s[i] \in Branches => f[s[i]] \in VisitSeqs
  PROVE  /\ Ordered!FlattenSeq(Blocks(f, s)) \in VisitSeqs
         /\ s = <<>> => Ordered!FlattenSeq(Blocks(f, s)) = <<>>
         /\ s # <<>> => Ends(Ordered!FlattenSeq(Blocks(f, s)), <<s[1], FALSE>>, lastVisit(s[Len(s)]))
         /\ \A i \in 1..Len(s) : \A x, y :
              Step(Block(f, s[i]), x, y) => Step(Ordered!FlattenSeq(Blocks(f, s)), x, y)
         /\ \A i \in 1..(Len(s) - 1) :
              Step(Ordered!FlattenSeq(Blocks(f, s)), lastVisit(s[i]), <<s[i + 1], FALSE>>)
<1>0. Len(s) \in Nat /\ DOMAIN s = 1..Len(s) /\ \A i \in 1..Len(s) : s[i] \in Nodes
  OBVIOUS
<1>1. PICK q : q = Blocks(f, s)
  OBVIOUS
<1>2. \A i \in 1..Len(s) : q[i] = Block(f, s[i])
  BY <1>0, <1>1 DEF Blocks
<1>3. q \in Seq(VisitSeqs) /\ Len(q) = Len(s)
  <2>1. \A i \in 1..Len(s) : Block(f, s[i]) \in VisitSeqs
    BY <1>0, BlockSteps
  <2>2. q \in [1..Len(s) -> VisitSeqs]
    BY <1>0, <1>1, <2>1 DEF Blocks
  <2> QED
    BY <1>0, <2>2
<1>4. CASE s = <<>>
  <2>1. q = <<>>
    BY <1>3, <1>4
  <2>2. Len(s) = 0 /\ <<>> \in VisitSeqs
    BY <1>4 DEF VisitSeqs
  <2> QED
    BY <1>0, <1>1, <1>4, <2>1, <2>2, NothingFlattened
<1>5. CASE s # <<>>
  <2> DEFINE first == [i \in 1..Len(s) |-> <<s[i], FALSE>>]
             last == [i \in 1..Len(s) |-> lastVisit(s[i])]
  <2>1. \A i \in 1..Len(q) : Ends(q[i], first[i], last[i])
    BY <1>0, <1>2, <1>3, BlockSteps
  <2>2. Len(q) >= 1
    BY <1>3, <1>5
  <2>3. q \in Seq(Seq((Nodes \cup {Root}) \X BOOLEAN))
    BY <1>3 DEF VisitSeqs
  <2>4. first[1] = <<s[1], FALSE>> /\ last[Len(q)] = lastVisit(s[Len(s)])
    <3>1. 1 \in 1..Len(s) /\ Len(s) \in 1..Len(s) /\ Len(q) = Len(s)
      BY <1>0, <1>3, <2>2
    <3> QED
      BY <3>1
  <2>5. \A i \in 1..(Len(s) - 1) : last[i] = lastVisit(s[i]) /\ first[i + 1] = <<s[i + 1], FALSE>>
    <3>1. \A i \in 1..(Len(s) - 1) : i \in 1..Len(s) /\ i + 1 \in 1..Len(s)
      BY <1>0
    <3> QED
      BY <3>1
  <2> HIDE DEF first, last
  <2>6. /\ Ordered!FlattenSeq(q) \in Seq((Nodes \cup {Root}) \X BOOLEAN)
        /\ Ends(Ordered!FlattenSeq(q), first[1], last[Len(q)])
        /\ \A i \in 1..Len(q) : \A x, y :
             Step(q[i], x, y) => Step(Ordered!FlattenSeq(q), x, y)
        /\ \A i \in 1..(Len(q) - 1) : Step(Ordered!FlattenSeq(q), last[i], first[i + 1])
    BY <2>1, <2>2, <2>3, FlattenSteps
  <2> QED
    BY <1>1, <1>2, <1>3, <1>5, <2>4, <2>5, <2>6 DEF VisitSeqs
<1> QED
  BY <1>4, <1>5
\* f has the visits of the children of every branch.
AreVisits(f, ch) == f = [b \in Inner |-> Ordered!FlattenSeq(Blocks(f, ch[b]))]

\* ch leads from every branch to branches of less height only.
Descends(ch, m, r) ==
  /\ ch \in [Inner -> Seq(Nodes)] /\ r \in [Inner -> 0..m]
  /\ \A b \in Inner : \A i \in 1..Len(ch[b]) :
       ch[b][i] \in Branches => r[ch[b][i]] < r[b]

\* The recursive equation of the visits has a solution where no branch is in
\* itself: it is reached by iterating once for each height.
LEMMA VisitsExist ==
  ASSUME NEW m \in Nat, NEW ch, NEW r, Descends(ch, m, r)
  PROVE  \E f : AreVisits(f, ch)
<1>0. /\ Branches \subseteq Inner
      /\ \A b \in Inner : ch[b] \in Seq(Nodes) /\ r[b] \in 0..m /\ DOMAIN ch[b] = 1..Len(ch[b])
  BY Apart DEF Descends
<1>1. PICK D : D = [Inner -> VisitSeqs]
  OBVIOUS
<1> DEFINE over(f) == [b \in Inner |-> Ordered!FlattenSeq(Blocks(f, ch[b]))]
           A == [b \in Inner |-> <<>>]
           F == [p \in (1..(m + 2)) \X D |-> over(p[2])]
<1>2. A \in D /\ \A f \in D : over(f) \in D
  <2>1. <<>> \in VisitSeqs
    BY DEF VisitSeqs
  <2>2. ASSUME NEW f \in D, NEW b \in Inner
        PROVE  Ordered!FlattenSeq(Blocks(f, ch[b])) \in VisitSeqs
    <3>1. \A i \in 1..Len(ch[b]) : ch[b][i] \in Branches => f[ch[b][i]] \in VisitSeqs
      BY <1>0, <1>1
    <3> QED
      BY <1>0, <3>1, ChildrenSteps
  <2> QED
    BY <1>1, <2>1, <2>2
<1>3. PICK g \in [0..(m + 2) -> D] : \A i \in 1..(m + 2) : g[i] = over(g[i - 1])
  <2>1. F \in [(1..(m + 2)) \X D -> D]
    <3> HIDE DEF over
    <3> QED
      BY <1>2
  <2>2. Iterated(m + 2, D, A, F)
    <3> HIDE DEF F, A, over
    <3> QED
      BY <1>2, <2>1, IterateExists
  <2>3. PICK g \in [0..(m + 2) -> D] : g[0] = A /\ \A i \in 1..(m + 2) : g[i] = F[<<i, g[i - 1]>>]
    <3> HIDE DEF F, A
    <3> QED
      BY <2>2 DEF Iterated
  <2>4. \A i \in 1..(m + 2) : g[i - 1] \in D
    OBVIOUS
  <2>5. \A i \in 1..(m + 2) : F[<<i, g[i - 1]>>] = over(g[i - 1])
    <3> HIDE DEF over
    <3> QED
      BY <2>4
  <2> HIDE DEF F, A, over
  <2> QED
    BY <2>3, <2>5
<1> HIDE DEF A, F
<1> DEFINE T == {i \in 0..(m + 1) : \A b \in Inner : r[b] < i => g[i + 1][b] = g[i][b]}
<1>4. 0 \in T
  BY <1>0
<1>5. ASSUME NEW i \in 1..(m + 1), i - 1 \in T
      PROVE  i \in T
  <2>1. ASSUME NEW b \in Inner, r[b] < i
        PROVE  g[i + 1][b] = g[i][b]
    <3>1. /\ i \in 1..(m + 2) /\ i + 1 \in 1..(m + 2) /\ (i + 1) - 1 = i /\ (i - 1) + 1 = i
      OBVIOUS
    <3>2. /\ g[i + 1][b] = Ordered!FlattenSeq(Blocks(g[i], ch[b]))
          /\ g[i][b] = Ordered!FlattenSeq(Blocks(g[i - 1], ch[b]))
      <4>1. g[i + 1] = over(g[i]) /\ g[i] = over(g[i - 1])
        <5> HIDE DEF over
        <5> QED
          BY <1>3, <3>1
      <4> QED
        BY <4>1
    <3>3. ASSUME NEW j \in DOMAIN ch[b]
          PROVE  Block(g[i], ch[b][j]) = Block(g[i - 1], ch[b][j])
      <4>1. PICK n : n = ch[b][j] /\ n \in Nodes
        BY <1>0
      <4>2. CASE n \in Leafs
        BY <4>1, <4>2 DEF Block
      <4>3. CASE n \notin Leafs
        <5>1. n \in Branches /\ n \in Inner
          BY <1>0, <4>1, <4>3 DEF Nodes
        <5>2. r[n] < r[b] /\ r[n] \in 0..m /\ r[b] \in 0..m
          BY <1>0, <4>1, <5>1 DEF Descends
        <5>3. r[n] < i - 1
          BY <2>1, <5>2
        <5>4. g[(i - 1) + 1][n] = g[i - 1][n]
          BY <1>5, <5>1, <5>3
        <5>5. g[i][n] = g[i - 1][n]
          BY <3>1, <5>4
        <5> QED
          BY <4>1, <4>3, <5>5 DEF Block
      <4> QED
        BY <4>2, <4>3
    <3>4. Blocks(g[i], ch[b]) = Blocks(g[i - 1], ch[b])
      BY <3>3 DEF Blocks
    <3> QED
      BY <3>2, <3>4
  <2> QED
    BY <2>1
<1>6. m + 1 \in T
  <2>1. 0..(m + 1) \subseteq T
    <3> HIDE DEF T
    <3> QED
      BY <1>4, <1>5, Induction
  <2>2. m + 1 \in 0..(m + 1)
    OBVIOUS
  <2> QED
    BY <2>1, <2>2
<1>7. g[m + 1] = g[m + 2]
  <2>1. m + 1 \in 0..(m + 2) /\ m + 2 \in 0..(m + 2) /\ (m + 1) + 1 = m + 2
    OBVIOUS
  <2>2. g[m + 1] \in [Inner -> VisitSeqs] /\ g[m + 2] \in [Inner -> VisitSeqs]
    BY <1>1, <2>1
  <2>3. \A b \in Inner : g[m + 2][b] = g[m + 1][b]
    <3>1. \A b \in Inner : r[b] < m + 1
      BY <1>0
    <3> QED
      BY <1>6, <2>1, <3>1
  <2> QED
    BY <2>2, <2>3
<1>8. g[m + 2] = over(g[m + 1])
  <2>1. m + 2 \in 1..(m + 2) /\ (m + 2) - 1 = m + 1
    OBVIOUS
  <2> HIDE DEF over
  <2> QED
    BY <1>3, <2>1
<1> QED
  BY <1>7, <1>8 DEF AreVisits

\* There is nothing but visits in them.
LEMMA VisitsTyped ==
  ASSUME NEW m \in Nat, NEW ch, NEW r, Descends(ch, m, r), NEW f, AreVisits(f, ch)
  PROVE  \A b \in Inner : f[b] \in VisitSeqs
<1>0. /\ Branches \subseteq Inner
      /\ \A b \in Inner : ch[b] \in Seq(Nodes) /\ r[b] \in 0..m
      /\ \A b \in Inner : f[b] = Ordered!FlattenSeq(Blocks(f, ch[b]))
  BY Apart DEF Descends, AreVisits
<1> DEFINE T == {i \in 0..(m + 1) : \A b \in Inner : r[b] < i => f[b] \in VisitSeqs}
<1>1. 0 \in T
  BY <1>0
<1>2. ASSUME NEW i \in 1..(m + 1), i - 1 \in T
      PROVE  i \in T
  <2>1. ASSUME NEW b \in Inner, r[b] < i
        PROVE  f[b] \in VisitSeqs
    <3>1. ASSUME NEW j \in 1..Len(ch[b]), ch[b][j] \in Branches
          PROVE  f[ch[b][j]] \in VisitSeqs
      <4>1. PICK n : n = ch[b][j] /\ n \in Inner
        BY <1>0, <3>1
      <4>2. r[n] < r[b] /\ r[n] \in 0..m /\ r[b] \in 0..m
        BY <1>0, <3>1, <4>1 DEF Descends
      <4>3. r[n] < i - 1
        BY <2>1, <4>2
      <4> QED
        BY <1>2, <4>1, <4>3
    <3> QED
      BY <1>0, <3>1, ChildrenSteps
  <2> QED
    BY <2>1
<1>3. 0..(m + 1) \subseteq T
  <2> HIDE DEF T
  <2> QED
    BY <1>1, <1>2, Induction
<1>4. m + 1 \in T /\ \A b \in Inner : r[b] < m + 1
  <2>1. m + 1 \in 0..(m + 1)
    OBVIOUS
  <2> QED
    BY <1>0, <1>3, <2>1
<1> QED
  BY <1>4

\* So the visits of the ordered tree are one.
LEMMA OrderedVisits ==
  ASSUME NEW m \in Nat, NEW r, Descends(kids, m, r)
  PROVE  AreVisits(Ordered!Visits, kids)
<1>1. Ordered!Visits =
        CHOOSE f : f = [b \in Inner |->
          Ordered!FlattenSeq([i \in DOMAIN kids[b] |-> Block(f, kids[b][i])])]
  BY DEF Ordered!Visits, kids, Block, Ordered!visit, Inner, Ordered!Inner
<1>2. PICK ch : ch = kids
  OBVIOUS
<1>3. \E f : f = [b \in Inner |-> Ordered!FlattenSeq([i \in DOMAIN ch[b] |-> Block(f, ch[b][i])])]
  <2>1. Descends(ch, m, r)
    BY <1>2
  <2> QED
    BY <2>1, VisitsExist DEF AreVisits, Blocks
<1>4. Ordered!Visits = CHOOSE f : f = [b \in Inner |-> Ordered!FlattenSeq([i \in DOMAIN ch[b] |-> Block(f, ch[b][i])])]
  BY <1>1, <1>2
<1> QED
  BY <1>2, <1>3, <1>4 DEF AreVisits, Blocks
-----------------------------------------------------------------------------
(* The visits, in the links                                                *)

\* The lists of the refinement are those of the rings.
LEMMA KidsRing ==
  ASSUME TreeInv, NEW b \in Inner
  PROVE  Ring(next, parent, b, kids[b])
<1>1. PICK s : Ring(next, parent, b, s)
  BY DEF TreeInv, Rings
<1>2. followedOf(next, b) = s
  BY <1>1, FollowedRing
<1>3. kids[b] = s
  BY <1>2, FollowedOf DEF kids
<1> QED
  BY <1>1, <1>3

\* Branches have less height than the branch they are in.
LEMMA KidsDescend ==
  ASSUME TreeInv
  PROVE  \E m \in Nat : \E r : Descends(kids, m, r) /\ Falls(parent, m, r)
<1>1. PICK m \in Nat : \E r : Falls(parent, m, r)
  BY DEF TreeInv, Heights
<1>2. PICK r : Falls(parent, m, r)
  BY <1>1
<1>3. \A b \in Inner : kids[b] \in Seq(Nodes)
  BY KidsRing DEF Ring
<1>4. kids \in [Inner -> Seq(Nodes)]
  <2>1. kids = [b \in Inner |-> kids[b]]
    BY DEF kids
  <2> QED
    BY <1>3, <2>1
<1>5. ASSUME NEW b \in Inner, NEW i \in 1..Len(kids[b]), kids[b][i] \in Branches
      PROVE  r[kids[b][i]] < r[b]
  <2>1. PICK c : c = kids[b][i]
    OBVIOUS
  <2>2. c \in Items(kids[b]) /\ c \in Branches /\ c \in Nodes
    BY <1>3, <1>5, <2>1 DEF Items
  <2>3. parent[c] = b
    BY <2>2, KidsRing DEF Ring
  <2>4. parent[c] # Null
    BY <2>3, Apart
  <2> QED
    BY <1>2, <2>1, <2>2, <2>3, <2>4 DEF Falls
<1> QED
  BY <1>2, <1>4, <1>5 DEF Descends, Falls

\* The visits of the children of a branch, in the links: from each child to the
\* next, and from the first to the last.
LEMMA VisitLinks ==
  ASSUME TreeInv, NEW b \in Inner, placed(b), NEW V, V = Ordered!Visits
  PROVE  /\ V[b] \in VisitSeqs
         /\ empty(b) => V[b] = <<>>
         /\ ~empty(b) => Ends(V[b], <<get_firstchild(b), FALSE>>, lastVisit(get_lastchild(b)))
         /\ \A x \in Nodes : parent[x] = b =>
              /\ \A u, v : Step(Block(V, x), u, v) => Step(V[b], u, v)
              /\ next[x] \notin Sentinels => Step(V[b], lastVisit(x), <<next[x], FALSE>>)
<1>1. PICK s : s = kids[b]
  OBVIOUS
<1>2. /\ s \in Seq(Nodes) /\ Len(s) \in Nat /\ Ring(next, parent, b, s)
      /\ \A x \in Nodes : parent[x] = b <=> x \in Items(s)
      /\ \A i \in 0..Len(s) : next[At(b, s, i)] = At(b, s, i + 1)
  BY <1>1, KidsRing DEF Ring
<1>3. /\ V[b] = Ordered!FlattenSeq(Blocks(V, s))
      /\ \A c \in Inner : V[c] \in VisitSeqs
  <2>1. PICK m \in Nat : \E r : Descends(kids, m, r) /\ Falls(parent, m, r)
    BY KidsDescend
  <2>2. PICK r : Descends(kids, m, r) /\ Falls(parent, m, r)
    BY <2>1
  <2>3. PICK ch : ch = kids
    OBVIOUS
  <2>4. AreVisits(V, ch) /\ Descends(ch, m, r)
    BY <2>2, <2>3, OrderedVisits
  <2>5. \A c \in Inner : V[c] \in VisitSeqs
    BY <2>4, VisitsTyped
  <2> QED
    BY <1>1, <2>3, <2>4, <2>5 DEF AreVisits
<1>4. /\ s = <<>> => V[b] = <<>>
      /\ s # <<>> => Ends(V[b], <<s[1], FALSE>>, lastVisit(s[Len(s)]))
      /\ \A i \in 1..Len(s) : \A x, y : Step(Block(V, s[i]), x, y) => Step(V[b], x, y)
      /\ \A i \in 1..(Len(s) - 1) : Step(V[b], lastVisit(s[i]), <<s[i + 1], FALSE>>)
  <2>1. \A i \in 1..Len(s) : s[i] \in Branches => V[s[i]] \in VisitSeqs
    BY <1>3, Apart
  <2> QED
    BY <1>2, <1>3, <2>1, ChildrenSteps
<1>5. get_firstchild(b) = At(b, s, 1) /\ (empty(b) <=> At(b, s, 1) = sent(b))
  <2>1. 0 \in 0..Len(s) /\ 0 + 1 = 1 /\ At(b, s, 0) = sent(b)
    BY <1>2 DEF At
  <2>2. next[sent(b)] = At(b, s, 1)
    BY <1>2, <2>1
  <2> QED
    BY <2>2 DEF empty, get_firstchild
<1>6. get_lastchild(b) = At(b, s, Len(s))
  <2>1. sent(b) \in Linked /\ parent[sent(b)] = b
    BY SentinelsLinked DEF TreeInv, IndInv
  <2>2. Len(s) + 1 \in 1..(Len(s) + 1) /\ At(b, s, Len(s) + 1) = sent(b) /\ (Len(s) + 1) - 1 = Len(s)
    BY <1>2 DEF At
  <2>3. PICK x : x = sent(b)
    OBVIOUS
  <2>4. prev[x] = At(parent[x], s, (Len(s) + 1) - 1)
    <3>1. /\ IndInv /\ x \in Linked /\ placed(parent[x]) /\ Ring(next, parent, parent[x], s)
          /\ At(parent[x], s, Len(s) + 1) = x
      BY <1>2, <2>1, <2>2, <2>3 DEF TreeInv
    <3>2. \A i \in 1..(Len(s) + 1) : At(parent[x], s, i) = x => prev[x] = At(parent[x], s, i - 1)
      BY <3>1, InRing
    <3> QED
      BY <2>2, <3>1, <3>2
  <2> QED
    BY <2>1, <2>2, <2>3, <2>4 DEF get_lastchild
<1>7. empty(b) => s = <<>>
  <2>1. Len(s) >= 1 => At(b, s, 1) = s[1] /\ s[1] \in Nodes
    BY <1>2 DEF At
  <2>2. empty(b) => ~(Len(s) >= 1)
    BY <1>5, <2>1, Apart
  <2> QED
    BY <1>2, <2>2
<1>8. ~empty(b) => s # <<>> /\ get_firstchild(b) = s[1] /\ get_lastchild(b) = s[Len(s)]
  <2>1. s = <<>> => At(b, s, 1) = sent(b)
    BY <1>2 DEF At
  <2>2. s # <<>> => 1 \in 1..Len(s) /\ Len(s) \in 1..Len(s)
    BY <1>2
  <2> QED
    BY <1>5, <1>6, <2>1, <2>2 DEF At
<1>9. ASSUME NEW x \in Nodes, parent[x] = b
      PROVE  /\ \A u, v : Step(Block(V, x), u, v) => Step(V[b], u, v)
             /\ next[x] \notin Sentinels => Step(V[b], lastVisit(x), <<next[x], FALSE>>)
  <2>1. x \in Items(s)
    BY <1>2, <1>9
  <2>2. PICK i \in 1..Len(s) : s[i] = x
    BY <2>1 DEF Items
  <2>3. i \in 0..Len(s) /\ next[x] = At(b, s, i + 1)
    BY <1>2, <2>2 DEF At
  <2>4. ASSUME next[x] \notin Sentinels
        PROVE  Step(V[b], lastVisit(x), <<next[x], FALSE>>)
    <3>1. At(b, s, i + 1) # sent(b)
      BY <2>3, <2>4, Apart
    <3>2. i + 1 \in 1..Len(s)
      BY <3>1 DEF At
    <3>3. i \in 1..(Len(s) - 1) /\ next[x] = s[i + 1]
      BY <1>2, <2>3, <3>2 DEF At
    <3> QED
      BY <1>4, <2>2, <3>3
  <2> QED
    BY <1>4, <2>2, <2>4
<1> QED
  BY <1>3, <1>4, <1>7, <1>8, <1>9

\* The visits of a branch in the tree are among those of the tree.
LEMMA Upwards ==
  ASSUME TreeInv, NEW V, V = Ordered!Visits
  PROVE  \A b \in Inner : placed(b) => \A u, v : Step(V[b], u, v) => Step(V[Root], u, v)
<1>1. PICK m \in Nat : \E r : Descends(kids, m, r) /\ Falls(parent, m, r)
  BY KidsDescend
<1>2. PICK r : Falls(parent, m, r)
  BY <1>1
<1>3. r \in [Inner -> 0..m] /\ \A n \in Branches : parent[n] # Null => r[n] < r[parent[n]]
  BY <1>2 DEF Falls
<1> DEFINE Holds(b) == \A u, v : Step(V[b], u, v) => Step(V[Root], u, v)
           T == {i \in 0..m : \A b \in Inner : placed(b) /\ m - r[b] <= i => Holds(b)}
<1>4. ASSUME NEW b \in Inner, placed(b), b # Root
      PROVE  /\ b \in Branches /\ parent[b] \in Inner /\ placed(parent[b]) /\ r[b] < r[parent[b]]
             /\ Holds(parent[b]) => Holds(b)
  <2>1. b \in Branches /\ b \in Nodes /\ b \in Linked /\ b \notin Sentinels
    BY <1>4, Apart DEF Inner, placed
  <2>2. parent[b] \in Inner /\ placed(parent[b]) /\ parent[b] # Null
    BY <2>1 DEF TreeInv, IndInv, LinksMatch, TypeOK, Linked
  <2>3. V[b] \in VisitSeqs
    BY <1>4, VisitLinks
  <2>4. \A u, v : Step(V[b], u, v) => Step(Block(V, b), u, v)
    BY <2>1, <2>3, BlockSteps
  <2>5. \A u, v : Step(Block(V, b), u, v) => Step(V[parent[b]], u, v)
    BY <2>1, <2>2, VisitLinks
  <2> QED
    BY <1>3, <2>1, <2>2, <2>4, <2>5
<1> HIDE DEF Holds
<1>5. Holds(Root)
  BY DEF Holds
<1>6. 0 \in T
  <2>1. ASSUME NEW b \in Inner, placed(b), m - r[b] <= 0, b # Root
        PROVE  FALSE
    <3>1. r[b] \in 0..m /\ r[parent[b]] \in 0..m /\ r[b] < r[parent[b]]
      BY <1>3, <1>4, <2>1
    <3> QED
      BY <2>1, <3>1
  <2> QED
    BY <1>5, <2>1
<1>7. ASSUME NEW i \in 1..m, i - 1 \in T
      PROVE  i \in T
  <2>1. ASSUME NEW b \in Inner, placed(b), m - r[b] <= i, b # Root
        PROVE  Holds(b)
    <3>1. r[b] \in 0..m /\ r[parent[b]] \in 0..m /\ r[b] < r[parent[b]]
      BY <1>3, <1>4, <2>1
    <3>2. m - r[parent[b]] <= i - 1
      BY <2>1, <3>1
    <3> QED
      BY <1>4, <1>7, <2>1, <3>2
  <2> QED
    BY <1>5, <2>1
<1>8. m \in T
  <2>1. 0..m \subseteq T
    <3> HIDE DEF T
    <3> QED
      BY <1>6, <1>7, Induction
  <2> QED
    BY <2>1
<1>9. \A b \in Inner : m - r[b] <= m
  <2>1. \A b \in Inner : r[b] \in 0..m
    BY <1>3
  <2> QED
    BY <2>1
<1> QED
  BY <1>8, <1>9 DEF Holds

\* The tree is visited after its children.
LEMMA InorderSteps ==
  ASSUME TreeInv, NEW V, V = Ordered!Visits
  PROVE  /\ \A u, v : Step(V[Root], u, v) => Step(Ordered!Inorder, u, v)
         /\ \A u, v : Ends(V[Root], u, v) => Step(Ordered!Inorder, v, <<Root, TRUE>>)
<1>0. PICK S : S = (Nodes \cup {Root}) \X BOOLEAN
  OBVIOUS
<1>1. PICK a \in Seq(S) : a = V[Root]
  <2>1. V[Root] \in VisitSeqs
    BY VisitLinks, Apart DEF placed
  <2> QED
    BY <1>0, <2>1 DEF VisitSeqs
<1>2. PICK e \in S : e = <<Root, TRUE>>
  BY <1>0
<1>3. PICK o \in Seq(S) : o = <<e>> /\ Ends(o, e, e)
  BY <1>2, Singleton
<1>4. Ordered!Inorder = Append(a, e)
  BY <1>1, <1>2 DEF Ordered!Inorder, Ordered!End, Ordered!visit
<1>5. Append(a, e) = a \o o
  BY <1>3
<1>6. PICK s : s = a \o o
  OBVIOUS
<1>7. /\ \A x, y : Step(a, x, y) => Step(s, x, y)
      /\ \A u, v, x, y : Ends(a, u, v) /\ Ends(o, x, y) => Ends(s, u, y) /\ Step(s, v, x)
  BY <1>6, JoinSteps
<1> QED
  BY <1>1, <1>2, <1>3, <1>4, <1>5, <1>6, <1>7
-----------------------------------------------------------------------------
(* Steps of the iterators are steps of the visits                          *)

\* The visit of an inorder iterator that does not point to a sentinel.
LEMMA VisitOf ==
  ASSUME NEW x, x \notin Sentinels
  PROVE  /\ Visit(inorder(x, FALSE)) = <<x, FALSE>>
         /\ is_branch(x) => Visit(inorder(x, TRUE)) = <<x, TRUE>>
         /\ ~is_branch(x) => Visit(inorder(x, TRUE)) = <<x, FALSE>>
<1>1. /\ inorder(x, FALSE).ptr = x /\ inorder(x, FALSE).visited = FALSE
      /\ inorder(x, TRUE).ptr = x /\ inorder(x, TRUE).visited = TRUE
  BY DEF inorder
<1>2. (is_branch(x) /\ FALSE) = FALSE
  OBVIOUS
<1>3. is_branch(x) => (is_branch(x) /\ TRUE) = TRUE
  OBVIOUS
<1>4. Visit(inorder(x, FALSE)) = <<x, FALSE>>
  BY <1>1, <1>2 DEF Visit
<1>5. is_branch(x) => Visit(inorder(x, TRUE)) = <<x, TRUE>>
  BY <1>1, <1>3 DEF Visit
<1>6. ~is_branch(x) => (is_branch(x) /\ TRUE) = FALSE
  OBVIOUS
<1>7. ~is_branch(x) => Visit(inorder(x, TRUE)) = <<x, FALSE>>
  BY <1>1, <1>6 DEF Visit
<1> QED
  BY <1>4, <1>5, <1>7

\* A step forward from any position but the end goes to the next visit.
LEMMA ForwardStep ==
  ASSUME TreeInv, NEW i \in Positions, ~equal(i, inorder_end)
  PROVE  Step(Ordered!Inorder, Visit(i), Visit(increment(i)))
<1>0. IndInv
  BY DEF TreeInv
<1>1. /\ i.ptr \in Linked \ Sentinels /\ i.visited \in BOOLEAN
      /\ Visit(i) = <<i.ptr, is_branch(i.ptr) /\ i.visited>>
  <2>1. CASE i \in {inorder(x, v) : x \in Linked \ Sentinels, v \in BOOLEAN}
    <3>1. PICK x \in Linked \ Sentinels, v \in BOOLEAN : i = inorder(x, v)
      BY <2>1
    <3> QED
      BY <3>1 DEF inorder, Visit
  <2>2. CASE i = inorder_end
    BY <2>2 DEF equal
  <2> QED
    BY <2>1, <2>2 DEF Positions
<1>2. PICK n : n = i.ptr
  OBVIOUS
<1>3. /\ n \in Nodes /\ n \in Linked /\ has_parent(n) /\ parent[n] \in Inner /\ placed(parent[n])
      /\ get_lastchild(parent[n]) = n <=> next[n] = sent(parent[n])
      /\ get_lastchild(parent[n]) # n => next[n] \in Linked \ Sentinels
      /\ n \in Branches => n \in Inner /\ placed(n) /\ n # Root
      /\ is_branch(n) <=> n \in Branches
      /\ n \in Branches <=> n \notin Leafs
  <2>1. n \in Nodes
    BY <1>0, <1>1, <1>2 DEF Linked, Linkable, LinksMatch, IndInv
  <2>2. is_branch(n) <=> n \in Branches
    BY <2>1, Apart DEF is_branch, Inner
  <2> QED
    BY <1>0, <1>1, <1>2, <2>1, <2>2, NodeInRing, Apart, NodesAssumption DEF placed, Nodes
<1>4. PICK V : V = Ordered!Visits
  OBVIOUS
<1>5. PICK b \in Inner : b = parent[n]
  BY <1>3
<1>6. ASSUME NEW u, NEW v, Step(V[b], u, v)
      PROVE  Step(Ordered!Inorder, u, v)
  <2>1. Step(V[Root], u, v)
    BY <1>3, <1>4, <1>5, <1>6, Upwards
  <2> QED
    BY <1>4, <2>1, InorderSteps
<1>7. ASSUME NEW u, NEW v, Step(Block(V, n), u, v)
      PROVE  Step(Ordered!Inorder, u, v)
  <2>1. Step(V[b], u, v)
    BY <1>3, <1>4, <1>5, <1>7, VisitLinks
  <2> QED
    BY <1>6, <2>1
<1>8. CASE is_branch(n) /\ ~i.visited
  <2>1. n \in Branches /\ n \in Inner /\ placed(n) /\ Visit(i) = <<n, FALSE>>
    BY <1>1, <1>2, <1>3, <1>8
  <2>2. /\ V[n] \in VisitSeqs
        /\ empty(n) => V[n] = <<>>
        /\ ~empty(n) => Ends(V[n], <<get_firstchild(n), FALSE>>, lastVisit(get_lastchild(n)))
    BY <1>4, <2>1, VisitLinks
  <2>3. CASE empty(n)
    <3>1. increment(i) = inorder(n, TRUE)
      BY <1>2, <1>8, <2>3 DEF increment
    <3>2. Visit(increment(i)) = <<n, TRUE>>
      BY <1>1, <1>2, <1>8, <3>1, VisitOf
    <3>3. Step(Block(V, n), <<n, FALSE>>, <<n, TRUE>>)
      BY <1>3, <2>1, <2>2, <2>3, BlockSteps
    <3> QED
      BY <1>7, <2>1, <3>2, <3>3
  <2>4. CASE ~empty(n)
    <3>1. increment(i) = inorder(get_firstchild(n), FALSE)
      BY <1>2, <1>8, <2>4 DEF increment
    <3>2. get_firstchild(n) \notin Sentinels
      BY <1>0, <2>1, <2>4, Children
    <3>3. Visit(increment(i)) = <<get_firstchild(n), FALSE>>
      BY <3>1, <3>2, VisitOf
    <3>4. Step(Block(V, n), <<n, FALSE>>, <<get_firstchild(n), FALSE>>)
      BY <1>3, <2>1, <2>2, <2>4, BlockSteps
    <3> QED
      BY <1>7, <2>1, <3>3, <3>4
  <2> QED
    BY <2>3, <2>4
<1>9. CASE ~(is_branch(n) /\ ~i.visited)
  <2>1. Visit(i) = lastVisit(n)
    BY <1>1, <1>2, <1>3, <1>9 DEF lastVisit
  <2>2. CASE get_lastchild(b) = n
    <3>1. increment(i) = inorder(b, TRUE)
      BY <1>2, <1>3, <1>5, <1>9, <2>2 DEF increment
    <3>2. b \notin Sentinels /\ is_branch(b)
      BY NodesAssumption DEF Inner, Nodes, is_branch
    <3>3. Visit(increment(i)) = <<b, TRUE>>
      BY <3>1, <3>2, VisitOf
    <3>4. ~empty(b)
      <4>1. sent(b) \in Linked /\ parent[sent(b)] = b
        BY <1>0, SentinelsLinked DEF IndInv
      <4>2. prev[next[sent(b)]] = sent(b)
        BY <1>0, <4>1 DEF IndInv, LinksMatch
      <4>3. n # sent(b)
        BY <1>3, Apart
      <4> QED
        BY <2>2, <4>2, <4>3 DEF empty, get_lastchild
    <3>5. Ends(V[b], <<get_firstchild(b), FALSE>>, lastVisit(n)) /\ V[b] \in VisitSeqs
      BY <1>3, <1>4, <1>5, <2>2, <3>4, VisitLinks
    <3>6. CASE b = Root
      BY <1>4, <2>1, <3>3, <3>5, <3>6, InorderSteps
    <3>7. CASE b # Root
      <4>1. b \in Branches /\ b \in Nodes /\ b \in Linked /\ b \notin Sentinels
        BY <1>3, <1>5, <3>7, Apart DEF Inner, placed
      <4>2. parent[b] \in Inner /\ placed(parent[b])
        BY <1>0, <4>1, NodeInRing
      <4>3. Step(Block(V, b), lastVisit(n), <<b, TRUE>>)
        BY <3>5, <4>1, BlockSteps
      <4>4. Step(V[parent[b]], lastVisit(n), <<b, TRUE>>)
        BY <1>4, <4>1, <4>2, <4>3, VisitLinks
      <4>5. Step(V[Root], lastVisit(n), <<b, TRUE>>)
        BY <1>4, <4>2, <4>4, Upwards
      <4> QED
        BY <1>4, <2>1, <3>3, <4>5, InorderSteps
    <3> QED
      BY <3>6, <3>7
  <2>3. CASE get_lastchild(b) # n
    <3>1. increment(i) = inorder(next[n], FALSE)
      BY <1>2, <1>3, <1>5, <1>9, <2>3 DEF increment
    <3>2. next[n] \notin Sentinels
      BY <1>3, <1>5, <2>3
    <3>3. Visit(increment(i)) = <<next[n], FALSE>>
      BY <3>1, <3>2, VisitOf
    <3>4. Step(V[b], lastVisit(n), <<next[n], FALSE>>)
      BY <1>3, <1>4, <1>5, <3>2, VisitLinks
    <3> QED
      BY <1>6, <2>1, <3>3, <3>4
  <2> QED
    BY <2>2, <2>3
<1> QED
  BY <1>2, <1>8, <1>9

\* Equal iterators stand for the same visit.
LEMMA EqualVisits ==
  ASSUME NEW i, NEW j, i.visited \in BOOLEAN, j.visited \in BOOLEAN, equal(i, j)
  PROVE  Visit(i) = Visit(j)
<1>1. i.ptr = j.ptr /\ (is_branch(i.ptr) => i.visited = j.visited)
  BY DEF equal
<1>2. (is_branch(i.ptr) /\ i.visited) = (is_branch(j.ptr) /\ j.visited)
  BY <1>1
<1> QED
  BY <1>1, <1>2 DEF Visit

\* A step back goes to the visit before.
LEMMA BackStep ==
  ASSUME TreeInv, it.kind = "inorder", ~equal(it, inorder_begin)
  PROVE  Step(Ordered!Inorder, Visit(decrement(it)), Visit(it))
<1>0. IndInv
  BY DEF TreeInv
<1>1. Held(it) /\ it \in Positions /\ it.visited \in BOOLEAN
  BY CallerHeld
<1>2. PICK j : j = decrement(it)
  OBVIOUS
<1>3. Held(j)
  BY <1>0, <1>1, <1>2, StepsHeld DEF IndInv
<1>4. \E x : \E v \in BOOLEAN : j = inorder(x, v)
  BY <1>2 DEF decrement
<1>5. PICK x : \E v \in BOOLEAN : j = inorder(x, v)
  BY <1>4
<1>6. PICK v \in BOOLEAN : j = inorder(x, v)
  BY <1>5
<1>7. j.ptr = x /\ j.visited = v /\ j.kind = "inorder"
  BY <1>6 DEF inorder
<1>8. j \in Positions
  <2>1. j = inorder_end \/ x \in Linked \ Sentinels
    BY <1>3, <1>7 DEF Held
  <2> QED
    BY <1>6, <2>1 DEF Positions
<1>9. equal(increment(j), it)
  BY <1>0, <1>1, <1>2, BackUndone
<1>10. ~equal(j, inorder_end)
  <2> SUFFICES ASSUME equal(j, inorder_end) PROVE FALSE
    OBVIOUS
  <2>1. x = Root /\ v
    BY <1>7 DEF equal, inorder_end, inorder, is_branch, Inner
  <2>2. increment(j).ptr = it.ptr
    BY <1>9 DEF equal
  <2>3. j = inorder(Root, TRUE)
    BY <1>6, <2>1
  <2>4. it.ptr \in Linkable /\ Root \notin Linked
    BY <1>0, <1>1 DEF Held, IndInv, LinksMatch
  <2>5. is_branch(it.ptr) /\ it.visited => empty(it.ptr) \/ get_lastchild(it.ptr) \in Linked \ Sentinels
    BY <1>0, Children DEF is_branch
  <2>6. ASSUME is_branch(it.ptr), it.visited
        PROVE  FALSE
    <3>1. CASE empty(it.ptr)
      <4>1. j = inorder(it.ptr, FALSE)
        BY <1>2, <2>6, <3>1 DEF decrement
      <4> QED
        BY <2>3, <4>1 DEF inorder
    <3>2. CASE ~empty(it.ptr)
      <4>1. j = inorder(get_lastchild(it.ptr), TRUE)
        BY <1>2, <2>6, <3>2 DEF decrement
      <4>2. get_lastchild(it.ptr) = Root
        BY <2>3, <4>1 DEF inorder
      <4> QED
        BY <2>4, <2>5, <2>6, <3>2, <4>2
    <3> QED
      BY <3>1, <3>2
  <2>7. ASSUME ~(is_branch(it.ptr) /\ it.visited)
        PROVE  FALSE
    <3>1. it # inorder_end
      BY <2>7 DEF inorder_end, inorder, is_branch, Inner
    <3>2. it.ptr \in Linked \ Sentinels
      BY <1>1, <3>1, CallerHeld DEF Held
    <3>3. CASE has_parent(it.ptr) /\ get_firstchild(parent[it.ptr]) = it.ptr
      <4>1. j = inorder(parent[it.ptr], FALSE)
        BY <1>2, <2>7, <3>3 DEF decrement
      <4> QED
        BY <2>3, <4>1 DEF inorder
    <3>4. CASE ~(has_parent(it.ptr) /\ get_firstchild(parent[it.ptr]) = it.ptr)
      <4>1. j = inorder(prev[it.ptr], TRUE)
        BY <1>2, <2>7, <3>4 DEF decrement
      <4>2. prev[it.ptr] = Root
        BY <2>3, <4>1 DEF inorder
      <4>3. prev[it.ptr] \in Linked
        BY <1>0, <3>2, <3>4, NodeInRing
      <4> QED
        BY <2>4, <4>2, <4>3
    <3> QED
      BY <3>3, <3>4
  <2> QED
    BY <2>6, <2>7
<1>11. Step(Ordered!Inorder, Visit(j), Visit(increment(j)))
  BY <1>8, <1>10, ForwardStep
<1>12. Visit(increment(j)) = Visit(it)
  <2>1. increment(j).visited \in BOOLEAN
    BY DEF increment, inorder
  <2> QED
    BY <1>1, <1>9, <2>1, EqualVisits
<1> QED
  BY <1>2, <1>11, <1>12
-----------------------------------------------------------------------------
(* The semitree implements the ordered tree                                *)

\* What Append does.
LEMMA Appended ==
  ASSUME NEW S, NEW q \in Seq(S), NEW e \in S
  PROVE  /\ Len(Append(q, e)) = Len(q) + 1 /\ DOMAIN Append(q, e) = 1..(Len(q) + 1)
         /\ Append(q, e)[Len(q) + 1] = e /\ \A i \in 1..Len(q) : Append(q, e)[i] = q[i]
         /\ Head(Append(q, e)) = Append(q, e)[1]
<1>1. PICK t \in Seq(S) : t = Append(q, e)
  <2>1. Append(q, e) \in Seq(S)
    OBVIOUS
  <2> QED
    BY <2>1
<1>2. /\ Len(t) = Len(q) + 1 /\ DOMAIN t = 1..(Len(q) + 1)
      /\ t[Len(q) + 1] = e /\ \A i \in 1..Len(q) : t[i] = q[i]
  BY <1>1
<1>3. t # <<>>
  BY <1>2
<1>4. Head(t) = t[1]
  BY <1>3
<1> QED
  BY <1>1, <1>2, <1>4

\* The siblings of the ordered tree are the places of a ring.
LEMMA SiblingsAre ==
  ASSUME TreeInv, NEW b \in Inner, NEW s, s = kids[b]
  PROVE  /\ Len(Ordered!Siblings(b)) = Len(s) + 1
         /\ DOMAIN Ordered!Siblings(b) = 1..(Len(s) + 1)
         /\ Head(Ordered!Siblings(b)) = Ordered!Siblings(b)[1]
         /\ \A i \in 1..(Len(s) + 1) : Ordered!Siblings(b)[i] = visitAt(At(b, s, i))
<1>0. s \in Seq(Nodes) /\ Len(s) \in Nat /\ DOMAIN s = 1..Len(s)
  BY KidsRing DEF Ring
<1>1. PICK S : S = (Nodes \cup Inner) \X BOOLEAN
  OBVIOUS
<1>2. PICK e \in S : e = <<b, TRUE>>
  BY <1>1
<1>3. PICK q \in Seq(S) : /\ q = [i \in 1..Len(s) |-> <<s[i], FALSE>>]
                          /\ Len(q) = Len(s)
                          /\ \A i \in 1..Len(s) : q[i] = <<s[i], FALSE>>
  <2> DEFINE w == [i \in 1..Len(s) |-> <<s[i], FALSE>>]
  <2>1. w \in [1..Len(s) -> S]
    <3>1. \A i \in 1..Len(s) : s[i] \in Nodes
      BY <1>0
    <3>2. \A i \in 1..Len(s) : <<s[i], FALSE>> \in S
      BY <1>1, <3>1
    <3> QED
      BY <3>2
  <2>2. w \in Seq(S) /\ Len(w) = Len(s)
    <3> HIDE DEF w
    <3> QED
      BY <1>0, <2>1
  <2>3. \A i \in 1..Len(s) : w[i] = <<s[i], FALSE>>
    OBVIOUS
  <2> QED
    BY <2>2, <2>3
<1>4. PICK t : t = Ordered!Siblings(b)
  OBVIOUS
<1>5. t = Append(q, e)
  BY <1>0, <1>2, <1>3, <1>4 DEF Ordered!Siblings, Ordered!visit, kids
<1>6. /\ Len(t) = Len(s) + 1 /\ DOMAIN t = 1..(Len(s) + 1)
      /\ t[Len(s) + 1] = e /\ \A i \in 1..Len(s) : t[i] = q[i]
      /\ Head(t) = t[1]
  <2>1. /\ Len(t) = Len(q) + 1 /\ DOMAIN t = 1..(Len(q) + 1)
        /\ t[Len(q) + 1] = e /\ \A i \in 1..Len(q) : t[i] = q[i]
        /\ Head(t) = t[1]
    BY <1>5, Appended
  <2> QED
    BY <1>3, <2>1
<1>7. ASSUME NEW i \in 1..(Len(s) + 1)
      PROVE  t[i] = visitAt(At(b, s, i))
  <2>1. CASE i = Len(s) + 1
    <3>1. At(b, s, i) = sent(b)
      BY <1>0, <2>1 DEF At
    <3>2. parent[sent(b)] = b /\ sent(b) \in Sentinels
      BY SentinelsLinked, Apart DEF TreeInv, IndInv
    <3> QED
      BY <1>2, <1>6, <2>1, <3>1, <3>2 DEF visitAt
  <2>2. CASE i # Len(s) + 1
    <3>1. i \in 1..Len(s)
      BY <1>0, <2>2
    <3>2. At(b, s, i) = s[i] /\ s[i] \notin Sentinels
      BY <1>0, <3>1, Apart DEF At
    <3> QED
      BY <1>3, <1>6, <3>1, <3>2 DEF visitAt
  <2> QED
    BY <2>1, <2>2
<1> QED
  BY <1>4, <1>6, <1>7

\* Where a pointer into the tree is among the siblings, and its neighbours.
LEMMA Places ==
  ASSUME TreeInv, NEW x \in Linked, placed(parent[x]), NEW b, b = parent[x], NEW s, s = kids[b]
  PROVE  /\ b \in Inner
         /\ \E i \in 1..(Len(s) + 1) :
              /\ Ordered!Siblings(b)[i] = visitAt(x)
              /\ x \notin Sentinels => i \in 1..Len(s) /\ Ordered!Siblings(b)[i + 1] = visitAt(next[x])
              /\ prev[x] \notin Sentinels => i - 1 \in 1..Len(s) /\ Ordered!Siblings(b)[i - 1] = visitAt(prev[x])
<1>0. IndInv /\ b \in Inner
  BY Neighbours DEF TreeInv, IndInv
<1>1. /\ s \in Seq(Nodes) /\ Len(s) \in Nat /\ Ring(next, parent, b, s)
      /\ \A i \in 0..Len(s) : next[At(b, s, i)] = At(b, s, i + 1)
  BY <1>0, KidsRing DEF Ring
<1>2. PICK i \in 1..(Len(s) + 1) : At(b, s, i) = x /\ prev[x] = At(b, s, i - 1)
  BY <1>0, <1>1, InRing
<1>3. \A j \in 1..(Len(s) + 1) : Ordered!Siblings(b)[j] = visitAt(At(b, s, j))
  BY <1>0, SiblingsAre
<1>4. sent(b) \in Sentinels
  BY <1>0, Apart
<1>5. ASSUME x \notin Sentinels
      PROVE  i \in 1..Len(s) /\ Ordered!Siblings(b)[i + 1] = visitAt(next[x])
  <2>1. i \in 1..Len(s)
    BY <1>2, <1>4, <1>5 DEF At
  <2>2. i \in 0..Len(s) /\ i + 1 \in 1..(Len(s) + 1)
    BY <1>1, <2>1
  <2>3. next[x] = At(b, s, i + 1)
    BY <1>1, <1>2, <2>2
  <2> QED
    BY <1>3, <2>1, <2>2, <2>3
<1>6. ASSUME prev[x] \notin Sentinels
      PROVE  i - 1 \in 1..Len(s) /\ Ordered!Siblings(b)[i - 1] = visitAt(prev[x])
  <2>1. i - 1 \in 1..Len(s)
    BY <1>2, <1>4, <1>6 DEF At
  <2>2. i - 1 \in 1..(Len(s) + 1)
    BY <1>1, <2>1
  <2> QED
    BY <1>2, <1>3, <2>1, <2>2
<1> QED
  BY <1>0, <1>2, <1>3, <1>5, <1>6

\* Walking keeps the lists.
LEMMA WalkKids ==
  ASSUME NEW name, NEW i, walk(name, i)
  PROVE  kids' = kids /\ op' = name /\ Visit(it)' = Visit(i)
<1>1. next' = next /\ parent' = parent /\ it' = i /\ op' = name
  BY DEF walk, links
<1>2. \A b : Followed(b)' = Followed(b)
  BY <1>1, FollowedOf
<1>3. kids' = kids
  BY <1>2 DEF kids
<1> QED
  BY <1>1, <1>3 DEF Visit

\* The visit of a sibling iterator.
LEMMA VisitSibling == \A x : Visit(sibling(x)) = visitAt(x)
<1> TAKE x
<1>1. sibling(x).ptr = x /\ sibling(x).visited = FALSE
  BY DEF sibling
<1>2. (is_branch(x) /\ FALSE) = FALSE
  OBVIOUS
<1> QED
  BY <1>1, <1>2 DEF Visit, visitAt

\* The step of the ordered tree that a step of the semitree stands for.
Walked(name, s, from, to) == op' = name /\ Step(s, from, to) /\ kids' = kids

\* ++ of an inorder iterator walks the visits.
LEMMA ForwardMaps ==
  ASSUME TreeInv, inorder_forward
  PROVE  Ordered!Forward
<1>1. walk("forward", increment(it)) /\ it \in Positions /\ ~equal(it, inorder_end)
  BY CallerHeld DEF inorder_forward
<1>2. Walked("forward", Ordered!Inorder, Visit(it), Visit(it)')
  BY <1>1, WalkKids, ForwardStep DEF Walked
<1> QED
  BY <1>2 DEF Walked, Step, kids, Ordered!Forward, Ordered!Walk, Ordered!Step

\* -- walks them backwards.
LEMMA BackMaps ==
  ASSUME TreeInv, inorder_back
  PROVE  Ordered!Back
<1>1. walk("back", decrement(it)) /\ it.kind = "inorder" /\ ~equal(it, inorder_begin)
  BY DEF inorder_back
<1>2. Walked("back", Ordered!Inorder, Visit(it)', Visit(it))
  BY <1>1, WalkKids, BackStep DEF Walked
<1> QED
  BY <1>2 DEF Walked, Step, kids, Ordered!Back, Ordered!Walk, Ordered!Step

\* A sibling iterator walks the children of a branch.
LEMMA SiblingMaps ==
  ASSUME TreeInv, sibling_forward \/ sibling_back
  PROVE  Ordered!NextSibling \/ Ordered!PrevSibling
<1>1. it.kind = "sibling"
  BY DEF sibling_forward, sibling_back
<1>2. PICK x \in Linked : x = it.ptr /\ placed(parent[x]) /\ it = sibling(x)
  BY <1>1, CallerHeld
<1>3. Visit(it) = visitAt(x)
  BY <1>2, VisitSibling
<1>4. PICK b : b = parent[x]
  OBVIOUS
<1>5. PICK s : s = kids[b]
  OBVIOUS
<1>6. b \in Inner
  BY <1>2, <1>4, <1>5, Places
<1> DEFINE Place(i) ==
             /\ Ordered!Siblings(b)[i] = visitAt(x)
             /\ x \notin Sentinels => i \in 1..Len(s) /\ Ordered!Siblings(b)[i + 1] = visitAt(next[x])
             /\ prev[x] \notin Sentinels => i - 1 \in 1..Len(s) /\ Ordered!Siblings(b)[i - 1] = visitAt(prev[x])
<1>11. \E i \in 1..(Len(s) + 1) : Place(i)
  <2>1. placed(parent[x])
    BY <1>2
  <2> QED
    BY <1>4, <1>5, <2>1, Places
<1>7. PICK i \in 1..(Len(s) + 1) : Place(i)
  BY <1>11
<1>8. Len(Ordered!Siblings(b)) - 1 = Len(s) /\ Len(s) \in Nat
  <2>1. Len(Ordered!Siblings(b)) = Len(s) + 1
    BY <1>5, <1>6, SiblingsAre
  <2>2. Len(s) \in Nat
    BY <1>5, <1>6, KidsRing DEF Ring
  <2> QED
    BY <2>1, <2>2
<1>9. CASE sibling_forward
  <2>1. walk("next", sibling(next[x])) /\ x \notin Sentinels
    BY <1>2, <1>9 DEF sibling_forward
  <2>2. op' = "next" /\ kids' = kids /\ Visit(it)' = visitAt(next[x])
    BY <2>1, WalkKids, VisitSibling
  <2>3. Walked("next", Ordered!Siblings(b), Visit(it), Visit(it)')
    BY <1>3, <1>7, <1>8, <2>1, <2>2 DEF Walked, Step
  <2>4. b \in Ordered!Inner
    BY <1>6 DEF Inner, Ordered!Inner
  <2> QED
    BY <2>3, <2>4 DEF Walked, Step, kids, Ordered!NextSibling, Ordered!Walk, Ordered!Step
<1>10. CASE sibling_back
  <2>1. walk("prev", sibling(prev[x])) /\ prev[x] \notin Sentinels
    BY <1>2, <1>10 DEF sibling_back
  <2>2. op' = "prev" /\ kids' = kids /\ Visit(it)' = visitAt(prev[x])
    BY <2>1, WalkKids, VisitSibling
  <2>3. i - 1 \in 1..(Len(Ordered!Siblings(b)) - 1) /\ (i - 1) + 1 = i
    BY <1>7, <1>8, <2>1
  <2>4. Ordered!Siblings(b)[i - 1] = Visit(it)' /\ Ordered!Siblings(b)[(i - 1) + 1] = Visit(it)
    BY <1>3, <1>7, <2>1, <2>2, <2>3
  <2>5. Walked("prev", Ordered!Siblings(b), Visit(it)', Visit(it))
    BY <2>2, <2>3, <2>4 DEF Walked, Step
  <2>6. b \in Ordered!Inner
    BY <1>6 DEF Inner, Ordered!Inner
  <2> QED
    BY <2>5, <2>6 DEF Walked, Step, kids, Ordered!PrevSibling, Ordered!Walk, Ordered!Step
<1> QED
  BY <1>9, <1>10
\* The first of the siblings is the first child, or their end if there is none.
LEMMA HeadOfSiblings ==
  ASSUME TreeInv, NEW b \in Inner
  PROVE  Head(Ordered!Siblings(b)) = visitAt(get_firstchild(b))
<1>1. PICK s : s = kids[b]
  OBVIOUS
<1>2. /\ Len(s) \in Nat /\ \A i \in 0..Len(s) : next[At(b, s, i)] = At(b, s, i + 1)
  BY <1>1, KidsRing DEF Ring
<1>3. Ordered!Siblings(b)[1] = visitAt(At(b, s, 1))
  <2>1. 1 \in 1..(Len(s) + 1)
    BY <1>2
  <2> QED
    BY <1>1, <2>1, SiblingsAre
<1>4. At(b, s, 1) = get_firstchild(b)
  <2>1. 0 \in 0..Len(s) /\ 0 + 1 = 1 /\ At(b, s, 0) = sent(b)
    BY <1>2 DEF At
  <2> QED
    BY <1>2, <2>1 DEF get_firstchild
<1>5. Head(Ordered!Siblings(b)) = Ordered!Siblings(b)[1]
  BY <1>1, SiblingsAre
<1> QED
  BY <1>3, <1>4, <1>5

\* A new walk starts at an end of the tree or of some children.
LEMMA RestartMaps ==
  ASSUME TreeInv, restart
  PROVE  Ordered!Restart
<1> DEFINE Starts == {<<Root, TRUE>>} \cup {Head(Ordered!Siblings(b)) : b \in Inner}
                                      \cup {<<b, TRUE>> : b \in Inner}
<1>0. IndInv /\ Root \in Inner
  BY Apart DEF TreeInv
<1>1. ASSUME NEW b \in Inner
      PROVE  /\ visitAt(get_firstchild(b)) \in Starts /\ visitAt(sent(b)) \in Starts
             /\ get_firstchild(b) \in Linked
  <2>1. parent[sent(b)] = b /\ sent(b) \in Linked /\ sent(b) \in Sentinels
    BY <1>0, SentinelsLinked, Apart DEF IndInv
  <2>2. get_firstchild(b) \in Linked
    BY <1>0, <2>1 DEF IndInv, LinksMatch, get_firstchild
  <2>3. visitAt(sent(b)) = <<b, TRUE>>
    BY <2>1 DEF visitAt
  <2>4. visitAt(get_firstchild(b)) = Head(Ordered!Siblings(b))
    BY HeadOfSiblings
  <2> QED
    BY <2>2, <2>3, <2>4
<1>2. Visit(inorder_end) \in Starts
  <2>1. Root \notin Sentinels /\ is_branch(Root)
    BY NodesAssumption DEF is_branch, Inner
  <2> QED
    BY <2>1, VisitOf DEF inorder_end
<1>3. Visit(inorder_begin) \in Starts
  <2>1. PICK x : x = get_firstchild(Root)
    OBVIOUS
  <2>2. x \in Linked /\ visitAt(x) \in Starts /\ (x \in Sentinels <=> x = sent(parent[x]))
    BY <1>0, <1>1, <2>1, SentinelOf
  <2>3. CASE x \in Sentinels
    <3>1. inorder_begin = inorder(parent[x], TRUE)
      BY <2>1, <2>2, <2>3 DEF inorder_begin, to_inorder, sibling
    <3>2. parent[x] \in Inner
      BY <1>0, <2>2 DEF IndInv, TypeOK, Linked
    <3>3. parent[x] \notin Sentinels /\ is_branch(parent[x])
      BY <3>2, NodesAssumption DEF Inner, Nodes, is_branch
    <3>4. Visit(inorder_begin) = visitAt(x)
      BY <2>3, <3>1, <3>3, VisitOf DEF visitAt
    <3> QED
      BY <2>2, <3>4
  <2>4. CASE x \notin Sentinels
    <3>1. inorder_begin = inorder(x, FALSE)
      BY <2>1, <2>2, <2>4 DEF inorder_begin, to_inorder, sibling
    <3>2. Visit(inorder_begin) = visitAt(x)
      BY <2>4, <3>1, VisitOf DEF visitAt
    <3> QED
      BY <2>2, <3>2
  <2> QED
    BY <2>3, <2>4
<1>4. \E i : walk("restart", i) /\ Visit(i) \in Starts
  BY <1>1, <1>2, <1>3, VisitSibling DEF restart
<1>5. PICK i : walk("restart", i) /\ Visit(i) \in Starts
  BY <1>4
<1>6. op' = "restart" /\ kids' = kids /\ Visit(it)' \in Starts
  BY <1>5, WalkKids
<1> QED
  BY <1>6 DEF kids, Inner, Ordered!Restart, Ordered!Inner, Ordered!End, Ordered!visit

\* A conversion keeps the visit, or means the other one of a branch.
LEMMA ConvertMaps ==
  ASSUME TreeInv, convert
  PROVE  Ordered!Revisit
<1>0. IndInv
  BY DEF TreeInv
<1> DEFINE Meant(v) == v = Visit(it) \/ (Visit(it)[1] \in Branches /\ v = <<Visit(it)[1], TRUE>>)
<1>1. ASSUME it.kind = "inorder"
      PROVE  Meant(Visit(to_sibling(it)))
  <2>1. it.ptr \notin Sentinels
    BY <1>1, CallerHeld
  <2>2. CASE is_branch(it.ptr) /\ it.visited
    <3>1. to_sibling(it) = sibling(sent(it.ptr)) /\ it.ptr \in Inner
      BY <2>2 DEF to_sibling, is_branch
    <3>2. parent[sent(it.ptr)] = it.ptr /\ sent(it.ptr) \in Sentinels
      BY <1>0, <3>1, SentinelsLinked, Apart DEF IndInv
    <3>3. Visit(to_sibling(it)) = <<it.ptr, TRUE>>
      BY <3>1, <3>2, VisitSibling DEF visitAt
    <3>4. Visit(it) = <<it.ptr, TRUE>>
      BY <2>1, <2>2 DEF Visit
    <3> QED
      BY <3>3, <3>4
  <2>3. CASE ~(is_branch(it.ptr) /\ it.visited)
    <3>1. to_sibling(it) = sibling(it.ptr)
      BY <2>3 DEF to_sibling
    <3>2. Visit(to_sibling(it)) = <<it.ptr, FALSE>>
      BY <2>1, <3>1, VisitSibling DEF visitAt
    <3>3. Visit(it) = <<it.ptr, FALSE>>
      BY <2>1, <2>3 DEF Visit
    <3> QED
      BY <3>2, <3>3
  <2> QED
    BY <2>2, <2>3
<1>2. ASSUME it.kind = "sibling", NEW v \in BOOLEAN
      PROVE  Meant(Visit(to_inorder(it, v)))
  <2>1. PICK x \in Linked : x = it.ptr /\ it = sibling(x)
    BY <1>2, CallerHeld
  <2>2. Visit(it) = visitAt(x) /\ parent[x] \in Inner /\ (x \in Sentinels <=> x = sent(parent[x]))
    BY <1>0, <2>1, VisitSibling, SentinelOf DEF IndInv, TypeOK, Linked
  <2>3. CASE x \in Sentinels
    <3>1. to_inorder(it, v) = inorder(parent[x], TRUE)
      BY <2>1, <2>2, <2>3 DEF to_inorder
    <3>2. parent[x] \notin Sentinels /\ is_branch(parent[x])
      BY <2>2, NodesAssumption DEF Inner, Nodes, is_branch
    <3>3. Visit(to_inorder(it, v)) = <<parent[x], TRUE>>
      BY <3>1, <3>2, VisitOf
    <3> QED
      BY <2>2, <2>3, <3>3 DEF visitAt
  <2>4. CASE x \notin Sentinels
    <3>1. to_inorder(it, v) = inorder(x, v)
      BY <2>1, <2>2, <2>4 DEF to_inorder
    <3>2. Visit(it) = <<x, FALSE>>
      BY <2>2, <2>4 DEF visitAt
    <3>3. CASE v = FALSE
      BY <2>4, <3>1, <3>2, <3>3, VisitOf
    <3>4. CASE v = TRUE /\ is_branch(x)
      <4>1. x \in Branches
        BY <1>0, <3>4 DEF IndInv, LinksMatch, is_branch, Inner
      <4>2. Visit(to_inorder(it, v)) = <<x, TRUE>>
        BY <2>4, <3>1, <3>4, VisitOf
      <4>3. Visit(it)[1] = x
        BY <3>2
      <4> QED
        BY <4>1, <4>2, <4>3
    <3>5. CASE v = TRUE /\ ~is_branch(x)
      <4>1. Visit(to_inorder(it, v)) = <<x, FALSE>>
        BY <2>4, <3>1, <3>5, VisitOf
      <4> QED
        BY <3>2, <4>1
    <3> QED
      BY <1>2, <3>3, <3>4, <3>5
  <2> QED
    BY <2>3, <2>4
<1> HIDE DEF Meant
<1>3. \E i : walk("convert", i) /\ Meant(Visit(i))
  BY <1>1, <1>2 DEF convert
<1>4. PICK i : walk("convert", i) /\ Meant(Visit(i))
  BY <1>3
<1>5. op' = "convert" /\ kids' = kids /\ Meant(Visit(it)')
  BY <1>4, WalkKids
<1> QED
  BY <1>5 DEF Meant, kids, Ordered!Revisit, Ordered!visit

\* Insertion puts the node before the visit the caller stands at.
LEMMA InsertMaps ==
  ASSUME TreeInv, NEW n \in Nodes, NEW pt, Inserting(n, pt)
  PROVE  Ordered!Insert(n)
<1>0. /\ IndInv /\ pt \in Linked /\ placed(parent[pt]) /\ branch_insert(pt, n)
      /\ ~has_parent(n) /\ Visit(it) = visitAt(pt) /\ Visit(it)' = visitAt(pt) /\ op' = "insert"
  BY DEF TreeInv, Inserting
<1>1. PICK b : b = parent[pt]
  OBVIOUS
<1>2. PICK s : s = kids[b]
  OBVIOUS
<1>3. b \in Inner /\ Ring(next, parent, b, s)
  BY <1>0, <1>1, <1>2, Places, KidsRing
<1>4. PICK i \in 1..(Len(s) + 1) : At(b, s, i) = pt
  BY <1>0, <1>1, <1>3, InRing
<1>5. i \in DOMAIN Ordered!Siblings(b) /\ Ordered!Siblings(b)[i] = Visit(it)
  BY <1>0, <1>2, <1>3, <1>4, SiblingsAre
<1>6. PICK t : t = Ordered!InsertAt(s, i, n)
  OBVIOUS
<1>7. Ring(next', parent', b, t)
  <2>1. t \in Seq(Nodes) /\ HasAt(t, s, i, n)
    BY <1>3, <1>6, InsertedAt DEF Ring
  <2> QED
    BY <1>0, <1>1, <1>3, <1>4, <2>1, InsertRing
<1>8. ASSUME NEW c \in Inner
      PROVE  Followed(c)' = IF c = b THEN t ELSE kids[c]
  <2>1. PICK u : u = IF c = b THEN t ELSE kids[c]
    OBVIOUS
  <2>2. Ring(next', parent', c, u)
    <3>1. CASE c = b
      BY <1>7, <2>1, <3>1
    <3>2. CASE c # b
      <4>1. Ring(next, parent, c, u)
        BY <2>1, <3>2, KidsRing
      <4> QED
        BY <1>0, <1>1, <3>2, <4>1, OtherRings
    <3> QED
      BY <3>1, <3>2
  <2>3. followedOf(next', c) = u
    <3>1. PICK nx, pa : nx = next' /\ pa = parent'
      OBVIOUS
    <3>2. Ring(nx, pa, c, u)
      BY <2>2, <3>1
    <3>3. followedOf(nx, c) = u
      BY <3>2, FollowedRing
    <3> QED
      BY <3>1, <3>3
  <2> QED
    BY <2>1, <2>3, FollowedOf
<1>9. kids' = [kids EXCEPT ![b] = Ordered!InsertAt(kids[b], i, n)]
  <2>1. kids' = [c \in Inner |-> Followed(c)']
    BY DEF kids
  <2>2. kids' = [c \in Inner |-> IF c = b THEN t ELSE kids[c]]
    BY <1>8, <2>1
  <2>3. DOMAIN kids = Inner
    BY DEF kids
  <2> QED
    BY <1>2, <1>6, <2>2, <2>3
<1>10. n \notin Ordered!Inserted
  <2>1. ASSUME NEW c \in Inner, n \in Ordered!ToSet(kids[c])
        PROVE  FALSE
    <3>1. Ring(next, parent, c, kids[c])
      BY KidsRing
    <3>2. n \in Items(kids[c])
      BY <2>1, <3>1 DEF Ordered!ToSet, Items, Ring
    <3>3. parent[n] = c /\ c # Null
      BY <3>1, <3>2, Apart DEF Ring
    <3> QED
      BY <1>0, <3>3 DEF has_parent
  <2> QED
    BY <2>1 DEF Ordered!Inserted, Ordered!Inner, Inner, kids
<1>11. b \in Ordered!Inner /\ Visit(it)' = Visit(it)
  BY <1>0, <1>3 DEF Inner, Ordered!Inner
<1>12. \E c \in Ordered!Inner : \E j \in DOMAIN Ordered!Siblings(c) :
         /\ Ordered!Siblings(c)[j] = Visit(it)
         /\ kids' = [kids EXCEPT ![c] = Ordered!InsertAt(kids[c], j, n)]
  BY <1>5, <1>9, <1>11
<1> QED
  BY <1>0, <1>10, <1>11, <1>12 DEF kids, Ordered!Insert

\* At the start there are no children.
LEMMA InitMaps == Init => Ordered!Init
<1> SUFFICES ASSUME Init PROVE Ordered!Init
  OBVIOUS
<1>1. TreeInv
  BY InitTree
<1>2. ASSUME NEW b \in Inner
      PROVE  Followed(b) = <<>>
  <2>1. Ring(next, parent, b, kids[b])
    BY <1>1, KidsRing
  <2>2. Items(kids[b]) = {}
    <3>1. \A x \in Nodes : parent[x] = Null
      BY Apart DEF Init
    <3>2. \A x \in Items(kids[b]) : x \in Nodes
      BY <2>1 DEF Ring, Items
    <3> QED
      BY <2>1, <3>1, <3>2, Apart DEF Ring
  <2>3. PICK s : s = kids[b] /\ s \in Seq(Nodes) /\ Items(s) = {}
    BY <2>1, <2>2 DEF Ring
  <2>4. s = <<>>
    <3>1. Len(s) \in Nat
      BY <2>3
    <3>2. 1 \notin 1..Len(s)
      BY <2>3 DEF Items
    <3>3. Len(s) = 0
      BY <3>1, <3>2
    <3> QED
      BY <2>3, <3>3
  <2> QED
    BY <2>3, <2>4 DEF kids
<1>3. Visit(it) = <<Root, TRUE>>
  <2>1. Root \notin Sentinels /\ is_branch(Root)
    BY NodesAssumption DEF is_branch, Inner
  <2> QED
    BY <2>1, VisitOf DEF inorder_end, Init
<1> QED
  BY <1>2, <1>3 DEF Init, Ordered!Init, Ordered!End, Ordered!visit, Ordered!Inner, Inner

\* Every step of the links is one of the ordered tree, or none.
LEMMA NextMaps == TreeInv /\ [Next]_vars => [Ordered!Next]_<<[b \in Inner |-> Followed(b)], Visit(it), op>>
<1> SUFFICES ASSUME TreeInv, [Next]_vars
             PROVE  Ordered!Next \/ UNCHANGED <<[b \in Inner |-> Followed(b)], Visit(it), op>>
  OBVIOUS
<1>1. CASE inorder_forward
  BY <1>1, ForwardMaps DEF Ordered!Next
<1>2. CASE inorder_back
  BY <1>2, BackMaps DEF Ordered!Next
<1>3. CASE sibling_forward \/ sibling_back
  BY <1>3, SiblingMaps DEF Ordered!Next
<1>4. CASE restart
  BY <1>4, RestartMaps DEF Ordered!Next
<1>5. CASE convert
  BY <1>5, ConvertMaps DEF Ordered!Next
<1>6. ASSUME NEW n \in Nodes, insert_inorder(n) \/ insert_sibling(n)
      PROVE  Ordered!Next
  <2>1. \E pt : Inserting(n, pt)
    BY <1>6, InsertInorder, InsertSibling
  <2>2. PICK pt : Inserting(n, pt)
    BY <2>1
  <2>3. Ordered!Insert(n)
    BY <2>2, InsertMaps
  <2> QED
    BY <2>3 DEF Ordered!Next, Nodes
<1>7. CASE UNCHANGED vars
  <2>1. next' = next /\ parent' = parent /\ it' = it /\ op' = op
    BY <1>7 DEF vars, links
  <2>2. \A b : Followed(b)' = Followed(b)
    BY <2>1, FollowedOf
  <2>3. Visit(it)' = Visit(it)
    BY <2>1 DEF Visit
  <2> QED
    BY <2>1, <2>2, <2>3
<1> QED
  BY <1>1, <1>2, <1>3, <1>4, <1>5, <1>6, <1>7 DEF Next

\* For any leafs and branches, inserted in any order by a caller that moves its
\* iterator as it likes, the links, sentinels and iterators are an ordered tree:
\* an insertion puts the node before the visit the caller stands at, and ++ and
\* -- go from each visit to the one after or before it.
THEOREM TreeIsOrdered == Spec => ImplementsOrderedTree
<1>1. Init => TreeInv
  BY InitTree
<1>2. TreeInv /\ [Next]_vars => TreeInv'
  BY NextTree
<1>3. Init => Ordered!Init
  BY InitMaps
<1>4. TreeInv /\ [Next]_vars => [Ordered!Next]_<<[b \in Inner |-> Followed(b)], Visit(it), op>>
  BY NextMaps
<1> QED
  BY <1>1, <1>2, <1>3, <1>4, PTL DEF Spec, ImplementsOrderedTree, Ordered!Spec

-----------------------------------------------------------------------------
(* Indented streams                                                            *)

\* What the streams owe and have written adds up. A started line owes nothing
\* until its newline is offered, one that is not started owes what its levels
\* ask for less what came out, or, if it is late, no more than that, and before
\* the first newline nothing is owed.
Balance ==
  /\ line.started /\ pend # "newline" => both(rem) = 0
  /\ ~line.started /\ ~line.first /\ ~line.torn =>
       /\ \A s \in Streams : rem[s] <= cur[s]
       /\ line.spaces + both(rem) <= both(cur)
       /\ ~line.late => line.spaces + both(rem) = both(cur)
  /\ line.first => line.spaces = 0 /\ line.due = 0
  /\ line.first /\ pend # "newline" => both(rem) = 0

StreamInv == StreamTypeOK /\ IndentedOnce /\ BlankLinesEmpty /\ Balance

\* Initially nothing was written and nothing is owed.
LEMMA StreamInitInv == StreamInit => StreamInv
<1> SUFFICES ASSUME StreamInit PROVE StreamInv  OBVIOUS
<1>1. line = [spaces |-> 0, started |-> FALSE, due |-> 0, first |-> TRUE,
              late |-> FALSE, torn |-> FALSE]
  BY DEF StreamInit, NewLine
<1>2. StreamTypeOK
  <2>1. line \in [spaces : Nat, started : BOOLEAN, due : Nat, first : BOOLEAN,
            late : BOOLEAN, torn : BOOLEAN]
    BY <1>1
  <2>2. cur \in [Streams -> Nat] /\ rem \in [Streams -> Nat]  BY DEF StreamInit
  <2> QED  BY <2>1, <2>2 DEF StreamInit, StreamTypeOK
<1>3. both(rem) = 0  BY DEF StreamInit, both, Streams
<1> QED  BY <1>1, <1>2, <1>3 DEF StreamInv, IndentedOnce, BlankLinesEmpty, Balance

\* A newline that is taken begins a line that owes all of both levels; one that is
\* not taken leaves the old line, which no character can follow any more.
LEMMA NewlineInv == StreamInv /\ put_newline => StreamInv'
<1> SUFFICES ASSUME StreamInv, put_newline PROVE StreamInv'  OBVIOUS
<1> USE DEF StreamInv
<1>1. StreamTypeOK'
  <2>1. cur' \in [Streams -> Nat] /\ rem' \in [Streams -> Nat]  BY DEF StreamTypeOK, put_newline
  <2>2. NewLine \in [spaces : Nat, started : BOOLEAN, due : Nat, first : BOOLEAN,
            late : BOOLEAN, torn : BOOLEAN]
    BY DEF NewLine
  <2> QED  BY <2>1, <2>2 DEF StreamTypeOK, put_newline
<1>2. CASE pend' = "none" /\ line' = NewLine
  BY <1>1, <1>2 DEF StreamTypeOK, put_newline, NewLine, IndentedOnce, BlankLinesEmpty, Balance, both, Streams
<1>3. CASE pend' = "newline" /\ UNCHANGED line
  BY <1>1, <1>3 DEF StreamTypeOK, put_newline, IndentedOnce, BlankLinesEmpty, Balance, both, Streams
<1> QED  BY <1>2, <1>3 DEF put_newline

\* A character that is taken starts its line after all of the indentation.
LEMMA CharInv == StreamInv /\ put_char => StreamInv'
<1> SUFFICES ASSUME StreamInv, put_char PROVE StreamInv'  OBVIOUS
<1> USE DEF StreamInv
<1> DEFINE due == IF line.started THEN line.due ELSE IF line.first THEN 0 ELSE both(cur)
<1>1. both(rem) \in Nat /\ both(cur) \in Nat /\ rem' \in [Streams -> Nat] /\ both(rem') = 0
  BY DEF StreamTypeOK, put_char, both, Streams
<1>2. line' = [line EXCEPT !.spaces = @ + both(rem), !.started = TRUE, !.due = due]
  BY DEF put_char
<1>3. due \in Nat  BY <1>1 DEF StreamTypeOK
<1> HIDE DEF due
<1>4. StreamTypeOK'
  <2>1. line' \in [spaces : Nat, started : BOOLEAN, due : Nat, first : BOOLEAN,
            late : BOOLEAN, torn : BOOLEAN]
    <3> DEFINE spaces == line.spaces + both(rem)
    <3>1. spaces \in Nat  BY <1>1 DEF StreamTypeOK
    <3>2. line' = [line EXCEPT !.spaces = spaces, !.started = TRUE, !.due = due]  BY <1>2
    <3> HIDE DEF spaces
    <3> QED  BY <1>3, <3>1, <3>2 DEF StreamTypeOK
  <2> QED  BY <1>1, <2>1 DEF StreamTypeOK, put_char
<1>5. /\ line'.spaces = line.spaces + both(rem) /\ line'.started /\ line'.due = due
      /\ line'.first = line.first /\ line'.late = line.late /\ line'.torn = line.torn
  BY <1>2 DEF StreamTypeOK
<1>6. IndentedOnce'
  BY <1>1, <1>5 DEF due, StreamTypeOK, IndentedOnce, Balance, put_char
<1>7. both(rem)' = 0  BY <1>1 DEF both
<1>8. Balance'  BY <1>1, <1>5, <1>7 DEF due, StreamTypeOK, Balance, put_char
<1> QED  BY <1>4, <1>5, <1>6, <1>8 DEF BlankLinesEmpty

\* What a failing sink took is no longer owed, by whichever stream it was.
LEMMA OwedLess ==
  ASSUME StreamTypeOK, NEW k \in 0..both(rem)
  PROVE  /\ owed(k) \in [Streams -> Nat] /\ both(owed(k)) = both(rem) - k
         /\ \A s \in Streams : owed(k)[s] <= rem[s]
BY DEF StreamTypeOK, owed, both, Streams

\* A character that was not taken leaves the balance as it is.
LEMMA FailInv == StreamInv /\ put_char_fails => StreamInv'
<1> SUFFICES ASSUME StreamInv, pend # "newline", NEW k \in 0..both(rem), rem' = owed(k),
                    line' = [line EXCEPT !.spaces = @ + k], pend' = "char", UNCHANGED cur
             PROVE  StreamInv'
  BY DEF put_char_fails
<1> USE DEF StreamInv
<1>1. /\ rem' \in [Streams -> Nat] /\ both(rem') = both(rem) - k
      /\ \A s \in Streams : rem'[s] <= rem[s]
  BY OwedLess
<1>2. both(rem) \in Nat /\ both(cur) \in Nat  BY DEF StreamTypeOK, both, Streams
<1>3. StreamTypeOK'  BY <1>1, <1>2 DEF StreamTypeOK
<1>4. IndentedOnce' /\ BlankLinesEmpty'
  BY <1>2 DEF StreamTypeOK, IndentedOnce, BlankLinesEmpty, Balance
<1>5. both(cur)' = both(cur) /\ both(rem)' = both(rem) - k  BY <1>1 DEF both
<1>6. /\ line'.spaces = line.spaces + k /\ line'.started = line.started
      /\ line'.due = line.due /\ line'.first = line.first
      /\ line'.late = line.late /\ line'.torn = line.torn /\ line.spaces \in Nat
  BY DEF StreamTypeOK
<1>7. ASSUME ~line.started, ~line.first, ~line.torn
      PROVE  /\ \A s \in Streams : rem'[s] <= cur'[s]
             /\ line'.spaces + both(rem)' <= both(cur)'
             /\ ~line.late => line'.spaces + both(rem)' = both(cur)'
  <2>1. /\ \A s \in Streams : rem[s] <= cur[s]
        /\ line.spaces + both(rem) <= both(cur)
        /\ ~line.late => line.spaces + both(rem) = both(cur)
    BY <1>7 DEF Balance
  <2>2. ASSUME NEW s \in Streams PROVE rem'[s] <= cur'[s]
    <3>1. rem[s] \in Nat /\ rem'[s] \in Nat /\ cur[s] \in Nat  BY <1>1 DEF StreamTypeOK
    <3>2. rem'[s] <= rem[s] /\ rem[s] <= cur[s]  BY <1>1, <2>1
    <3> HIDE DEF StreamInv
    <3> QED  BY <3>1, <3>2
  <2>3. /\ line'.spaces + both(rem)' <= both(cur)'
        /\ ~line.late => line'.spaces + both(rem)' = both(cur)'
    BY <1>2, <1>5, <1>6, <2>1
  <2> QED  BY <2>2, <2>3
<1>8. both(rem)' = 0 \/ both(rem) # 0  BY <1>2, <1>5
<1>9. Balance'  BY <1>2, <1>5, <1>6, <1>7, <1>8 DEF Balance
<1> QED  BY <1>3, <1>4, <1>9

\* A level changes what is owed only before its line is started, and by as much
\* as it changes what is asked for.
LEMMA LevelInv ==
  ASSUME NEW s \in Streams, NEW spaces, StreamInv, change_level(s, spaces)
  PROVE  StreamInv'
<1> USE DEF StreamInv
<1>1. spaces \in Nat  BY SpacesAssumption DEF change_level
<1>2. StreamTypeOK'  BY <1>1 DEF StreamTypeOK, change_level, correct_spaces, noted
<1>3. /\ line'.spaces = line.spaces /\ line'.started = line.started
      /\ line'.due = line.due /\ line'.first = line.first
      /\ line.started \/ line.first => line'.late = line.late /\ line'.torn = line.torn
      /\ line.torn => line'.torn
  BY DEF StreamTypeOK, change_level, noted
<1>4. IndentedOnce' /\ BlankLinesEmpty'
  BY <1>3 DEF change_level, IndentedOnce, BlankLinesEmpty
<1>5. both(rem) = 0 => rem[s] = 0  BY DEF StreamTypeOK, both, Streams
<1>6. both(rem) = 0 => both(rem)' = 0
  BY <1>5 DEF change_level, correct_spaces, both, StreamTypeOK
<1>7. ASSUME ~line.started, ~line.first, ~line'.torn
      PROVE  /\ \A u \in Streams : rem'[u] <= cur'[u]
             /\ line.spaces + both(rem)' <= both(cur)'
             /\ ~line'.late => line.spaces + both(rem)' = both(cur)'
  <2>1. /\ ~line.torn /\ cur' = [cur EXCEPT ![s] = spaces]
        /\ rem[s] # 0 => rem[s] = cur[s]
        /\ rem[s] = 0 => line.spaces = 0 /\ line'.late
        /\ line.late => line'.late
    BY <1>7 DEF change_level, noted, StreamTypeOK
  <2>2. /\ \A u \in Streams : rem[u] <= cur[u]
        /\ line.spaces + both(rem) <= both(cur)
        /\ ~line.late => line.spaces + both(rem) = both(cur)
    BY <1>7, <2>1 DEF Balance
  <2>3. CASE rem[s] = 0
    <3>1. rem' = rem  BY <2>3 DEF change_level, correct_spaces
    <3>2. \A u \in Streams : rem'[u] <= cur'[u]
      BY <1>1, <2>1, <2>2, <2>3, <3>1 DEF StreamTypeOK
    <3>3. both(rem)' <= both(cur)'
      BY <1>1, <1>2, <3>2 DEF both, StreamTypeOK, Streams
    <3>4. line.spaces + both(rem)' = both(rem)'
      BY <1>2, <2>1, <2>3 DEF both, StreamTypeOK, Streams
    <3> QED  BY <2>1, <2>3, <3>2, <3>3, <3>4
  <2>4. CASE rem[s] # 0
    <3>1. rem' = [rem EXCEPT ![s] = spaces] /\ rem[s] = cur[s]
      BY <2>1, <2>4 DEF change_level, correct_spaces
    <3>2. \A u \in Streams : rem'[u] <= cur'[u]
      BY <1>1, <2>1, <2>2, <3>1 DEF StreamTypeOK
    <3>3. both(rem)' - both(rem) = both(cur)' - both(cur)
      <4>1. CASE s = "outer"  BY <1>1, <2>1, <3>1, <4>1 DEF StreamTypeOK, both, Streams
      <4>2. CASE s = "inner"  BY <1>1, <2>1, <3>1, <4>2 DEF StreamTypeOK, both, Streams
      <4> QED  BY <4>1, <4>2 DEF Streams
    <3>4. /\ both(rem) \in Nat /\ both(cur) \in Nat /\ both(rem)' \in Nat
          /\ both(cur)' \in Nat /\ line.spaces \in Nat
      BY <1>2 DEF StreamTypeOK, both, Streams
    <3> HIDE DEF StreamInv
    <3> QED  BY <2>1, <2>2, <3>2, <3>3, <3>4
  <2> QED  BY <2>3, <2>4
<1>8. Balance'  BY <1>3, <1>6, <1>7 DEF Balance, change_level
<1> QED  BY <1>2, <1>4, <1>8

\* A level that is forgotten before its line is started makes the line torn.
LEMMA ResetInv ==
  ASSUME NEW s \in Streams, StreamInv, reset(s)
  PROVE  StreamInv'
<1> USE DEF StreamInv
<1>1. StreamTypeOK'  BY DEF StreamTypeOK, reset
<1>2. /\ line'.spaces = line.spaces /\ line'.started = line.started
      /\ line'.due = line.due /\ line'.first = line.first
      /\ line'.late = line.late
      /\ line.started \/ line.first => line'.torn = line.torn
      /\ line.torn => line'.torn
  BY DEF StreamTypeOK, reset
<1>3. IndentedOnce' /\ BlankLinesEmpty'
  BY <1>2 DEF reset, IndentedOnce, BlankLinesEmpty
<1>4. both(rem)' = both(rem)  BY DEF reset, both
<1>5. ~line.started /\ ~line.first /\ ~line'.torn => cur' = cur /\ both(cur)' = both(cur)
  BY DEF reset, StreamTypeOK, both, Streams
<1>6. Balance'  BY <1>2, <1>4, <1>5 DEF Balance, reset
<1> QED  BY <1>1, <1>3, <1>6

\* Every step keeps the invariant.
LEMMA StreamNextInv == StreamInv /\ [StreamNext]_stream_vars => StreamInv'
<1> SUFFICES ASSUME StreamInv, [StreamNext]_stream_vars PROVE StreamInv'  OBVIOUS
<1>1. CASE put_newline  BY <1>1, NewlineInv
<1>2. CASE put_char  BY <1>2, CharInv
<1>3. CASE put_char_fails  BY <1>3, FailInv
<1>4. ASSUME NEW s \in Streams, increase_level(s) \/ decrease_level(s) PROVE StreamInv'
  BY <1>4, LevelInv DEF increase_level, decrease_level
<1>5. ASSUME NEW s \in Streams, reset(s) PROVE StreamInv'
  BY <1>5, ResetInv
<1>6. CASE UNCHANGED stream_vars
  BY <1>6 DEF stream_vars, StreamInv, StreamTypeOK, IndentedOnce, BlankLinesEmpty, Balance, both
<1> QED  BY <1>1, <1>2, <1>3, <1>4, <1>5, <1>6 DEF StreamNext

\* The inductive invariant holds of every behaviour, for any widths.
THEOREM StreamInvariance == StreamSpec => []StreamInv
<1> QED  BY StreamInitInv, StreamNextInv, PTL DEF StreamSpec

\* put() indents no line further than both levels ask for, but for torn ones, and
\* every line by exactly that if no level was changed after the newline while its
\* stream owed nothing: those late lines are the ones that correct_spaces misses.
THEOREM LinesIndentedOnce == StreamSpec => []IndentedOnce
<1>1. StreamInv => IndentedOnce  BY DEF StreamInv
<1> QED  BY <1>1, StreamInvariance, PTL

\* put() writes no indentation before a newline.
THEOREM NothingOnBlankLines == StreamSpec => []BlankLinesEmpty
<1>1. StreamInv => BlankLinesEmpty  BY DEF StreamInv
<1> QED  BY <1>1, StreamInvariance, PTL

\* No level change and no failure puts spaces into a line that has begun.
THEOREM SpacesLeadOnly == StreamSpec => LeadingOnly
<1>1. ASSUME StreamInv, StreamNext, line.started, line'.started PROVE line'.spaces = line.spaces
  <2> USE <1>1 DEF StreamInv
  <2>1. CASE put_newline  BY <2>1 DEF put_newline, NewLine
  <2>2. CASE put_char  BY <2>2 DEF put_char, Balance, StreamTypeOK
  <2>3. CASE put_char_fails
    <3>1. PICK k \in 0..both(rem) : line' = [line EXCEPT !.spaces = @ + k]
      BY <2>3 DEF put_char_fails
    <3>2. both(rem) = 0  BY <2>3 DEF put_char_fails, Balance
    <3> QED  BY <3>1, <3>2 DEF StreamTypeOK
  <2>4. ASSUME NEW s \in Streams, increase_level(s) \/ decrease_level(s)
        PROVE  line'.spaces = line.spaces
    BY <2>4 DEF increase_level, decrease_level, change_level, noted, StreamTypeOK
  <2>5. ASSUME NEW s \in Streams, reset(s) PROVE line'.spaces = line.spaces
    BY <2>5 DEF reset, StreamTypeOK
  <2> QED  BY <2>1, <2>2, <2>3, <2>4, <2>5 DEF StreamNext
<1>2. StreamInv /\ [StreamNext]_stream_vars =>
        [line.started /\ line'.started => line'.spaces = line.spaces]_stream_vars
  BY <1>1
<1> QED  BY <1>2, StreamInvariance, PTL DEF StreamSpec, LeadingOnly
=============================================================================
