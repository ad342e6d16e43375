----------------------------- MODULE OrderedTree -----------------------------
(***************************************************************************)
(* What a semitree promises: every branch has an ordered list of children, *)
(* and a caller walks over the visits of the tree, in which a branch is    *)
(* met before and after its children, and inserts nodes before the visit   *)
(* it stands at. No links, sentinels or iterators.                         *)
(*                                                                         *)
(* Code: the comments of include/utils/semitree*.h                         *)
(***************************************************************************)
EXTENDS Naturals, Sequences, SequencesExt

CONSTANTS Leafs,      \* nodes without children
          Branches,   \* nodes with children
          Root        \* the tree itself

VARIABLES childs,   \* the children of each branch, in order
          at,       \* the visit the caller stands at
          op        \* what the caller did last

Inner == Branches \cup {Root}

\* A visit is a node and whether its children have been visited.
visit(n, visited) == <<n, visited>>
End == visit(Root, TRUE)

\* The visits of the children of a branch.
Visits[b \in Inner] ==
  FlattenSeq([i \in DOMAIN childs[b] |->
    LET n == childs[b][i]
    IN  IF n \in Leafs THEN <<visit(n, FALSE)>>
        ELSE <<visit(n, FALSE)>> \o Visits[n] \o <<visit(n, TRUE)>>])

\* All visits: a tree is visited after its children only.
Inorder == Append(Visits[Root], End)

\* The same for the children of one branch: they and the end of their list.
Siblings(b) ==
  Append([i \in DOMAIN childs[b] |-> visit(childs[b][i], FALSE)], visit(b, TRUE))

Inserted == UNION {ToSet(childs[b]) : b \in Inner}

Init ==
  /\ childs = [b \in Inner |-> <<>>]
  /\ at = End
  /\ op = "start"

-----------------------------------------------------------------------------
\* From one element of a sequence to the one after it, or back.
Step(s, from, to) == \E i \in 1..(Len(s) - 1) : s[i] = from /\ s[i + 1] = to

Walk(name, s, from, to) ==
  /\ op' = name
  /\ Step(s, from, to)
  /\ UNCHANGED childs

Forward == Walk("forward", Inorder, at, at')
Back    == Walk("back", Inorder, at', at)

NextSibling == \E b \in Inner : Walk("next", Siblings(b), at, at')
PrevSibling == \E b \in Inner : Walk("prev", Siblings(b), at', at)

\* A new walk from one of the ends of the tree or of the children of a branch.
Restart ==
  /\ op' = "restart"
  /\ at' \in {Head(Inorder), End} \cup
             {Head(Siblings(b)) : b \in Inner} \cup {visit(b, TRUE) : b \in Inner}
  /\ UNCHANGED childs

\* A caller on a branch chooses which of its visits is meant.
Revisit ==
  /\ op' = "convert"
  /\ \/ at' = at
     \/ at[1] \in Branches /\ at' = visit(at[1], TRUE)
  /\ UNCHANGED childs

\* Insertion before the visit the caller stands at, where it stays.
Insert(n) ==
  /\ op' = "insert"
  /\ n \notin Inserted
  /\ \E b \in Inner : \E i \in DOMAIN Siblings(b) :
       /\ Siblings(b)[i] = at
       /\ childs' = [childs EXCEPT ![b] = InsertAt(childs[b], i, n)]
  /\ at' = at

Next ==
  \/ Forward \/ Back \/ NextSibling \/ PrevSibling
  \/ Restart \/ Revisit
  \/ \E n \in Leafs \cup Branches : Insert(n)

Spec == Init /\ [][Next]_<<childs, at, op>>
=============================================================================
