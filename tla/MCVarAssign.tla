---------------------------- MODULE MCVarAssign -----------------------------
(* A type graph and two functions for TLC; the specification is VarAssign.  *)
EXTENDS VarAssign

vertex(cat, childs, nitems, integral) ==
  [cat |-> cat, childs |-> childs, nitems |-> nitems, integral |-> integral]

\* A structure of an integer, an array and a pointer to the structure; an array
\* of pointers to integers.
SixTypes == <<
  vertex("SCALAR", <<>>, 0, TRUE),
  vertex("ARRAY", <<1>>, 2, FALSE),
  vertex("POINTER", <<4>>, 0, FALSE),
  vertex("STRUCT", <<1, 2, 3>>, 0, FALSE),
  vertex("ARRAY", <<6>>, 2, FALSE),
  vertex("POINTER", <<1>>, 0, FALSE)>>

\* The second function uses neither pointers nor the scalar.
TwoAccept == <<1..6, {2, 4, 5}>>
TwoArgTypes == <<<<3>>, <<4>>>>
NoneOrOne == {0, 1}
=============================================================================
