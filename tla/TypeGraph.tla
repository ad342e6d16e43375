------------------------------ MODULE TypeGraph -----------------------------
(***************************************************************************)
(* The construction of a type graph: seeds that are scalars or pointers,   *)
(* splits that turn a scalar into an array or a structure, unification of  *)
(* scalars that several containers share, pointees, bitfields, and types   *)
(* for indexes and permutations. Vertices are counted from 1, in the order *)
(* of their creation; sizes of bitfields are left out.                     *)
(*                                                                         *)
(* Code: lib/typegraph/typegraph.cc and include/typegraph/                 *)
(***************************************************************************)
EXTENDS Integers, Sequences, FiniteSets, FiniteSetsExt, SequencesExt

CONSTANTS Scalars,         \* the entries of scalars_
          Floats,          \* those with is_float
          IntType,         \* the entry named "int"
          Seeds,           \* values of TG::SEEDS
          Splits,          \* values of TG::SPLITS, each with one of TG::MORESCALARS
          NFields,         \* values of TG::NFIELDS
          ArrMin, ArrMax,  \* range of TG::ARRSIZE
          MaxArrPreds, MaxStructPreds, MaxPreds,
          MaxBitfields     \* bound on the fields that TG::BFPROB picks

ASSUME ScalarsAssumption == Floats \subseteq Scalars /\ IntType \in Scalars \ Floats
ASSUME OptionsAssumption ==
  /\ Seeds \subseteq Nat /\ Splits \subseteq Nat \X BOOLEAN /\ NFields \subseteq Nat
  /\ ArrMin \in Nat \ {0} /\ ArrMax \in Nat /\ ArrMin <= ArrMax
  /\ MaxArrPreds \in Nat /\ MaxStructPreds \in Nat /\ MaxPreds \in Nat
  /\ MaxBitfields \in Nat

-----------------------------------------------------------------------------
NoScalar == "none"
vprop(cat, s, n) == [cat |-> cat, sdesc |-> s, nitems |-> n]
scalar(s) == vprop("SCALAR", s, 0)
struct    == vprop("STRUCT", NoScalar, 0)
array(n)  == vprop("ARRAY", NoScalar, n)
pointer   == vprop("POINTER", NoScalar, 0)

Integral   == {scalar(s) : s \in Scalars \ Floats}
Containers == {struct} \cup {array(n) : n \in ArrMin..ArrMax}

VARIABLES phase,     \* the helper of the constructor that runs next
          nsplits,   \* splits still to do
          todo,      \* pointers still to process
          more,      \* the value of TG::MORESCALARS
          type,      \* the property of each vertex of graph_
          edges,     \* the edges of graph_
          leafs,     \* leaf_vs_
          structs,   \* struct_vs_
          arrays,    \* array_vs_
          pointers,  \* pointer_vs_
          bitfields, \* the fields with a size in bitfields_
          idxs,      \* idx_vs_
          perms      \* perms_vs_, by number of elements

sets == <<leafs, structs, arrays, pointers>>
chosen == <<bitfields, idxs, perms>>
vars == <<phase, nsplits, todo, more, type, edges, sets, chosen>>

Vertices == DOMAIN type
childs(v) == {e[2] : e \in {x \in edges : x[1] = v}}
preds(v)  == {e[1] : e \in {x \in edges : x[2] = v}}
of_cat(cat) == {v \in Vertices : type[v].cat = cat}

Init ==
  /\ phase = "seed"
  /\ \E s \in Splits : nsplits = s[1] /\ more = s[2]
  /\ todo = {}
  /\ type = <<>> /\ edges = {}
  /\ leafs = {} /\ structs = {} /\ arrays = {} /\ pointers = {}
  /\ bitfields = {} /\ idxs = {} /\ perms = [n \in 1..ArrMax |-> {}]

-----------------------------------------------------------------------------
(* Seeds and splits                                                        *)

\* What create_scalar may make.
create_scalar == {pointer} \cup {scalar(s) : s \in Scalars}

\* The positions of the vertices in ts, new ones after n others, that are cat.
fresh(n, ts, cat) == {n + i : i \in {j \in DOMAIN ts : ts[j].cat = cat}}

seed ==
  /\ phase = "seed"
  /\ \E n \in Seeds : type' \in [1..n -> create_scalar]
  /\ leafs' = fresh(0, type', "SCALAR")
  /\ pointers' = fresh(0, type', "POINTER")
  /\ phase' = "split"
  /\ UNCHANGED <<nsplits, todo, more, edges, structs, arrays, chosen>>

\* The containers around v, which is in a tree.
above(v) ==
  LET up[i \in 0..Len(type)] == IF i = 0 THEN preds(v) ELSE up[i - 1] \cup UNION {preds(u) : u \in up[i - 1]}
  IN  up[Len(type)]

\* Mutant of may_split: one level too many.
may_split_deeper(v) ==
  LET narrsup    == Cardinality(above(v) \cap of_cat("ARRAY"))
      nstructsup == Cardinality(above(v) \cap of_cat("STRUCT"))
  IN  narrsup <= MaxArrPreds /\ nstructsup <= MaxStructPreds /\ narrsup + nstructsup <= MaxPreds

may_split(v) ==
  LET narrsup    == Cardinality(above(v) \cap of_cat("ARRAY"))
      nstructsup == Cardinality(above(v) \cap of_cat("STRUCT"))
  IN  narrsup < MaxArrPreds /\ nstructsup < MaxStructPreds /\ narrsup + nstructsup < MaxPreds

\* How many children a container gets at once.
nchilds(c) == IF c = struct THEN NFields ELSE {1}

\* Mutant of split_at: the vertex that was split stays a leaf.
split_at_leaf(v, c, childs_of, extra) ==
  LET new == childs_of \o extra
      n   == Len(type)
  IN  /\ type' = [type EXCEPT ![v] = c] \o new
      /\ edges' = edges \cup {<<v, n + i>> : i \in DOMAIN childs_of}
      /\ leafs' = leafs \cup fresh(n, new, "SCALAR") \cup ((n + Len(childs_of) + 1)..(n + Len(new)))
      /\ pointers' = pointers \cup fresh(n, new, "POINTER")
      /\ structs' = IF c = struct THEN structs \cup {v} ELSE structs
      /\ arrays' = IF c = struct THEN arrays ELSE arrays \cup {v}

\* split_at: childs for the vertex v, which becomes c, and, if TG::MORESCALARS
\* asks for it, one more type; that one goes to leaf_vs_ whatever it is.
split_at(v, c, childs_of, extra) ==
  LET new == childs_of \o extra
      n   == Len(type)
  IN  /\ type' = [type EXCEPT ![v] = c] \o new
      /\ edges' = edges \cup {<<v, n + i>> : i \in DOMAIN childs_of}
      /\ leafs' = (leafs \ {v}) \cup fresh(n, new, "SCALAR") \cup ((n + Len(childs_of) + 1)..(n + Len(new)))
      /\ pointers' = pointers \cup fresh(n, new, "POINTER")
      /\ structs' = IF c = struct THEN structs \cup {v} ELSE structs
      /\ arrays' = IF c = struct THEN arrays ELSE arrays \cup {v}

do_split ==
  /\ phase = "split"
  /\ nsplits > 0
  /\ \E v \in leafs, c \in Containers :
       /\ type[v].cat = "SCALAR"
       /\ may_split(v)
       /\ \E k \in nchilds(c) : \E ks \in [1..k -> create_scalar] :
            IF more THEN \E t \in create_scalar : split_at(v, c, ks, <<t>>)
                    ELSE split_at(v, c, ks, <<>>)
  /\ nsplits' = nsplits - 1
  /\ UNCHANGED <<phase, todo, more, chosen>>

\* MAX_SPLIT_ATTEMPTS times a vertex was drawn that is too deep already.
split_in_vain ==
  /\ phase = "split"
  /\ nsplits > 0
  /\ \E v \in leafs : type[v].cat = "SCALAR" /\ ~may_split(v)
  /\ nsplits' = nsplits - 1
  /\ UNCHANGED <<phase, todo, more, type, edges, sets, chosen>>

\* There is no leaf to draw from (a division by zero), or what was drawn is no
\* scalar (an assertion: what a build without it does is not followed).
split_fault ==
  /\ phase = "split"
  /\ nsplits > 0
  /\ leafs = {} \/ \E v \in leafs : type[v].cat # "SCALAR"
  /\ phase' = "fault"
  /\ UNCHANGED <<nsplits, todo, more, type, edges, sets, chosen>>

splits_done ==
  /\ phase = "split"
  /\ nsplits = 0
  /\ phase' = "structs"
  /\ UNCHANGED <<nsplits, todo, more, type, edges, sets, chosen>>

-----------------------------------------------------------------------------
(* Unification                                                             *)

\* Mutant of like: a child need not be a scalar.
like_any(v, s) == childs(v) \ pointers

like(v, s) == {u \in childs(v) : type[u] = scalar(s)}

\* The rows of column s of the matrix, and an entry: the last child that is s.
rows(S, s) == {v \in S : like(v, s) # {}}
unif(v, s) == Max(like(v, s))

\* Mutant of unify_subscalars: remove_edge is forgotten.
unify_subscalars_twice(S) ==
  LET moved == {r \in S \X Scalars : r[1] \in rows(S, r[2]) /\ r[1] # Min(rows(S, r[2]))}
  IN  /\ edges' = edges \cup {<<r[1], unif(Min(rows(S, r[2])), r[2])>> : r \in moved}
      /\ UNCHANGED <<nsplits, more, type, sets, chosen>>

\* All containers that hold a scalar s get the one of the first of them.
unify_subscalars(S) ==
  LET moved == {r \in S \X Scalars : r[1] \in rows(S, r[2]) /\ r[1] # Min(rows(S, r[2]))}
  IN  /\ edges' = (edges \ {<<r[1], unif(r[1], r[2])>> : r \in moved})
                  \cup {<<r[1], unif(Min(rows(S, r[2])), r[2])>> : r \in moved}
      /\ UNCHANGED <<nsplits, more, type, sets, chosen>>

unify_structs ==
  /\ phase = "structs"
  /\ unify_subscalars(structs)
  /\ phase' = "arrays"
  /\ UNCHANGED todo

unify_arrays ==
  /\ phase = "arrays"
  /\ unify_subscalars(arrays)
  /\ phase' = "pointers"
  /\ todo' = pointers

-----------------------------------------------------------------------------
(* Pointers and bitfields                                                  *)

\* What is found from the predecessors of v without going into a pointer.
around(v) ==
  LET next(S) == S \cup ((UNION {childs(u) : u \in S}) \ of_cat("POINTER"))
      ball[i \in 0..Len(type)] ==
        IF i = 0 THEN preds(v) \ of_cat("ARRAY") ELSE next(ball[i - 1])
  IN  ball[Len(type)]

\* pointque is empty after the loop over it, so leafs and structures are always
\* among the candidates.
pointset(v) == around(v) \cup leafs \cup structs

process_pointer ==
  /\ phase = "pointers"
  /\ todo # {}
  /\ \E u \in pointset(Min(todo)) : edges' = edges \cup {<<Min(todo), u>>}
  /\ todo' = todo \ {Min(todo)}
  /\ UNCHANGED <<phase, nsplits, more, type, sets, chosen>>

\* Nothing to point to: a division by zero.
pointer_fault ==
  /\ phase = "pointers"
  /\ todo # {}
  /\ pointset(Min(todo)) = {}
  /\ phase' = "fault"
  /\ UNCHANGED <<nsplits, todo, more, type, edges, sets, chosen>>

pointers_done ==
  /\ phase = "pointers"
  /\ todo = {}
  /\ phase' = "bitfields"
  /\ UNCHANGED <<nsplits, todo, more, type, edges, sets, chosen>>

\* The fields that may get a size in bits.
bit_candidates == {e \in edges : e[1] \in structs /\ type[e[2]].cat = "SCALAR"}

create_bitfields ==
  /\ phase = "bitfields"
  /\ \E k \in 0..Min({MaxBitfields, Cardinality(bit_candidates)}) :
       bitfields' \in kSubset(k, bit_candidates)
  /\ phase' = "perms"
  /\ UNCHANGED <<nsplits, todo, more, type, edges, sets, idxs, perms>>

-----------------------------------------------------------------------------
(* Types for indexes and permutations                                      *)

\* Mutant of perm_like: arrays of n floats are taken too.
perm_like_any(n) == {v \in arrays : type[v] = array(n)}

\* The arrays of n integral elements.
perm_like(n) == {v \in arrays : type[v] = array(n) /\ \A u \in childs(v) : type[u] \in Integral}

\* The one list of the numbers of S in their order.
in_order(S) ==
  {s \in [1..Cardinality(S) -> S] : \A i, j \in DOMAIN s : i < j => s[i] < s[j]}

choose_perms_idxs ==
  /\ phase = "perms"
  /\ leafs \subseteq of_cat("SCALAR")
  /\ \E missing \in in_order({n \in ArrMin..ArrMax : perm_like(n) = {}}) :
       LET ints == {v \in leafs : type[v] \in Integral}
           int  == IF ints = {} THEN <<scalar(IntType)>> ELSE <<>>
           n    == Len(type) + Len(int)
       IN  /\ type' = type \o int \o [i \in DOMAIN missing |-> array(missing[i])]
           /\ idxs' = ints \cup ((Len(type) + 1)..n)
           /\ leafs' = leafs \cup idxs'
           /\ arrays' = arrays \cup {n + i : i \in DOMAIN missing}
           /\ edges' = edges \cup {<<n + i, Min(idxs')>> : i \in DOMAIN missing}
           /\ perms' = [m \in 1..ArrMax |->
                         perm_like(m) \cup {n + i : i \in {j \in DOMAIN missing : missing[j] = m}}]
  /\ phase' = "done"
  /\ UNCHANGED <<nsplits, todo, more, structs, pointers, bitfields>>

\* std::get throws for a leaf that is a pointer.
perms_fault ==
  /\ phase = "perms"
  /\ \E v \in leafs : type[v].cat # "SCALAR"
  /\ phase' = "fault"
  /\ UNCHANGED <<nsplits, todo, more, type, edges, sets, chosen>>

-----------------------------------------------------------------------------
(* Analysis of a finished graph: what storage of one type gives access to   *)

\* The pairs of the matrix acc_ that are not NONE, and those that are DIRECT, to
\* begin with: a type itself and its children, but for bitfields; what a pointer
\* points to is not stored in it.
adjacent ==
  LET accessible == edges \ bitfields
  IN  [any    |-> {<<v, v>> : v \in Vertices} \cup accessible,
       direct |-> ({<<v, v>> : v \in Vertices} \cup accessible)
                  \ {e \in accessible : type[e[1]] = pointer}]

\* Mutant of by_way_of: the way out of k need not be a direct one.
by_way_of_halfway(acc, k) ==
  LET in(E)  == {e \in E : e[2] = k}
      out(E) == {e \in E : e[1] = k}
      thru(E, F) == {<<e[1], f[2]>> : e \in in(E), f \in out(F)}
  IN  [any    |-> acc.any \cup thru(acc.any, acc.any),
       direct |-> acc.direct \cup (thru(acc.direct, acc.any) \ acc.any)]

\* A round of the closure, over vertex k: what is not yet accessible becomes so by
\* way of k, and directly if both ways are direct. A round changes neither row nor
\* column k, so the order of its two inner loops does not matter.
by_way_of(acc, k) ==
  LET in(E)  == {e \in E : e[2] = k}
      out(E) == {e \in E : e[1] = k}
      thru(E) == {<<e[1], f[2]>> : e \in in(E), f \in out(E)}
  IN  [any    |-> acc.any \cup thru(acc.any),
       direct |-> acc.direct \cup (thru(acc.direct) \ acc.any)]

acc_ ==
  LET round[k \in 0..Len(type)] == IF k = 0 THEN adjacent ELSE by_way_of(round[k - 1], k)
  IN  round[Len(type)]

Terminating == phase \in {"done", "fault"} /\ UNCHANGED vars

Next ==
  \/ seed \/ do_split \/ split_in_vain \/ split_fault \/ splits_done
  \/ unify_structs \/ unify_arrays
  \/ process_pointer \/ pointer_fault \/ pointers_done
  \/ create_bitfields \/ choose_perms_idxs \/ perms_fault
  \/ Terminating

Spec == Init /\ [][Next]_vars
-----------------------------------------------------------------------------
pointed == phase \in {"bitfields", "perms", "done"}

\* Everything that v is made of, and every container that v is a part of.
parts(v) ==
  LET next(S) == S \cup UNION {childs(u) : u \in S \ of_cat("POINTER")}
      ball[i \in 0..Len(type)] == IF i = 0 THEN childs(v) ELSE next(ball[i - 1])
  IN  ball[Len(type)]
enclosing(v) == {u \in structs \cup arrays : v \in parts(u)}

\* The support sets follow the graph through splits, unification and additions:
\* leaf_vs_ consists of scalars only, unless TG::MORESCALARS puts a pointer there,
\* and without that the construction fails only for want of leafs.
SetsTracked ==
  /\ structs = of_cat("STRUCT") /\ arrays = of_cat("ARRAY") /\ pointers = of_cat("POINTER")
  /\ leafs \ pointers = of_cat("SCALAR")
  /\ ~more => leafs \cap pointers = {} /\ (phase = "fault" => leafs = {})

\* No type is a part of itself, but behind a pointer: every type has a finite size.
FiniteTypes == \A v \in Vertices \ pointers : v \notin parts(v)

\* Containers are not nested deeper than the options allow, arrays that are
\* added for permutations included.
NestingBounded ==
  \A v \in structs \cup arrays :
    LET S == enclosing(v) \cup {v}
    IN  /\ Cardinality(S \cap arrays) <= Max({1, MaxArrPreds})
        /\ Cardinality(S \cap structs) <= MaxStructPreds
        /\ Cardinality(S) <= Max({1, MaxPreds})

\* Once the splits are done a container keeps what it consists of: unification
\* exchanges a field for one of the same type, and pointers add none.
FieldsKept ==
  [][phase \notin {"seed", "split"} => \A v \in structs \cup arrays :
       /\ Cardinality(childs(v)') = Cardinality(childs(v))
       /\ \A s \in Scalars : Cardinality(like(v, s)') = Cardinality(like(v, s))]_vars

\* What the getters assert holds of the finished graph, whatever was drawn:
\* get_pointee finds one pointee and no pointer, there is an integral index type,
\* and for every size an array can have there is an integral array to permute it.
GettersDefined ==
  /\ \A v \in arrays : Cardinality(childs(v)) = 1
  /\ pointed => \A v \in pointers :
       \E u \in Vertices : childs(v) = {u} /\ (~more => u \notin pointers)
  /\ phase = "done" =>
       /\ idxs # {} /\ \A v \in idxs : type[v] \in Integral
       /\ \A n \in ArrMin..ArrMax : perms[n] # {}
       /\ \A n \in 1..ArrMax : \A v \in perms[n] :
            type[v] = array(n) /\ \A u \in childs(v) : type[u] \in Integral

\* The vertices that edges of E lead to from v, v included.
reach(v, E) ==
  LET next(S) == S \cup {e[2] : e \in {x \in E : x[1] \in S}}
      ball[i \in 0..Len(type)] == IF i = 0 THEN {v} ELSE next(ball[i - 1])
  IN  ball[Len(type)]

\* One pass of the closure, in the order of the vertices, finds all access there
\* is through members, elements and pointees, cycles included, and no other; it
\* calls direct only what is stored in the type itself.
AccessExact ==
  phase = "done" =>
    LET acc == acc_
    IN  \A v \in Vertices :
          /\ {e[2] : e \in {x \in acc.any : x[1] = v}} = reach(v, adjacent.any)
          /\ {e[2] : e \in {x \in acc.direct : x[1] = v}} \subseteq reach(v, adjacent.direct)

\* typegraph.h:57: leaf_vs_ consists of scalars only.
LeafsAreScalars == leafs \subseteq of_cat("SCALAR")
=============================================================================
