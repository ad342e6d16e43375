------------------------------ MODULE VarAssign ------------------------------
(***************************************************************************)
(* Variables of a generated program: globals first, then, function by      *)
(* function, free indexes, the globals it may use, locals and arguments.   *)
(* Whatever a variable consists of is served in turn: an index for every   *)
(* array in it, a pointee for every pointer, permutators for an array.     *)
(*                                                                         *)
(* Types and variables are numbered from 1, from 0 in the code.            *)
(* Code: lib/varassign/varassign.cc, include/varassign/varassign.h         *)
(***************************************************************************)
EXTENDS Naturals, SequencesExt

CONSTANTS Types,     \* the types of tgraph_: category, children, size, integral or not
          Accepts,   \* per function, the types that conform to its metastructure
          ArgTypes,  \* per function, the types of its arguments
          NGlobals,  \* VA::NGLOBALS
          NIdx,      \* VA::NIDX
          NVars,     \* values of MS::NVARS
          NVAtts,    \* VA::NVATTS
          MaxPerm,   \* VA::MAXPERM
          PermBound  \* bound on the permutators of one array: VA::USEPERM says yes this often

TypeIds   == DOMAIN Types
Functions == DOMAIN Accepts

is(t, cat) == Types[t].cat = cat
is_complex(t) == Types[t].cat \in {"STRUCT", "ARRAY"}

\* Everything that a type consists of, itself included: the least set with it
\* and with whatever the arrays and structures in the set consist of.
whole(S) == \A u \in S : is_complex(u) => Range(Types[u].childs) \subseteq S
subtypes ==
  [t \in TypeIds |-> {u \in TypeIds : \A S \in SUBSET TypeIds : t \in S /\ whole(S) => u \in S}]

get_pointee(t) == Types[t].childs[1]
index_types == {t \in TypeIds : is(t, "SCALAR") /\ Types[t].integral}

\* Mutant of perm_types: the elements are not looked at.
perm_types_any(n) == {t \in TypeIds : is(t, "ARRAY") /\ Types[t].nitems = n}

perm_types(n) ==
  {t \in TypeIds : is(t, "ARRAY") /\ Types[t].nitems = n /\ Types[t].childs[1] \in index_types}

\* What the constructor of the type graph ensures (TypeGraph): arrays and
\* pointers have one child, no pointer points to a pointer, arrays can be
\* permuted, what is not a scalar is a part of one container at most, and
\* nothing is a part of itself.
ASSUME TypesAssumption ==
  /\ Types \in Seq([cat : {"SCALAR", "ARRAY", "POINTER", "STRUCT"}, childs : Seq(TypeIds),
                    nitems : Nat, integral : BOOLEAN])
  /\ \A t \in TypeIds : is(t, "ARRAY") \/ is(t, "POINTER") => Len(Types[t].childs) = 1
  /\ \A t \in TypeIds : is(t, "POINTER") => ~is(get_pointee(t), "POINTER")
  /\ index_types # {}
  /\ \A t \in TypeIds : is(t, "ARRAY") => perm_types(Types[t].nitems) # {}
  /\ \A u, w \in {t \in TypeIds : is_complex(t)} :
       \A i \in DOMAIN Types[u].childs, j \in DOMAIN Types[w].childs :
         Types[u].childs[i] = Types[w].childs[j] /\ ~is(Types[u].childs[i], "SCALAR") => u = w /\ i = j
  /\ \A t \in TypeIds : \A u \in subtypes[t] : is_complex(u) => t \notin Range(Types[u].childs)
\* Functions are numbered from 1; arguments conform (Signatures) and are no arrays.
ASSUME FunctionsAssumption ==
  /\ Functions = 1..Len(ArgTypes) /\ Functions # {}
  /\ Accepts \in [Functions -> SUBSET TypeIds] /\ ArgTypes \in Seq(Seq(TypeIds))
  /\ \A f \in Functions : \A t \in Range(ArgTypes[f]) : t \in Accepts[f] /\ ~is(t, "ARRAY")
ASSUME OptionsAssumption ==
  {NGlobals, NIdx, NVAtts, MaxPerm, PermBound} \cup NVars \subseteq Nat

VARIABLES pc,      \* where the constructor is
          vars_,   \* vars_: the type of every variable
          globals_,\* globals_
          fvars,   \* fvars_
          func,    \* the function whose variables are created
          todo,    \* globals that the loop in create_function_vars still looks at
          left,    \* locals still wanted, and attempts left after this one
          proc     \* where process_var is, and in which variable

vars == <<pc, vars_, globals_, fvars, func, todo, left, proc>>

func_vars == [vars |-> <<>>, perms |-> {}, indexes |-> {}, args |-> {},
              pointees |-> <<>>, accidxs |-> <<>>, permutators |-> <<>>]
idle == [stage |-> "idle"]
fv == fvars[func]

Init ==
  /\ pc = "globals"
  /\ vars_ = <<>> /\ globals_ = {}
  /\ fvars = [f \in Functions |-> func_vars]
  /\ func = 1
  /\ todo = {} /\ left = [vars |-> 0, atts |-> 0]
  /\ proc = idle

-----------------------------------------------------------------------------
(* Helpers                                                                 *)

\* The variables that are created next, n of them.
fresh(n) == [i \in 1..n |-> Len(vars_) + i]
new == Len(vars_) + 1

\* map with the entries of m, which replace those it has, and map[k].push_back(x).
entered(map, m) ==
  [k \in DOMAIN map \cup DOMAIN m |-> IF k \in DOMAIN m THEN m[k] ELSE map[k]]
pushed(map, k, x) ==
  entered(map, [j \in {k} |-> IF k \in DOMAIN map THEN Append(map[k], x) ELSE <<x>>])

\* The elements of the sequence s that are in S, in their order.
selected(s, S) ==
  LET upto[i \in 0..Len(s)] == IF i = 0 THEN <<>>
                               ELSE IF s[i] \in S THEN Append(upto[i - 1], s[i]) ELSE upto[i - 1]
  IN  upto[Len(s)]

\* process_var is entered with a variable of type t.
process_var(vid, t) ==
  CASE is(t, "POINTER") -> [stage |-> "pointee", vid |-> vid]
    [] is(t, "ARRAY")   -> [stage |-> "permutators", vid |-> vid]
    [] is(t, "STRUCT")  -> [stage |-> "accessors", vid |-> vid, chlds |-> <<t>>]
    [] OTHER            -> idle

-----------------------------------------------------------------------------
(* process_var                                                             *)

\* The variable is a pointer.
create_pointee ==
  /\ proc.stage = "pointee"
  /\ LET t == vars_[proc.vid]
     IN  /\ vars_' = Append(vars_, get_pointee(t))
         /\ fvars' = [fvars EXCEPT ![func].pointees = entered(@, [k \in {<<proc.vid, t>>} |-> new]),
                                   ![func].vars = Append(@, new)]
  /\ proc' = idle
  /\ UNCHANGED <<pc, globals_, func, todo, left>>

accessors == [stage |-> "accessors", vid |-> proc.vid, chlds |-> <<vars_[proc.vid]>>]

\* VA::USEPERM says yes. The loop ends when VA::MAXPERM arrays have permutators.
add_permutator ==
  /\ proc.stage = "permutators"
  /\ proc.vid \in DOMAIN fv.permutators => Len(fv.permutators[proc.vid]) < PermBound
  /\ \E t \in perm_types(Types[vars_[proc.vid]].nitems) : vars_' = Append(vars_, t)
  /\ fvars' = [fvars EXCEPT ![func].perms = @ \cup {new},
                            ![func].permutators = pushed(@, proc.vid, new),
                            ![func].vars = Append(@, new)]
  /\ proc' = IF Cardinality(DOMAIN fvars'[func].permutators) = MaxPerm THEN accessors ELSE proc
  /\ UNCHANGED <<pc, globals_, func, todo, left>>

\* VA::USEPERM says no.
permutators_done ==
  /\ proc.stage = "permutators"
  /\ proc' = accessors
  /\ UNCHANGED <<pc, vars_, globals_, fvars, func, todo, left>>

\* Mutant of queued: arrays in arrays and structures are not entered.
queued_structs(t) == selected(Types[t].childs, {u \in TypeIds : is(u, "STRUCT")})

\* The children that process_var will look at later.
queued(t) == selected(Types[t].childs, {u \in TypeIds : is_complex(u)})

\* The next subtype in the queue: an index for an array, pointees for children
\* that are pointers.
process_child ==
  /\ proc.stage = "accessors"
  /\ LET cpt  == Head(proc.chlds)
         ptrs == selected(Types[cpt].childs, {u \in TypeIds : is(u, "POINTER")})
         idx  == IF is(cpt, "ARRAY") THEN 1 ELSE 0
         ids  == fresh(idx + Len(ptrs))
         rest == Tail(proc.chlds) \o queued(cpt)
     IN  /\ \E is_idx \in [1..idx -> index_types] :
              vars_' = vars_ \o is_idx \o [i \in DOMAIN ptrs |-> get_pointee(ptrs[i])]
         /\ fvars' = [fvars EXCEPT
              ![func].vars = @ \o ids,
              ![func].indexes = @ \cup {ids[i] : i \in 1..idx},
              ![func].accidxs = IF idx = 1 THEN pushed(@, proc.vid, new) ELSE @,
              ![func].pointees = entered(@,
                [k \in {<<proc.vid, t>> : t \in Range(ptrs)} |->
                   ids[idx + Max({i \in DOMAIN ptrs : ptrs[i] = k[2]})]])]
         /\ proc' = IF rest = <<>> THEN idle ELSE [proc EXCEPT !.chlds = rest]
  /\ UNCHANGED <<pc, globals_, func, todo, left>>

-----------------------------------------------------------------------------
(* The constructor and create_function_vars                                *)

create_global ==
  /\ pc = "globals"
  /\ Len(vars_) < NGlobals
  /\ \E t \in TypeIds : vars_' = Append(vars_, t)
  /\ globals_' = globals_ \cup {new}
  /\ UNCHANGED <<pc, fvars, func, todo, left, proc>>

globals_created ==
  /\ pc = "globals"
  /\ Len(vars_) = NGlobals
  /\ pc' = "indexes"
  /\ UNCHANGED <<vars_, globals_, fvars, func, todo, left, proc>>

add_free_index ==
  /\ pc = "indexes"
  /\ Cardinality(fv.indexes) < NIdx
  /\ \E t \in index_types : vars_' = Append(vars_, t)
  /\ fvars' = [fvars EXCEPT ![func].indexes = @ \cup {new}, ![func].vars = Append(@, new)]
  /\ UNCHANGED <<pc, globals_, func, todo, left, proc>>

indexes_added ==
  /\ pc = "indexes"
  /\ Cardinality(fv.indexes) = NIdx
  /\ pc' = "choose"
  /\ todo' = globals_
  /\ UNCHANGED <<vars_, globals_, fvars, func, left, proc>>

\* The answers of accept_type: what is not the number of a type is beyond the
\* vertices of the type graph, where anything may be read.
accept_type(n) == IF n \in TypeIds THEN {n \in Accepts[func]} ELSE BOOLEAN

\* The loop over globals_ asks accept_type about the number of the variable.
choose_global ==
  /\ pc = "choose" /\ proc = idle
  /\ \E gid \in todo :
       /\ \E yes \in accept_type(gid) :
            /\ fvars' = IF yes THEN [fvars EXCEPT ![func].vars = Append(@, gid)] ELSE fvars
            /\ proc' = IF yes THEN process_var(gid, vars_[gid]) ELSE idle
       /\ todo' = todo \ {gid}
  /\ UNCHANGED <<pc, vars_, globals_, func, left>>

globals_chosen ==
  /\ pc = "choose" /\ proc = idle
  /\ todo = {}
  /\ pc' = "locals"
  /\ \E n \in NVars : left' = [vars |-> n, atts |-> NVAtts]
  /\ UNCHANGED <<vars_, globals_, fvars, func, todo, proc>>

\* An attempt at a local: the loop is left after the last one.
attempt_local ==
  /\ pc = "locals" /\ proc = idle
  /\ left.vars > 0
  /\ \E t \in TypeIds :
       IF t \in Accepts[func]
       THEN /\ vars_' = Append(vars_, t)
            /\ fvars' = [fvars EXCEPT ![func].vars = Append(@, new)]
            /\ proc' = process_var(new, t)
            /\ left' = [vars |-> left.vars - 1, atts |-> left.atts - (IF left.atts = 0 THEN 0 ELSE 1)]
       ELSE /\ left' = [left EXCEPT !.atts = @ - (IF @ = 0 THEN 0 ELSE 1)]
            /\ UNCHANGED <<vars_, fvars, proc>>
  /\ pc' = IF left.atts = 0 THEN "arguments" ELSE pc
  /\ UNCHANGED <<globals_, func, todo>>

locals_added ==
  /\ pc = "locals" /\ proc = idle
  /\ left.vars = 0
  /\ pc' = "arguments"
  /\ UNCHANGED <<vars_, globals_, fvars, func, todo, left, proc>>

argtypes == ArgTypes[func]

\* Mutant of create_argument: the argument gets the number of the variable before it.
create_argument_early ==
  /\ pc = "arguments" /\ proc = idle
  /\ Cardinality(fv.args) < Len(argtypes)
  /\ LET t == argtypes[Cardinality(fv.args) + 1]
     IN  /\ vars_' = Append(vars_, t)
         /\ fvars' = [fvars EXCEPT ![func].args = @ \cup {Len(vars_)},
                                   ![func].vars = Append(@, Len(vars_))]
         /\ proc' = process_var(new, t)
  /\ UNCHANGED <<pc, globals_, func, todo, left>>

create_argument ==
  /\ pc = "arguments" /\ proc = idle
  /\ Cardinality(fv.args) < Len(argtypes)
  /\ LET t == argtypes[Cardinality(fv.args) + 1]
     IN  /\ vars_' = Append(vars_, t)
         /\ fvars' = [fvars EXCEPT ![func].args = @ \cup {new}, ![func].vars = Append(@, new)]
         /\ proc' = process_var(new, t)
  /\ UNCHANGED <<pc, globals_, func, todo, left>>

function_done ==
  /\ pc = "arguments" /\ proc = idle
  /\ Cardinality(fv.args) = Len(argtypes)
  /\ pc' = IF func = Len(ArgTypes) THEN "done" ELSE "indexes"
  /\ func' = IF func = Len(ArgTypes) THEN func ELSE func + 1
  /\ UNCHANGED <<vars_, globals_, fvars, todo, left, proc>>

Terminating == pc = "done" /\ UNCHANGED vars

Next ==
  \/ create_global \/ globals_created
  \/ add_free_index \/ indexes_added \/ choose_global \/ globals_chosen
  \/ attempt_local \/ locals_added \/ create_argument \/ function_done
  \/ create_pointee \/ add_permutator \/ permutators_done \/ process_child
  \/ Terminating

Spec == Init /\ [][Next]_vars

-----------------------------------------------------------------------------
finished == {f \in Functions : f < func \/ pc = "done"}

\* The variables of f that serve others, and those that are served.
pointee_vars(f) == Range(fvars[f].pointees)
serving(f) == fvars[f].perms \cup fvars[f].indexes \cup pointee_vars(f)
served(f) == Range(fvars[f].vars) \ serving(f)

accs(f, v) == IF v \in DOMAIN fvars[f].accidxs THEN fvars[f].accidxs[v] ELSE <<>>

\* Whatever a function's globals, locals and arguments consist of, at any depth,
\* can be used: there is an index of its own for every array in them and, for
\* every pointer, the variable of the right type that varassign_t::pointee asserts.
SubtypesServed ==
  \A f \in finished : \A v \in served(f) :
    LET parts == subtypes[vars_[v]]
    IN  /\ Len(accs(f, v)) = Cardinality({t \in parts : is(t, "ARRAY")})
        /\ \A i \in DOMAIN accs(f, v) :
             accs(f, v)[i] \in fvars[f].indexes /\ vars_[accs(f, v)[i]] \in index_types
        /\ {k[2] : k \in {x \in DOMAIN fvars[f].pointees : x[1] = v}} = {t \in parts : is(t, "POINTER")}
        /\ \A t \in parts : is(t, "POINTER") =>
             vars_[fvars[f].pointees[<<v, t>>]] = get_pointee(t)

\* No variable is lost, shared or used for two purposes: all but the globals
\* occur once in the variables of one function, and are an index, a permutator,
\* a pointee or an argument or local of it, as their name says.
OwnedOnce ==
  LET places(v) == {p \in Functions \X (1..Len(vars_)) :
                      p[2] \in DOMAIN fvars[p[1]].vars /\ fvars[p[1]].vars[p[2]] = v}
  IN  /\ \A v \in DOMAIN vars_ \ globals_ : Cardinality(places(v)) = 1
      /\ \A f \in Functions :
           /\ Range(fvars[f].vars) \subseteq DOMAIN vars_
           /\ Cardinality(serving(f) \cup fvars[f].args) =
                Cardinality(fvars[f].perms) + Cardinality(fvars[f].indexes)
                  + Cardinality(DOMAIN fvars[f].pointees) + Cardinality(fvars[f].args)
           /\ (serving(f) \cup fvars[f].args) \cap globals_ = {}

\* Every permutator of an array is an array of as many integers, and only arrays
\* that the function owns or may use have any.
PermutatorsFit ==
  \A f \in Functions : \A v \in DOMAIN fvars[f].permutators :
    /\ v \in served(f) /\ is(vars_[v], "ARRAY")
    /\ \A p \in Range(fvars[f].permutators[v]) :
         /\ p \in fvars[f].perms
         /\ Types[vars_[p]].nitems = Types[vars_[v]].nitems
         /\ Types[vars_[p]].childs[1] \in index_types

\* varassign.cc:166: the globals of a function conform to its metastructure.
GlobalsConform ==
  \A f \in Functions : \A v \in Range(fvars[f].vars) \cap globals_ : vars_[v] \in Accepts[f]
=============================================================================
