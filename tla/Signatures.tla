----------------------------- MODULE Signatures -----------------------------
(***************************************************************************)
(* Metastructure and types of the functions of a call graph: what a        *)
(* function may use is drawn first, then a return type and argument types  *)
(* that conform to it. The functions that may be called indirectly share   *)
(* both. The graph and the indirect set come from CallGraph, the types     *)
(* from TypeGraph; of a type only what check_type looks at is kept.        *)
(*                                                                         *)
(* Code: lib/callgraph/callgraph.cc, include/callgraph/funcmeta.h          *)
(***************************************************************************)
EXTENDS Naturals, Sequences, FiniteSetsExt

CONSTANTS NFuncs,     \* number of vertices of the call graph
          Metas,      \* what random_meta may draw under the configuration
          TypeSets,   \* the sets of types that a type graph may hold
          NArgs       \* values of CG::NARGS

\* A type: its category and, for scalars, whether it is a float and signed.
type(cat, float, signed) == [cat |-> cat, is_float |-> float, is_signed |-> signed]
scalar(float, signed) == type("SCALAR", float, signed)
struct  == type("STRUCT", FALSE, FALSE)
array   == type("ARRAY", FALSE, FALSE)
pointer == type("POINTER", FALSE, FALSE)
\* init_scalars makes every float signed.
Integral == {scalar(FALSE, s) : s \in BOOLEAN}
AllTypes == Integral \cup {scalar(TRUE, TRUE), struct, array, pointer}

void == type("VOID", FALSE, FALSE)

\* Every type graph has an integral type and arrays of it (TypeGraph, GettersDefined).
ASSUME TypesAssumption ==
  \A T \in TypeSets : T \subseteq AllTypes /\ array \in T /\ T \cap Integral # {}
ASSUME ArgsAssumption == NArgs \subseteq Nat
ASSUME FuncsAssumption == NFuncs \in Nat \ {0}

metanode_t == [usesigned : BOOLEAN, usefloat : BOOLEAN, usecomplex : BOOLEAN, usepointers : BOOLEAN]
ASSUME MetasAssumption == Metas \subseteq metanode_t

Functions == 0..NFuncs - 1

VARIABLES phase,   \* the helper of the constructor that runs next
          types,   \* the types of tgraph_
          indset,  \* the functions of inds_
          meta,    \* metainfo of the functions that have one
          sig,     \* return and argument types of the functions that have them
          indsig   \* those that all functions of inds_ get

sig_vars == <<phase, types, indset, meta, sig, indsig>>

Undecided == Functions \ DOMAIN meta
Untyped   == Functions \ DOMAIN sig

\* map with f mapped to x.
with(map, S, x) == [f \in DOMAIN map \cup S |-> IF f \in S THEN x ELSE map[f]]

SigInit ==
  /\ phase = "metastructure"
  /\ types \in TypeSets
  /\ indset \in SUBSET Functions
  /\ meta = <<>> /\ sig = <<>>
  /\ indsig = <<>>

-----------------------------------------------------------------------------
\* One metastructure for all indirect functions, one for each of the others.
decide_metastructure ==
  /\ phase = "metastructure"
  /\ Undecided # {}
  /\ LET f == Min(Undecided)
     IN  \E m \in Metas : meta' = with(meta, IF f \in indset THEN indset ELSE {f}, m)
  /\ UNCHANGED <<phase, types, indset, sig, indsig>>

metastructure_decided ==
  /\ phase = "metastructure"
  /\ Undecided = {}
  /\ phase' = IF indset = {} THEN "types" ELSE "indirect types"
  /\ UNCHANGED <<types, indset, meta, sig, indsig>>

check_type(m, t) ==
  CASE t.cat = "SCALAR"  -> (t.is_float => m.usefloat) /\ (t.is_signed => m.usesigned)
    [] t.cat = "POINTER" -> m.usepointers
    [] OTHER             -> m.usecomplex

\* Mutant of accept_abi_type: pointers are returned too.
accept_abi_type_pointer(m, t, ret_type) == t.cat # "ARRAY" /\ check_type(m, t)

accept_abi_type(m, t, ret_type) ==
  /\ ~(t.cat = "POINTER" /\ ret_type)
  /\ t.cat # "ARRAY"
  /\ check_type(m, t)

\* What pick_typeid may return: a type that was drawn, or the first in the type
\* graph when CG::TYPEATTEMPTS draws were in vain.
pickable(m, ret_type) == {t \in types : accept_abi_type(m, t, ret_type)}

\* gen_params: where no type conforms the function returns nothing.
gen_params(m) ==
  LET rets == pickable(m, TRUE)
  IN  [ret : IF rets = {} THEN {void} ELSE rets,
       args : UNION {[1..n -> pickable(m, FALSE)] : n \in NArgs}]

assign_indirect_types ==
  /\ phase = "indirect types"
  /\ \E f \in indset : \E s \in gen_params(meta[f]) : indsig' = <<s>>
  /\ phase' = "types"
  /\ UNCHANGED <<types, indset, meta, sig>>

\* Mutant of assign_types: indirect functions get types of their own.
assign_types_each ==
  /\ phase = "types"
  /\ Untyped # {}
  /\ LET f == Min(Untyped) IN \E s \in gen_params(meta[f]) : sig' = with(sig, {f}, s)
  /\ UNCHANGED <<phase, types, indset, meta, indsig>>

assign_types ==
  /\ phase = "types"
  /\ Untyped # {}
  /\ LET f == Min(Untyped)
     IN  \E s \in (IF f \in indset THEN {indsig[1]} ELSE gen_params(meta[f])) :
           sig' = with(sig, {f}, s)
  /\ UNCHANGED <<phase, types, indset, meta, indsig>>

\* A function needs an argument and no type conforms: the constructor throws.
no_type_conforms ==
  /\ \/ phase = "indirect types" /\ \E f \in indset : pickable(meta[f], FALSE) = {}
     \/ /\ phase = "types" /\ Untyped # {}
        /\ Min(Untyped) \notin indset /\ pickable(meta[Min(Untyped)], FALSE) = {}
  /\ \E n \in NArgs : n > 0
  /\ phase' = "error"
  /\ UNCHANGED <<types, indset, meta, sig, indsig>>

types_assigned ==
  /\ phase = "types"
  /\ Untyped = {}
  /\ phase' = "done"
  /\ UNCHANGED <<types, indset, meta, sig, indsig>>

SigEnd == phase \in {"done", "error"} /\ UNCHANGED sig_vars

SigNext ==
  \/ decide_metastructure \/ metastructure_decided
  \/ assign_indirect_types \/ assign_types \/ no_type_conforms \/ types_assigned
  \/ SigEnd

SigSpec == SigInit /\ [][SigNext]_sig_vars

-----------------------------------------------------------------------------
args_of(f) == {sig[f].args[i] : i \in DOMAIN sig[f].args}

\* The rules at the head of callgraph.cc: scalars conform to the metastructure of
\* the function in full, complex types and pointers only where it uses them, no
\* arrays are passed, no pointers are returned, and nothing is returned only
\* where no type of the type graph would do.
SignaturesConform ==
  \A f \in DOMAIN sig :
    /\ \A t \in args_of(f) \cup {sig[f].ret} :
         /\ t.cat # "ARRAY"
         /\ t.is_float => meta[f].usefloat
         /\ t.is_signed => meta[f].usesigned
         /\ t = struct => meta[f].usecomplex
         /\ t = pointer => meta[f].usepointers /\ t # sig[f].ret
    /\ sig[f].ret = void =>
         \A t \in types \ {array, pointer} : ~check_type(meta[f], t)

\* What is called through one pointer can be: indirect functions have the same
\* metastructure and the same types, whichever of them these were drawn for.
IndirectAlike ==
  phase = "done" => \A f, g \in indset : meta[f] = meta[g] /\ sig[f] = sig[g]
=============================================================================
