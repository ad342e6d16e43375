-------------------------- MODULE SignaturesProofs --------------------------
(***************************************************************************)
(* Proofs about Signatures, for any number of functions, any metastructure *)
(* and any types: signatures conform and indirect functions are alike.     *)
(***************************************************************************)
EXTENDS Signatures, TLAPS

\* What gen_params may return for metastructure m when T is all types there are.
Pickable(T, m, ret_type) == {t \in T : accept_abi_type(m, t, ret_type)}
Params(T, m) ==
  LET rets == Pickable(T, m, TRUE)
  IN  [ret : IF rets = {} THEN {void} ELSE rets,
       args : UNION {[1..n -> Pickable(T, m, FALSE)] : n \in NArgs}]

\* The functions that may be called indirectly get a metastructure together.
MetaShared ==
  \A f, g \in indset : /\ f \in DOMAIN meta <=> g \in DOMAIN meta
                       /\ f \in DOMAIN meta => meta[f] = meta[g]

\* The phase tells how far the helpers are; what the indirect functions share is
\* drawn in between, from what each of them allows.
Stages ==
  /\ indset \subseteq Functions
  /\ phase \in {"metastructure", "indirect types", "types", "done", "error"}
  /\ phase = "metastructure" => DOMAIN sig = {}
  /\ phase # "metastructure" => Functions \subseteq DOMAIN meta
  /\ phase = "indirect types" => DOMAIN sig = {}
  /\ phase \in {"types", "done"} => \A f \in indset : indsig[1] \in Params(types, meta[f])
  /\ phase = "done" => Functions \subseteq DOMAIN sig

\* Every signature is one that gen_params may return, that of an indirect
\* function is the one drawn for all of them.
Drawn ==
  \A f \in DOMAIN sig :
    /\ sig[f] \in Params(types, meta[f])
    /\ f \in indset /\ phase # "error" => sig[f] = indsig[1]

IInv == MetaShared /\ Stages /\ Drawn

-----------------------------------------------------------------------------
\* gen_params draws from the types of the type graph.
LEMMA GenParams == \A m : gen_params(m) = Params(types, m)
BY DEF gen_params, Params, pickable, Pickable

\* The constructor starts in the invariant: nothing is decided or drawn.
LEMMA InitInv == SigInit => IInv
BY DEF SigInit, IInv, MetaShared, Stages, Drawn

\* decide_metastructure gives all indirect functions one metastructure.
LEMMA DecideInv == IInv /\ decide_metastructure => IInv'
<1> SUFFICES ASSUME IInv, decide_metastructure PROVE IInv'
  OBVIOUS
<1> DEFINE f == Min(Undecided)
           S == IF f \in indset THEN indset ELSE {f}
<1>1. PICK m \in Metas : meta' = with(meta, S, m)
  BY DEF decide_metastructure
<1>2. /\ DOMAIN meta' = DOMAIN meta \cup S
      /\ \A g \in S : meta'[g] = m
      /\ \A g \in DOMAIN meta \ S : meta'[g] = meta[g]
  BY <1>1 DEF with
<1>3. MetaShared'
  <2>1. CASE f \in indset
    BY <1>2, <2>1 DEF MetaShared, decide_metastructure
  <2>2. CASE f \notin indset
    BY <1>2, <2>2 DEF MetaShared, IInv, decide_metastructure
  <2> QED BY <2>1, <2>2
<1>4. Stages' /\ Drawn'
  BY DEF IInv, Stages, Drawn, decide_metastructure
<1> QED BY <1>3, <1>4 DEF IInv

\* The indirect types are drawn for one function and conform for all.
LEMMA AssignIndirectInv == IInv /\ assign_indirect_types => IInv'
<1> SUFFICES ASSUME IInv, assign_indirect_types PROVE IInv'
  OBVIOUS
<1>1. PICK f \in indset : \E s \in Params(types, meta[f]) : indsig' = <<s>>
  BY GenParams DEF assign_indirect_types
<1>2. /\ UNCHANGED <<types, indset, meta, sig>>
      /\ phase = "indirect types" /\ phase' = "types"
  BY DEF assign_indirect_types
<1>3. \A g \in indset : indsig'[1] \in Params(types, meta[g])
  <2>1. \A g \in indset : meta[g] = meta[f]
    BY <1>1, <1>2 DEF IInv, MetaShared, Stages
  <2> QED BY <1>1, <2>1
<1>4. MetaShared' /\ Drawn'
  BY <1>2 DEF IInv, MetaShared, Stages, Drawn
<1>5. Stages'
  BY <1>2, <1>3 DEF IInv, Stages
<1> QED BY <1>4, <1>5 DEF IInv

\* assign_types draws for a function, or gives it what indirect functions share.
LEMMA AssignInv == IInv /\ assign_types => IInv'
<1> SUFFICES ASSUME IInv, assign_types PROVE IInv'
  OBVIOUS
<1> DEFINE f == Min(Untyped)
<1>1. /\ UNCHANGED <<phase, types, indset, meta, indsig>>
      /\ phase = "types"
  BY DEF assign_types
<1>2. PICK s \in (IF f \in indset THEN {indsig[1]} ELSE Params(types, meta[f])) :
        sig' = with(sig, {f}, s)
  BY GenParams DEF assign_types
<1>3. /\ DOMAIN sig' = DOMAIN sig \cup {f}
      /\ sig'[f] = s
      /\ \A g \in DOMAIN sig \ {f} : sig'[g] = sig[g]
  BY <1>2 DEF with
<1>4. s \in Params(types, meta[f]) /\ (f \in indset => s = indsig[1])
  BY <1>1, <1>2 DEF IInv, Stages
<1>5. \A g \in DOMAIN sig' : /\ sig'[g] \in Params(types, meta[g])
                             /\ g \in indset => sig'[g] = indsig[1]
  BY <1>1, <1>3, <1>4 DEF IInv, Drawn
<1>6. MetaShared' /\ Stages'
  BY <1>1 DEF IInv, MetaShared, Stages
<1>7. Drawn'
  BY <1>1, <1>5 DEF Drawn
<1> QED BY <1>6, <1>7 DEF IInv

\* Every step keeps the invariant.
LEMMA NextInv == IInv /\ [SigNext]_sig_vars => IInv'
<1> SUFFICES ASSUME IInv, [SigNext]_sig_vars PROVE IInv'
  OBVIOUS
<1>1. CASE decide_metastructure  BY <1>1, DecideInv
<1>2. CASE metastructure_decided
  BY <1>2 DEF metastructure_decided, IInv, MetaShared, Stages, Drawn, Undecided
<1>3. CASE assign_indirect_types BY <1>3, AssignIndirectInv
<1>4. CASE assign_types          BY <1>4, AssignInv
<1>5. CASE no_type_conforms
  BY <1>5 DEF no_type_conforms, IInv, MetaShared, Stages, Drawn
<1>6. CASE types_assigned
  BY <1>6 DEF types_assigned, IInv, MetaShared, Stages, Drawn, Untyped
<1>7. CASE UNCHANGED sig_vars
  BY <1>7 DEF sig_vars, IInv, MetaShared, Stages, Drawn
<1> QED BY <1>1, <1>2, <1>3, <1>4, <1>5, <1>6, <1>7 DEF SigNext, SigEnd

\* The invariant holds in every state of the construction.
THEOREM Invariance == SigSpec => []IInv
BY InitInv, NextInv, PTL DEF SigSpec

-----------------------------------------------------------------------------
\* What accept_abi_type lets through obeys the rules of the head comment.
LEMMA AcceptedConforms ==
  ASSUME NEW m, NEW r, NEW t \in AllTypes, accept_abi_type(m, t, r)
  PROVE  /\ t.cat # "ARRAY"
         /\ t.is_float => m.usefloat
         /\ t.is_signed => m.usesigned
         /\ t = struct => m.usecomplex
         /\ t = pointer => m.usepointers /\ r # TRUE
<1> USE DEF scalar, struct, array, pointer, type
<1>1. CASE t \in Integral \cup {scalar(TRUE, TRUE)}
  <2>1. t.cat = "SCALAR"
    BY <1>1 DEF Integral
  <2>2. t # struct /\ t # pointer
    BY <2>1
  <2> QED BY <2>1, <2>2 DEF accept_abi_type, check_type
<1>2. CASE t = struct  BY <1>2 DEF accept_abi_type, check_type
<1>3. CASE t = array   BY <1>3 DEF accept_abi_type, check_type
<1>4. CASE t = pointer BY <1>4 DEF accept_abi_type, check_type
<1> QED BY <1>1, <1>2, <1>3, <1>4 DEF AllTypes

\* Return and argument types of functions conform to their metastructure, for
\* every type graph and every sequence of draws.
THEOREM TypesConform == SigSpec => []SignaturesConform
<1> DEFINE TypesOK == types \in TypeSets
<1>1. SigSpec => []TypesOK
  <2>1. SigInit => TypesOK
    BY DEF SigInit
  <2>2. TypesOK /\ [SigNext]_sig_vars => TypesOK'
    BY DEF SigNext, sig_vars, decide_metastructure, metastructure_decided, assign_indirect_types,
           assign_types, no_type_conforms, types_assigned, SigEnd
  <2> QED BY <2>1, <2>2, PTL DEF SigSpec
<1>2. ASSUME TypesOK, IInv PROVE SignaturesConform
  <2> SUFFICES ASSUME NEW f \in DOMAIN sig
               PROVE  /\ \A t \in args_of(f) \cup {sig[f].ret} :
                           /\ t.cat # "ARRAY"
                           /\ t.is_float => meta[f].usefloat
                           /\ t.is_signed => meta[f].usesigned
                           /\ t = struct => meta[f].usecomplex
                           /\ t = pointer => meta[f].usepointers /\ t # sig[f].ret
                      /\ sig[f].ret = void =>
                           \A t \in types \ {array, pointer} : ~check_type(meta[f], t)
    BY DEF SignaturesConform
  <2>1. types \subseteq AllTypes
    BY <1>2, TypesAssumption
  <2>2. sig[f] \in Params(types, meta[f])
    BY <1>2 DEF IInv, Drawn
  <2>3. \A t \in args_of(f) : t \in types /\ accept_abi_type(meta[f], t, FALSE)
    <3>1. sig[f].args \in UNION {[1..n -> Pickable(types, meta[f], FALSE)] : n \in NArgs}
      BY <2>2 DEF Params
    <3>2. PICK n \in NArgs : sig[f].args \in [1..n -> Pickable(types, meta[f], FALSE)]
      BY <3>1
    <3>3. args_of(f) \subseteq Pickable(types, meta[f], FALSE)
      BY <3>2 DEF args_of
    <3> QED BY <3>3 DEF Pickable
  <2>4. \/ sig[f].ret \in types /\ accept_abi_type(meta[f], sig[f].ret, TRUE)
        \/ sig[f].ret = void /\ Pickable(types, meta[f], TRUE) = {}
    BY <2>2 DEF Params, Pickable
  <2>5. void \notin types
    BY <2>1 DEF AllTypes, Integral, scalar, struct, array, pointer, void, type
  <2>6. sig[f].ret # pointer
    <3>1. CASE sig[f].ret = void
      BY <3>1 DEF void, pointer, type
    <3>2. CASE sig[f].ret \in types /\ accept_abi_type(meta[f], sig[f].ret, TRUE)
      BY <3>2 DEF accept_abi_type, pointer, type
    <3> QED BY <2>4, <3>1, <3>2
  <2>7. \A t \in args_of(f) :
          /\ t.cat # "ARRAY"
          /\ t.is_float => meta[f].usefloat
          /\ t.is_signed => meta[f].usesigned
          /\ t = struct => meta[f].usecomplex
          /\ t = pointer => meta[f].usepointers /\ t # sig[f].ret
    BY <2>1, <2>3, <2>6, AcceptedConforms
  <2>8. \A t \in {sig[f].ret} :
          /\ t.cat # "ARRAY"
          /\ t.is_float => meta[f].usefloat
          /\ t.is_signed => meta[f].usesigned
          /\ t = struct => meta[f].usecomplex
          /\ t = pointer => meta[f].usepointers /\ t # sig[f].ret
    <3>1. CASE sig[f].ret = void
      BY <3>1 DEF void, struct, pointer, type
    <3>2. CASE sig[f].ret \in types /\ accept_abi_type(meta[f], sig[f].ret, TRUE)
      BY <3>2, <2>1, <2>6, AcceptedConforms
    <3> QED BY <2>4, <3>1, <3>2
  <2>9. sig[f].ret = void => \A t \in types \ {array, pointer} : ~check_type(meta[f], t)
    <3> SUFFICES ASSUME sig[f].ret = void, NEW t \in types \ {array, pointer}, check_type(meta[f], t)
                 PROVE  FALSE
      OBVIOUS
    <3>1. accept_abi_type(meta[f], t, TRUE)
      <4>1. t.cat # "ARRAY" /\ t.cat # "POINTER"
        BY <2>1 DEF AllTypes, Integral, scalar, struct, array, pointer, type
      <4> QED BY <4>1 DEF accept_abi_type
    <3> QED BY <3>1, <2>4, <2>5 DEF Pickable
  <2> QED BY <2>7, <2>8, <2>9
<1> QED BY <1>1, <1>2, Invariance, PTL

\* Indirect functions end with one metastructure and one signature.
THEOREM IndirectsAlike == SigSpec => []IndirectAlike
<1>1. IInv => IndirectAlike
  BY DEF IInv, MetaShared, Stages, Drawn, IndirectAlike
<1> QED BY <1>1, Invariance, PTL
=============================================================================
