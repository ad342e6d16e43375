---------------------------- MODULE MCSignatures ----------------------------
(* Few functions and types for TLC; the specification is Signatures.        *)
EXTENDS Signatures

\* A function uses nothing, everything, or one of the four.
use(S) == [usesigned |-> "signed" \in S, usefloat |-> "float" \in S,
           usecomplex |-> "complex" \in S, usepointers |-> "pointers" \in S]
All == {"signed", "float", "complex", "pointers"}
SomeMetas == {use(S) : S \in {{}, All} \cup {{x} : x \in All}}

uint == scalar(FALSE, FALSE)
int  == scalar(FALSE, TRUE)
SomeTypeSets == {{array, uint, struct, pointer}, {array, int, scalar(TRUE, TRUE), pointer},
                 {array, int, struct}, {array, int}}
NoneOrOne == {0, 1}
=============================================================================
