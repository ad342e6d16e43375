---------------------------- MODULE MCSideBySide ----------------------------
(***************************************************************************)
(* Four parts of the system that share no state, in one run: one of them   *)
(* moves and the others rest, so that TLC visits the states of each, not   *)
(* every combination of their states.                                      *)
(***************************************************************************)
EXTENDS MCSemiTree, MCIndentStream, MCConfig, MCSignatures

VARIABLE part   \* the one that moves

all_vars == <<part, vars, stream_vars, config_vars, sig_vars>>

SideBySideInit ==
  /\ part \in {"tree", "stream", "config", "signatures"}
  /\ Init /\ StreamInit /\ ConfigInit /\ SigInit
  /\ part # "config" => \A i \in Options : cmdline[i] = Nothing
  /\ part # "signatures" => indset = {} /\ types = {array, int}

tree_moves ==
  part = "tree" /\ Next /\ UNCHANGED <<part, stream_vars, config_vars, sig_vars>>

stream_moves ==
  part = "stream" /\ StreamNext /\ UNCHANGED <<part, vars, config_vars, sig_vars>>

config_moves ==
  part = "config" /\ ConfigNext /\ UNCHANGED <<part, vars, stream_vars, sig_vars>>

sig_moves ==
  part = "signatures" /\ SigNext /\ UNCHANGED <<part, vars, stream_vars, config_vars>>

SideBySideNext == tree_moves \/ stream_moves \/ config_moves \/ sig_moves

SideBySideSpec == SideBySideInit /\ [][SideBySideNext]_all_vars

SideBySideSymmetry == NodeSymmetry \cup Symmetry
=============================================================================
