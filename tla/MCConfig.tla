------------------------------ MODULE MCConfig ------------------------------
(* One option of every kind, and command lines that give up to MaxGiven of them. *)
EXTENDS Config, TLC

CONSTANT MaxGiven

Optional(S) == {<<>>} \cup {<<x>> : x \in S}

Nothing == [val |-> <<>>, min |-> <<>>, max |-> <<>>, probs |-> <<>>]

\* PGC::USETG, PG::VAR, TG::ARRSIZE, TG::BFPROB and CN::BREAKTYPE of options.h,
\* the numbers divided by ten where a percentage is meant.
MCRegistered ==
  << [kind |-> "single_bool", val |-> 0],
     [kind |-> "single", val |-> 2],
     [kind |-> "diap", from |-> 2, to |-> 10],
     [kind |-> "pflag", prob |-> 1, total |-> 10],
     [kind |-> "probf", probs |-> <<4, 8, 10>>] >>

MCBorder == <<0, 0, 0, 10, 3>>
MCInts == -1..12

\* A switch is given or not.
Given(o) ==
  CASE o.kind = "single_bool" -> {[Nothing EXCEPT !.val = v] : v \in {<<>>, <<1>>}}
    [] o.kind \in {"single", "pflag"} ->
         {[Nothing EXCEPT !.val = v] : v \in Optional({-1, 0, 10, 11})}
    [] o.kind = "diap" ->
         {[Nothing EXCEPT !.min = a, !.max = b] :
            a \in Optional({1, 11}), b \in Optional({1, 12})}
    [] o.kind = "probf" ->
         {[Nothing EXCEPT !.probs = p] :
            p \in Optional({<<0, 2, 10>>, <<2, 2, 2>>, <<3, 1, 2>>, <<0, 0, 0>>,
                            <<1, 1, -1>>, <<5, 10>>, <<4, 8, 9, 10>>})}

MCLines ==
  LET all == [DOMAIN MCRegistered -> UNION {Given(MCRegistered[i]) : i \in DOMAIN MCRegistered}]
      few == {S \in SUBSET (DOMAIN MCRegistered) : Cardinality(S) <= MaxGiven}
  IN  UNION {{[i \in DOMAIN MCRegistered |-> IF i \in S THEN f[i] ELSE Nothing] :
                f \in {g \in [S -> UNION {Given(MCRegistered[i]) : i \in S}] :
                         \A i \in S : g[i] \in Given(MCRegistered[i])}} : S \in few}

Symmetry == Permutations(Threads)
=============================================================================
