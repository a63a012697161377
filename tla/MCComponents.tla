---------------------------- MODULE MCComponents ----------------------------
EXTENDS Components, TLC

(* The larger components are symmetric in these pairs of values; one         *)
(* permutation swaps all of them, since a component knows only its own.      *)
Pairs == {Session, Operation, Profile}
Symmetry ==
  {p \in Permutations(UNION Pairs) :
     /\ \A pair \in Pairs : {p[v] : v \in pair} = pair
     /\ (\A v \in DOMAIN p : p[v] = v) \/ (\A v \in DOMAIN p : p[v] # v)}
=============================================================================
