------------------------- MODULE MCAuthKeyArtifacts -------------------------
(***************************************************************************)
(* Values of the constants of AuthKeyArtifacts for TLC: two cookies of one *)
(* account, one of another.                                                *)
(***************************************************************************)
EXTENDS AuthKeyArtifacts, TLC

CONSTANTS a1, a2, c1, c2, c3

MCAccountOf == [c \in Cookies |-> IF c = c3 THEN a2 ELSE a1]

AllOps == {"get", "bind", "delete", "revalidate"}

RequestSymmetry == Permutations(Requests)
=============================================================================
