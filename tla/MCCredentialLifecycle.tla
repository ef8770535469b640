----------------------- MODULE MCCredentialLifecycle -----------------------
(***************************************************************************)
(* Values of the constants of CredentialLifecycle for TLC.  Two cookies of *)
(* one account (material is renewed) and one of another (the binding is    *)
(* rebound); a player with profiles in two regions (i1, i2).               *)
(***************************************************************************)
EXTENDS CredentialLifecycle, TLC

CONSTANTS a1, a2, c1, c2, c3, i1, i2, i3, p1, p2

MCAccountOf == [c \in Cookies |-> IF c = c3 THEN a2 ELSE a1]
MCPlayerOf == [i \in Idents |-> IF i = i3 THEN p2 ELSE p1]

OneProfile == {<<i1>>}
TwoProfiles == {<<i3, i1>>}
ManyLists == {<<>>, <<i1>>, <<i3, i1>>, <<i1, i2>>}

OneFailure == {"invalid"}

AllOps == {"bind", "update", "validate", "refresh", "delete", "device",
           "confirm"}

RequestSymmetry == Permutations(Requests)

\* Devices are alike as well, and so are the two cookies of one account.
AlikeSymmetry ==
    Permutations(Requests) \cup Permutations(Devices) \cup Permutations({c1, c2})
=============================================================================
