-------------------------- MODULE MCBindTransaction --------------------------
(***************************************************************************)
(* Values of the constants of BindTransaction for TLC.  The keys sort as   *)
(* their strings do: "binding_" before "hoyo_ref_", then the binding, then *)
(* the account.                                                            *)
(***************************************************************************)
EXTENDS BindTransaction

CONSTANTS a1, a2, b1, b2, c1, c3, i1, i3, p1, p2

MCAccountOf == [c \in Cookies |-> IF c = c3 THEN a2 ELSE a1]
MCPlayerOf == [i \in Idents |-> IF i = i3 THEN p2 ELSE p1]
MCBindingRank == [b \in Bindings |-> IF b = b1 THEN 0 ELSE 1]
MCKeyRank ==
    [k \in Keys |-> (IF k.kind = "binding" THEN 0 ELSE 4)
                    + 2 * MCBindingRank[k.binding]
                    + (IF k.account = a1 THEN 0 ELSE 1)]

OneProfile == {<<i1>>}
OneFailure == {"invalid"}
=============================================================================
