---------------------------- MODULE MCTicketGate ----------------------------
(***************************************************************************)
(* Values of the constants of TicketGate for TLC: the requests in play,    *)
(* for each of the questions asked.                                        *)
(***************************************************************************)
EXTENDS TicketGate, TLC

CONSTANTS b1, b2, a1, a2, k1, k2, l1, n1, n2, i1, i2, i3, p1, p2, odd

\* k1 and l1 differ in case only.
MCNameOf == [c \in Consumers |-> IF c = k2 THEN n2 ELSE n1]

\* i1 and i2: one player id in two regions.
MCPlayerOf == [i \in Idents |-> IF i = i3 THEN p2 ELSE p1]
MCDiscoveries == {<<>>, <<i1, i2>>, <<i3, i1>>}
OneDiscovery == {<<i1>>}

Key(b, a) == [binding |-> b, account |-> a]

\* Sets of tickets, and of requests that carry them.
Signed(actors, bs, ids, scopes) ==
    [valid : {TRUE}, actor : actors, consumer : {None}, version : {0},
     binding : bs, platform : {"mihomo"}, profile : ids, scopes : scopes,
     key : {NoId} \cup (Keys \cap {Key(b1, a1), Key(b2, a1)})]
Granted(versions) ==
    [valid : {TRUE}, actor : {"consumer"}, consumer : {k1}, version : versions,
     binding : {b1}, platform : {"mihomo"}, profile : {0}, scopes : {Scopes},
     key : {NoId}]
Ask(ops, ts, ks, args) == [op : ops, ticket : ts, key : ks, arg : args]

\* Grants: a consumer with two versions, invalidations of two bindings in any
\* order, and a second binding that competes with the first for its account.
Owner(b) == {t \in Signed({"user"}, {b}, {0}, {Scopes}) : t.key = NoId}
GrantOffers ==
    Ask({"Status"}, Granted({1, 2}), {Key(b1, a1)}, {None})
    \cup Ask({"Bind"}, Granted({1, 2}), {NoId}, Discovered)
    \cup Ask({"Invalidate"}, Owner(b1) \cup Owner(b2) \cup Granted({2}),
             {NoId}, Invalidation)
    \cup Ask({"PutCredential"}, Owner(b2), {NoId}, Discovered)
    \cup Ask({"GenericDelete"}, Owner(b2), {Key(b2, a1)}, {None})

\* Profiles: binds, updates, deletes and confirmations by the owner, reads by
\* tickets confined to profiles that are, were or will be there.
Confined == {t \in Signed({"user"}, {b1}, 1..4, {Scopes}) : t.key = NoId}
ProfileOffers ==
    Ask({"Bind"}, Owner(b1), {NoId}, Discovered)
    \cup Ask({"Update"}, Owner(b1), {Key(b1, a1)}, Discovered)
    \cup Ask({"Delete", "Refresh"}, Owner(b1), {Key(b1, a1)}, {None})
    \cup Ask({"Confirm"}, Owner(b1), {Key(b1, a1)}, Players)
    \cup Ask({"ListProfiles", "GetPrimaryProfile"}, Confined, {Key(b1, a1)},
             {None})
    \cup Ask({"GetAuthKey"}, Confined, {Key(b1, a1)}, Players)

\* Rights: every RPC, with tickets that have one of the scopes, or all, that
\* are forged, confined, of another platform, another binding or another
\* actor, and with any platform account id.
Odd ==
    [valid : BOOLEAN, actor : {"consumer"}, consumer : {None, k1},
     version : {0, 1}, binding : {b1}, platform : {"mihomo", "other"},
     profile : {0}, scopes : {Scopes}, key : {NoId}]
RightTickets ==
    Odd \cup Signed({"user", "system"}, {b1}, {0, 1},
                    {Scopes, {}} \cup {{s} : s \in Scopes})
RightOffers ==
    UNION {Ask({op}, RightTickets, KeysOf(op), ArgsOf(op)) : op \in AllOps}

RequestSymmetry == Permutations(Requests)
=============================================================================
