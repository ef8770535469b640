--------------------------- MODULE BindingPromise ---------------------------
(***************************************************************************)
(* What the service promises the owner of a binding: which credential it   *)
(* holds, which devices it knows, which profiles it lists and which one is *)
(* primary, and what each RPC may do to that.  No rows, no keys, no        *)
(* transactions, no reads; CredentialLifecycle implements it as long as    *)
(* calls do not overlap.                                                   *)
(***************************************************************************)
EXTENDS Naturals, Sequences

CONSTANTS Cookies, AccountOf, Devices, Players, PlayerOf, Statuses,
          Discoveries    \* the lists of profiles the upstream may report

VARIABLES
    held,      \* the credential, as a set: none or one
    known,     \* the devices
    listed,    \* the profiles
    primary,   \* the primary profile, as a set: none or one
    pending    \* the RPC of the owner that is running, as a set: none or one

graph == <<held, known, listed, primary>>
promised == <<graph, pending>>

\* legacy: stored under a platform account id of the old form.
Credential(cookie, legacy) ==
    [cookie |-> cookie, status |-> "active", refreshed |-> FALSE,
     legacy |-> legacy]

Reported(found) == {found[i] : i \in DOMAIN found}
First(found) == {found[i] : i \in DOMAIN found \cap {1}}

\* The binding holds at first what some bind left.
Promised ==
    /\ pending = {}
    /\ \/ held = {} /\ known = {} /\ listed = {} /\ primary = {}
       \/ /\ \E cookie \in Cookies, legacy \in BOOLEAN :
               held = {Credential(cookie, legacy)}
          /\ \E d \in Devices : known = {d}
          /\ \E found \in Discoveries :
               listed = Reported(found) /\ primary = First(found)

\* The binding holds the cookie's account, under an id of today's form.
HoldsAccountOf(cookie) ==
    \E h \in held : AccountOf[h.cookie] = AccountOf[cookie] /\ ~h.legacy

Asks ==
    [op : {"bind", "update"}, cookie : Cookies, device : Devices,
     found : Discoveries]
    \cup [op : {"validate", "refresh", "delete"}]
    \cup [op : {"device"}, device : Devices]
    \cup [op : {"confirm"}, player : Players]

\* What the owner may ask for: all but a bind need a credential, an update
\* one of the same account, a confirmation a profile of the player.
Allowed(r) ==
    /\ r.op # "bind" => held # {}
    /\ r.op = "update" => HoldsAccountOf(r.cookie)
    /\ r.op = "confirm" => \E i \in listed : PlayerOf[i] = r.player

Ask(r) ==
    /\ pending = {} /\ pending' = {r}
    /\ Allowed(r)
    /\ UNCHANGED graph

\* A bind or an update leaves the new credential, the profiles reported and
\* the first of them primary; devices are forgotten when the account is
\* another, or held under an old id, and are kept by every update.
Bound(r) ==
    /\ r.op \in {"bind", "update"}
    /\ r.op = "update" => HoldsAccountOf(r.cookie)
    /\ held' = {Credential(r.cookie, FALSE)}
    /\ known' = {r.device} \cup IF HoldsAccountOf(r.cookie) THEN known ELSE {}
    /\ listed' = Reported(r.found)
    /\ primary' = First(r.found)

\* A revalidation finds a status, and keeps everything else: the cookie too.
Revalidated(r) ==
    /\ r.op \in {"validate", "refresh"}
    /\ \E h \in held, status \in Statuses :
         held' = {[cookie |-> h.cookie, legacy |-> h.legacy, status |-> status,
                   refreshed |-> h.refreshed \/ (r.op = "refresh"
                                                 /\ status = "active")]}
    /\ UNCHANGED <<known, listed, primary>>

DeviceSeen(r) ==
    /\ r.op = "device"
    /\ held # {}
    /\ known' = known \cup {r.device}
    /\ UNCHANGED <<held, listed, primary>>

\* The one profile of the player; a player with two cannot be confirmed.
PrimaryChosen(r) ==
    /\ r.op = "confirm"
    /\ \E i \in listed : /\ {j \in listed : PlayerOf[j] = r.player} = {i}
                         /\ primary' = {i}
    /\ UNCHANGED <<held, known, listed>>

Deleted(r) ==
    /\ r.op = "delete"
    /\ held' = {} /\ known' = {} /\ listed' = {} /\ primary' = {}

\* An RPC ends with its effect, that of no other, or with none: it failed.
End(r) ==
    /\ pending = {r} /\ pending' = {}
    /\ \/ Bound(r) \/ Revalidated(r) \/ DeviceSeen(r) \/ PrimaryChosen(r)
       \/ Deleted(r)
       \/ UNCHANGED graph

Keep == (\E r \in Asks : Ask(r)) \/ (\E r \in pending : End(r))

Promise == Promised /\ [][Keep]_promised
=============================================================================
