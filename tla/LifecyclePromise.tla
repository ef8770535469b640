-------------------------- MODULE LifecyclePromise --------------------------
(***************************************************************************)
(* CredentialLifecycle, seen by the owner of one binding, implements       *)
(* BindingPromise: the rows of the three tables that carry the binding's   *)
(* id, without keys and ids, and the calls of the binding, without what    *)
(* they have read.                                                         *)
(***************************************************************************)
EXTENDS CredentialSummary

CONSTANT Owner          \* the binding looked at

ASSUME OwnerAssumption == Owner \in Bindings

Owned(rows) == {r \in rows : r.binding = Owner}

HeldOf(c) == [cookie |-> c.cookie, status |-> c.status,
              refreshed |-> c.refreshed, legacy |-> c.key.kind = "hoyo_ref"]

\* What the owner asked for: a call without its id, its step and its reads.
Asked(call) ==
    [f \in DOMAIN call \cap {"op", "cookie", "device", "found", "player"} |->
        call[f]]

Binding == INSTANCE BindingPromise WITH
    held <- {HeldOf(c) : c \in Owned(credentials)},
    known <- {d.device : d \in Owned(devices)},
    listed <- {p.ident : p \in Owned(profiles)},
    primary <- {p.ident : p \in {p \in Owned(profiles) : p.default}},
    pending <- {Asked(call) : call \in Owned(inflight)}

\* What the API promises of a binding, when calls do not overlap: whichever
\* order they come in, each changes what its RPC is for and nothing else.  A
\* bind leaves nothing of another account, an update keeps the devices and
\* replaces the profiles, a revalidation touches the status only, and a call
\* that fails anywhere changes nothing.
KeepsPromise == Binding!Promise
=============================================================================
