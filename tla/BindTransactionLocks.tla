------------------------ MODULE BindTransactionLocks ------------------------
(***************************************************************************)
(* Why the locks of BindTransaction make a handler's writes one step.  The *)
(* tables are parameters here: C, D and P stand for credentials, devices   *)
(* and profiles, so that one formula speaks of the tables now and of the   *)
(* tables after another transaction has committed.                         *)
(***************************************************************************)
EXTENDS BindTransaction

-----------------------------------------------------------------------------
(* Statements done, and what they make of the tables.                      *)

Binds(t) == t.call.op \in {"bind", "update"}

Done(t, s) == \E i \in DOMAIN Statements(t) : i < t.at /\ Statements(t)[i] = s

\* The discovered profiles a bind has saved.
Saved(t) == {j \in DOMAIN t.call.found : j + 3 < t.at}
SavedIdents(t) == {t.call.found[j] : j \in Saved(t)}

CollidingIn(C, row) ==
    {c \in C : \/ c.binding = row.binding
               \/ c.key = row.key
               \/ c.account = row.account}
SavedCredential(C, row) == (C \ CollidingIn(C, row)) \cup {row}

SavedDevice(D, row) ==
    {d \in D : ~(d.binding = row.binding /\ d.device = row.device)} \cup {row}

KeptIn(P, call) == {p \in P : p.key \notin Gone(call)}
VisibleIn(P, call) ==
    {p \in call.rows : ~ \E q \in P : SameRow(p, q) /\ q.key \in Gone(call)}

\* saveDefaultProfile on rows, given the rows it sees of that profile.
WithDefault(call, seen, rows) ==
    IF seen = {} THEN rows \cup {NewProfile(call, call.found[1], TRUE)}
    ELSE {IF \E q \in seen : SameRow(p, q)
          THEN [p EXCEPT !.key = CallKey(call), !.default = TRUE]
          ELSE p : p \in rows}
SeenDefault(P, call) == {p \in VisibleIn(P, call) : p.ident = call.found[1]}
DefaultSaved(P, call) == WithDefault(call, SeenDefault(P, call), KeptIn(P, call))
DefaultFits(P, call) ==
    /\ \A p \in VisibleIn(P, call) : p.default => p.ident = call.found[1]
    /\ UniqueProfiles(DefaultSaved(P, call))

\* ProfileRepo.Save of the profiles named.
WithOthers(call, idents, rows) ==
    {IF p.binding = call.binding /\ p.ident \in idents
     THEN [p EXCEPT !.key = CallKey(call), !.default = FALSE]
     ELSE p : p \in rows}
    \cup {NewProfile(call, i, FALSE) :
            i \in {i \in idents : ~ \E p \in rows :
                                      p.binding = call.binding /\ p.ident = i}}

WithoutDefault(P, call) ==
    {IF p.binding = call.binding THEN [p EXCEPT !.default = FALSE]
                                 ELSE p : p \in P}
WithChosen(P, call) ==
    {IF p.binding = call.binding THEN [p EXCEPT !.default = Chosen(call, p)]
                                 ELSE p : p \in P}

\* The tables as the statements done make them, were they done on C, D and P
\* in one step.
CredentialsSoFar(t, C) ==
    IF Done(t, "wipe_credential") THEN {c \in C : c.binding # t.call.binding}
    ELSE IF Done(t, "save_credential") THEN SavedCredential(C, BoundRow(t.call))
    ELSE C

DevicesSoFar(t, D) ==
    IF Done(t, "wipe_devices") THEN {d \in D : d.binding # t.call.binding}
    ELSE IF Done(t, "save_device")
    THEN {d \in SavedDevice(D, BoundDevice(t.call)) :
             Done(t, "forget_devices") => d.key \notin Replaced(t.call)}
    ELSE D

BoundSoFar(t, P) ==
    IF 1 \in Saved(t)
    THEN WithOthers(t.call, {t.call.found[j] : j \in Saved(t) \ {1}},
                    DefaultSaved(P, t.call))
    ELSE IF Done(t, "forget_profiles") THEN KeptIn(P, t.call)
    ELSE P

ProfilesSoFar(t, P) ==
    IF Binds(t)
    THEN IF Done(t, "prune") THEN Prune(t.call, BoundSoFar(t, P))
         ELSE BoundSoFar(t, P)
    ELSE IF Done(t, "wipe_profiles")
    THEN {p \in P : p.binding # t.call.binding}
    ELSE IF Done(t, "choose") THEN WithChosen(P, t.call)
    ELSE IF Done(t, "clear") THEN WithoutDefault(P, t.call)
    ELSE P

-----------------------------------------------------------------------------
(* What is locked.                                                         *)

HoldsAll(t, c) == {<<"binding", c.binding>>, <<"account", c.account>>} \subseteq t.rows
HoldsAny(t, c) == {<<"binding", c.binding>>, <<"account", c.account>>} \cap t.rows # {}
HoldsDevice(t, d) == <<"device", d.binding, d.device>> \in t.rows
HoldsProfile(t, p) == <<"profile", p.binding, p.ident>> \in t.rows

\* The rows that a scan of t, had it met them, would have locked.
ScansBinding(t) == \E s \in {"prune", "wipe_profiles", "clear"} : Done(t, s)
CredentialScanned(t, c) ==
    Done(t, "wipe_credential") /\ c.binding = t.call.binding
DeviceScanned(t, d) ==
    \/ Done(t, "forget_devices") /\ d.key \in Replaced(t.call)
    \/ Done(t, "wipe_devices") /\ d.binding = t.call.binding
ProfileScanned(t, p) ==
    \/ Done(t, "forget_profiles") /\ p.key \in Gone(t.call)
    \/ ScansBinding(t) /\ p.binding = t.call.binding

GapsHeld(t) ==
    /\ Done(t, "wipe_credential") =>
         \/ <<"binding", t.call.binding>> \in t.rows
         \/ <<"credentials", "binding", t.call.binding>> \in t.gaps
    /\ Done(t, "wipe_devices") =>
         <<"devices", "binding", t.call.binding>> \in t.gaps
    /\ Done(t, "forget_devices") =>
         \A k \in Replaced(t.call) : <<"devices", "key", k>> \in t.gaps
    /\ Done(t, "forget_profiles") =>
         \A k \in Gone(t.call) : <<"profiles", "key", k>> \in t.gaps
    /\ ScansBinding(t) => <<"profiles", "binding", t.call.binding>> \in t.gaps

-----------------------------------------------------------------------------
(* The invariant.                                                          *)

Touched(w) == w.del \cup w.add

\* A transaction that may still commit: what it has written is locked, and is
\* what its statements would make of the tables now; what it scanned is
\* locked; and what it saw when it was let pass is so still.
LiveC(t, C) ==
    /\ \A c \in Touched(t.credentials) : HoldsAll(t, c)
    /\ Seen(C, t.credentials) = CredentialsSoFar(t, C)
    /\ \A c \in C : CredentialScanned(t, c) => HoldsAll(t, c)
    /\ Done(t, "save_credential") =>
         /\ \A c, d \in CollidingIn(C, BoundRow(t.call)) : c = d
         /\ HoldsAll(t, BoundRow(t.call))

LiveD(t, D) ==
    /\ \A d \in Touched(t.devices) : HoldsDevice(t, d)
    /\ Seen(D, t.devices) = DevicesSoFar(t, D)
    /\ \A d \in D : DeviceScanned(t, d) => HoldsDevice(t, d)
    /\ Done(t, "save_device") => HoldsDevice(t, BoundDevice(t.call))

LiveP(t, P) ==
    /\ \A p \in Touched(t.profiles) : HoldsProfile(t, p)
    /\ Seen(P, t.profiles) = ProfilesSoFar(t, P)
    /\ \A p \in P : ProfileScanned(t, p) => HoldsProfile(t, p)
    /\ Binds(t) =>
         /\ \A i \in SavedIdents(t) : <<"profile", t.call.binding, i>> \in t.rows
         /\ 1 \in Saved(t) => DefaultFits(P, t.call)
    /\ Done(t, "choose") =>
         /\ \E p \in P : Chosen(t.call, p)
         /\ UniqueProfiles(WithChosen(P, t.call))

\* The rows a transaction adds are of its own binding, by their keys too.
AddsOwn(t) ==
    /\ \A r \in t.credentials.add \cup t.devices.add \cup t.profiles.add :
          r.binding = t.call.binding /\ InScope(r.key, r.binding)

Live(t) ==
    /\ LiveC(t, credentials) /\ LiveD(t, devices) /\ LiveP(t, profiles)
    /\ GapsHeld(t) /\ AddsOwn(t)

\* Two transactions lock no row both, and the one adds nothing that the
\* other has scanned for.
ScansMiss(t, u) ==
    /\ \A c \in u.credentials.add : ~CredentialScanned(t, c)
    /\ \A d \in u.devices.add : ~DeviceScanned(t, d)
    /\ \A p \in u.profiles.add : ~ProfileScanned(t, p)

LocksApart ==
    /\ \A t, u \in txns : t # u => t.rows \cap u.rows = {}
    /\ \A t, u \in txns : t # u /\ ~t.undo /\ ~u.undo => ScansMiss(t, u)

\* What transactions are, whether they may commit or not.
Shaped(t) ==
    /\ t.call \in Calls /\ t.at \in Nat \ {0}
    /\ t.undo \in BOOLEAN /\ t.detached \in BOOLEAN
    /\ t.call.op \in {"bind", "update", "delete", "confirm"}
    /\ t.undo => Binds(t)
    /\ t.credentials.add \subseteq CredentialRow
    /\ t.devices.add \subseteq DeviceRow
    /\ t.profiles.add \subseteq ProfileRow
    /\ t.detached => /\ t.credentials = Unwritten
                     /\ t.devices = Unwritten
                     /\ t.profiles = Unwritten

\* What a bind read of its binding's credentials may be put back.
ReadSound(call) ==
    call.op \in {"bind", "update"} => \A c \in call.creds : CredentialSound(c)

WriteInv ==
    /\ UniqueProfiles(profiles)
    /\ \A call \in inflight : ReadSound(call)
    /\ \A t \in txns : Shaped(t) /\ ReadSound(t.call)
    /\ \A t \in txns : ~t.undo => Live(t)
    /\ LocksApart
=============================================================================
