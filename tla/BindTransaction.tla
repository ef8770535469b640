--------------------------- MODULE BindTransaction ---------------------------
(***************************************************************************)
(* The transactions of CredentialLifecycle taken apart: each statement of  *)
(* Bind, Update, Delete and ConfirmPrimaryProfile is a step of its own,    *)
(* taken when InnoDB grants its locks, and COMMIT makes the effects        *)
(* public.  CredentialLifecycle makes all of a transaction's writes one    *)
(* step; Implements says that the locks justify that, but for one step:    *)
(* a bind that InnoDB picks as a deadlock victim is rolled back whole, and *)
(* the clean-up bindPreparedCredential deferred then runs on a connection  *)
(* that has no transaction any more.                                       *)
(*                                                                         *)
(* Locks, as far as these statements tell them apart: the unique values    *)
(* of a credential row, the rows of the two other tables, and, for a       *)
(* DELETE or UPDATE that scans an index, the gap between the entries       *)
(* around the value sought, where others may not insert.  A transaction    *)
(* keeps its locks to the end.  Left out: artifacts (the binding has       *)
(* none) and the gap locks of an INSERT that meets a duplicate.            *)
(***************************************************************************)
EXTENDS CredentialLifecycle

CONSTANTS
    BindingRank,   \* the order of the bindings in an index on binding_id
    KeyRank        \* the order of the keys in idx_*_platform_account_id

ASSUME OrderAssumption ==
    /\ BindingRank \in [Bindings -> Nat] /\ Injective(BindingRank)
    /\ KeyRank \in [Keys -> Nat] /\ Injective(KeyRank)

\* The transactions, and the clean-ups that have outlived theirs.
VARIABLE txns

txnVars == <<vars, txns>>

-----------------------------------------------------------------------------
(* Transactions.                                                           *)

\* A transaction has deleted rows (del) and written rows (add) of each
\* table, which others do not see, and holds locks on rows and on gaps.
\* undo: it runs the deferred clean-up.  detached: outside a transaction.
Unwritten == [del |-> {}, add |-> {}]
Started(call) ==
    [call |-> call, at |-> 1, undo |-> FALSE, detached |-> FALSE,
     credentials |-> Unwritten, devices |-> Unwritten, profiles |-> Unwritten,
     rows |-> {}, gaps |-> {}]

\* What the statements of a transaction see of a table of which the others
\* see rows, and what it has written once those are after.
Seen(rows, w) == (rows \ w.del) \cup w.add
Written(w, before, after) ==
    [del |-> w.del \cup (before \ after),
     add |-> (w.add \cup (after \ before)) \ (before \ after)]

\* The statements of each handler, in its order.
BindStatements(call) ==
    <<"save_credential", "save_device", "forget_profiles">>
    \o [i \in DOMAIN call.found |-> "save_profile"]
    \o (IF Replaced(call) = {} THEN <<>>
        ELSE <<"forget_devices", "forget_credential">>)
    \o (IF call.op = "update" THEN <<"prune">> ELSE <<>>)
DeleteStatements == <<"wipe_profiles", "wipe_devices", "wipe_credential">>
ConfirmStatements == <<"clear", "choose">>
CleanUp == <<"undo_profiles", "undo_devices", "undo_credential">>

Statements(t) ==
    IF t.undo THEN CleanUp
    ELSE IF t.call.op = "delete" THEN DeleteStatements
    ELSE IF t.call.op = "confirm" THEN ConfirmStatements
    ELSE BindStatements(t.call)

Running(t) == t.at \in DOMAIN Statements(t)
Doing(t, s) == Running(t) /\ Statements(t)[t.at] = s

\* The discovered profile a "save_profile" statement is about.
Profile(t) == t.at - 3
JustProfile(t) == [t.call EXCEPT !.found = <<@[1], @[Profile(t)]>>]

-----------------------------------------------------------------------------
(* What a statement makes of each table.                                   *)

CredentialsNow(t) == Seen(credentials, t.credentials)
DevicesNow(t) == Seen(devices, t.devices)
ProfilesNow(t) == Seen(profiles, t.profiles)

\* The last write of the clean-up: the credential that was replaced is put
\* back, or the one that was saved is deleted.  Errors are ignored.
CredentialsUndone(call) ==
    IF Replaced(call) = {}
    THEN {c \in credentials : c.key # CallKey(call)}
    ELSE UNION {IF CredentialAccepted(row) THEN SaveCredential(row)
                ELSE credentials : row \in call.creds}

CredentialsNext(t) ==
    CASE Doing(t, "save_credential") -> SaveCredential(BoundRow(t.call))
      [] Doing(t, "forget_credential") ->
           {c \in CredentialsNow(t) : c.key \notin Replaced(t.call)}
      [] Doing(t, "wipe_credential") ->
           {c \in CredentialsNow(t) : c.binding # t.call.binding}
      [] Doing(t, "undo_credential") -> CredentialsUndone(t.call)
      [] OTHER -> CredentialsNow(t)

DevicesNext(t) ==
    CASE Doing(t, "save_device") -> SaveDevice(BoundDevice(t.call))
      [] Doing(t, "forget_devices") ->
           {d \in DevicesNow(t) : d.key \notin Replaced(t.call)}
      [] Doing(t, "wipe_devices") ->
           {d \in DevicesNow(t) : d.binding # t.call.binding}
      [] Doing(t, "undo_devices") ->
           {d \in DevicesNow(t) : d.key # CallKey(t.call)}
      [] OTHER -> DevicesNow(t)

\* The first UPDATE of a Confirm, and its second.
Cleared(t) ==
    {IF p.binding = t.call.binding THEN [p EXCEPT !.default = FALSE]
                                   ELSE p : p \in ProfilesNow(t)}
Picked(t) ==
    {IF Chosen(t.call, p) THEN [p EXCEPT !.default = TRUE]
                          ELSE p : p \in ProfilesNow(t)}

ProfilesNext(t) ==
    CASE Doing(t, "forget_profiles") ->
           {p \in ProfilesNow(t) : p.key \notin Gone(t.call)}
      [] Doing(t, "save_profile") ->
           IF Profile(t) = 1 THEN SaveDefault(t.call, ProfilesNow(t))
           ELSE SaveOthers(JustProfile(t), ProfilesNow(t))
      [] Doing(t, "prune") -> Prune(t.call, ProfilesNow(t))
      [] Doing(t, "wipe_profiles") ->
           {p \in ProfilesNow(t) : p.binding # t.call.binding}
      [] Doing(t, "clear") -> Cleared(t)
      [] Doing(t, "choose") -> Picked(t)
      [] Doing(t, "undo_profiles") ->
           {p \in ProfilesNow(t) : p.key # CallKey(t.call)}
      [] OTHER -> ProfilesNow(t)

\* Mutant: no row affected by the second UPDATE of a Confirm is no error.
AcceptedButNone(t) ==
    /\ Doing(t, "save_credential") => CredentialAccepted(BoundRow(t.call))
    /\ Doing(t, "save_profile") /\ Profile(t) = 1 =>
         DefaultAccepted(t.call, ProfilesNow(t))
    /\ Doing(t, "choose") => UniqueProfiles(Picked(t))

\* A statement that does not end in an error.
Accepted(t) ==
    /\ Doing(t, "save_credential") => CredentialAccepted(BoundRow(t.call))
    /\ Doing(t, "save_profile") /\ Profile(t) = 1 =>
         DefaultAccepted(t.call, ProfilesNow(t))
    /\ Doing(t, "choose") =>
         /\ \E p \in ProfilesNow(t) : Chosen(t.call, p)
         /\ UniqueProfiles(Picked(t))

-----------------------------------------------------------------------------
(* Locks.                                                                  *)

\* The rows that are in the tables, whoever may see them yet.
Physical(rows, writes) == rows \cup UNION {w.add : w \in writes}
AllCredentials == Physical(credentials, {t.credentials : t \in txns})
AllDevices == Physical(devices, {t.devices : t \in txns})
AllProfiles == Physical(profiles, {t.profiles : t \in txns})

CredentialLocks(rows) ==
    {<<"binding", c.binding>> : c \in rows}
    \cup {<<"account", c.account>> : c \in rows}
DeviceLocks(rows) == {<<"device", d.binding, d.device>> : d \in rows}
ProfileLocks(rows) == {<<"profile", p.binding, p.ident>> : p \in rows}

SaveCredentialLocks(row) == CredentialLocks(Colliding(row) \cup {row})

\* The rows a statement locks: those it writes and those it scans.
RowsLocked(t) ==
    LET call == t.call
        OfBinding(rows) == {r \in rows : r.binding = call.binding}
        OfKeys(rows, ks) == {r \in rows : r.key \in ks}
    IN CASE Doing(t, "save_credential") -> SaveCredentialLocks(BoundRow(call))
         [] Doing(t, "save_device") -> DeviceLocks({BoundDevice(call)})
         [] Doing(t, "forget_profiles") ->
              ProfileLocks(OfKeys(AllProfiles, Gone(call)))
         [] Doing(t, "save_profile") ->
              {<<"profile", call.binding, call.found[Profile(t)]>>}
         [] Doing(t, "forget_devices") ->
              DeviceLocks(OfKeys(AllDevices, Replaced(call)))
         [] Doing(t, "forget_credential") ->
              CredentialLocks(OfKeys(AllCredentials, Replaced(call)))
         [] Doing(t, "undo_profiles") ->
              ProfileLocks(OfKeys(AllProfiles, {CallKey(call)}))
         [] Doing(t, "undo_devices") ->
              DeviceLocks(OfKeys(AllDevices, {CallKey(call)}))
         [] Doing(t, "undo_credential") ->
              IF Replaced(call) = {}
              THEN CredentialLocks(OfKeys(AllCredentials, {CallKey(call)}))
              ELSE UNION {SaveCredentialLocks(row) : row \in call.creds}
         [] Doing(t, "wipe_devices") -> DeviceLocks(OfBinding(AllDevices))
         [] Doing(t, "wipe_credential") ->
              CredentialLocks(OfBinding(AllCredentials))
         [] OTHER -> ProfileLocks(OfBinding(AllProfiles))

\* The values of an index an INSERT of which would land in the gap that a
\* scan for v locks: from the entry before v up to the entry after it.
Near(rank, present, v) ==
    {w \in DOMAIN rank :
        \A x \in present : /\ ~(rank[w] < rank[x] /\ rank[x] < rank[v])
                           /\ ~(rank[v] < rank[x] /\ rank[x] <= rank[w])}

KeyGaps(table, rows, ks) ==
    {<<table, "key", k>> : k \in UNION {
        Near(KeyRank, {r.key : r \in rows}, v) : v \in ks}}
BindingGaps(table, rows, b) ==
    {<<table, "binding", w>> :
        w \in Near(BindingRank, {r.binding : r \in rows}, b)}

\* A unique index is searched for one value: the row's lock is enough when
\* the row is there, and the gap is locked when it is not.
Missing(ks) == ks \ {c.key : c \in AllCredentials}

GapsLocked(t) ==
    LET call == t.call
    IN CASE Doing(t, "forget_profiles") ->
              KeyGaps("profiles", AllProfiles, Gone(call))
         [] Doing(t, "undo_profiles") ->
              KeyGaps("profiles", AllProfiles, {CallKey(call)})
         [] Doing(t, "forget_devices") ->
              KeyGaps("devices", AllDevices, Replaced(call))
         [] Doing(t, "undo_devices") ->
              KeyGaps("devices", AllDevices, {CallKey(call)})
         [] Doing(t, "wipe_devices") ->
              BindingGaps("devices", AllDevices, call.binding)
         [] \E s \in {"prune", "wipe_profiles", "clear", "choose"} :
              Doing(t, s) ->
                BindingGaps("profiles", AllProfiles, call.binding)
         [] Doing(t, "forget_credential") ->
              KeyGaps("credentials", AllCredentials, Missing(Replaced(call)))
         [] Doing(t, "undo_credential") /\ Replaced(call) = {} ->
              KeyGaps("credentials", AllCredentials, Missing({CallKey(call)}))
         [] Doing(t, "wipe_credential")
              /\ \A c \in AllCredentials : c.binding # call.binding ->
                BindingGaps("credentials", AllCredentials, call.binding)
         [] OTHER -> {}

\* The index entries a step from before to after inserts, by the gap they
\* land in; an entry for a row's slot that was there is no new one.
DeviceEntries(rows) ==
    {<<"devices", "key", d.key, d.device>> : d \in rows}
    \cup {<<"devices", "binding", d.binding, d.device>> : d \in rows}
ProfileEntries(rows) ==
    {<<"profiles", "key", p.key, p.ident>> : p \in rows}
    \cup {<<"profiles", "binding", p.binding, p.ident>> : p \in rows}
Inserted(entries) == {<<e[1], e[2], e[3]>> : e \in entries}

DevicesInserted(before, after) ==
    Inserted(DeviceEntries(after) \ DeviceEntries(before))
ProfilesInserted(before, after) ==
    Inserted(ProfileEntries(after) \ ProfileEntries(before))
CredentialsInserted(before, after) ==
    {<<"credentials", "binding", c.binding>> :
        c \in {c \in after : \A d \in before : d.binding # c.binding}}
    \cup {<<"credentials", "key", c.key>> :
        c \in {c \in after : \A d \in before : d.key # c.key}}

Inserts(t) ==
    CredentialsInserted(CredentialsNow(t), CredentialsNext(t))
    \cup DevicesInserted(DevicesNow(t), DevicesNext(t))
    \cup ProfilesInserted(ProfilesNow(t), ProfilesNext(t))

\* The transactions that hold what a statement needs.
Holders(rows, inserts) ==
    {u \in txns : u.rows \cap rows # {} \/ u.gaps \cap inserts # {}}
WaitsFor(t) ==
    IF Running(t) THEN Holders(RowsLocked(t), Inserts(t)) \ {t} ELSE {}

\* Two or more transactions each of which waits, through the others, for
\* every other one.
Deadlocked(t) ==
    \E ring \in SUBSET txns :
        /\ t \in ring /\ ring # {t}
        /\ \A part \in SUBSET ring \ {{}, ring} :
             \E u \in part : WaitsFor(u) \cap (ring \ part) # {}

-----------------------------------------------------------------------------
(* Actions.                                                                *)

\* A bind or update opens its transaction with the SELECT that fixes its
\* snapshot.
Open(call) ==
    /\ TxnOpen(call)
    /\ txns' = txns \cup {Started(c) : c \in inflight' \ inflight}

\* Delete and Confirm have nothing to read in theirs.
Enter(call) ==
    /\ call.op \in {"delete", "confirm"}
    /\ \A t \in txns : t.call # call
    /\ txns' = txns \cup {Started(call)}
    /\ UNCHANGED vars

\* The writes of the clean-up inside a transaction are rolled back with it.
WorkOf(t, w, before, after) ==
    IF t.undo THEN w ELSE Written(w, before, after)

Statement(t) ==
    /\ Running(t) /\ ~t.detached
    /\ WaitsFor(t) = {}
    /\ Accepted(t)
    /\ txns' = (txns \ {t}) \cup
         {[t EXCEPT
             !.at = @ + 1,
             !.rows = @ \cup RowsLocked(t),
             !.gaps = @ \cup GapsLocked(t),
             !.credentials = WorkOf(t, @, CredentialsNow(t), CredentialsNext(t)),
             !.devices = WorkOf(t, @, DevicesNow(t), DevicesNext(t)),
             !.profiles = WorkOf(t, @, ProfilesNow(t), ProfilesNext(t))]}
    /\ UNCHANGED vars

Commit(t) ==
    /\ ~Running(t) /\ ~t.undo
    /\ credentials' = CredentialsNow(t)
    /\ devices' = DevicesNow(t)
    /\ profiles' = ProfilesNow(t)
    /\ Finish(t.call)
    /\ UNCHANGED revalidated
    /\ txns' = txns \ {t}

\* bindPreparedCredential has saved the credential and has not returned.
Armed(t) ==
    /\ t.call.op \in {"bind", "update"}
    /\ ~t.undo /\ t.at > 1
    /\ Running(t) /\ ~Doing(t, "prune")

\* A statement ends in an error: a duplicate, a lock wait that timed out, a
\* default profile in the way.  The handler returns it, the deferred
\* clean-up first, still in the transaction.
Error(t) ==
    /\ Running(t) /\ ~t.undo
    /\ IF Armed(t)
       THEN /\ txns' = (txns \ {t}) \cup {[t EXCEPT !.undo = TRUE, !.at = 1]}
            /\ UNCHANGED vars
       ELSE Fail(t.call) /\ txns' = txns \ {t}

Rejected(t) == WaitsFor(t) = {} /\ ~Accepted(t) /\ Error(t)

\* Mutants: the error is swallowed before Transaction sees it, and the
\* transaction stays open; the RPC returns and leaves it open.
NeverRolledBack(t) == FALSE
RollbackForgotten(t) ==
    /\ t.undo /\ ~t.detached /\ ~Running(t)
    /\ Fail(t.call)
    /\ UNCHANGED txns

Rollback(t) ==
    /\ t.undo /\ ~t.detached /\ ~Running(t)
    /\ Fail(t.call)
    /\ txns' = txns \ {t}

\* A clean-up whose transaction is gone, from its statement i on.
CleanUpFrom(call, i) ==
    IF i > Len(CleanUp) THEN {}
    ELSE {[Started(call) EXCEPT !.at = i, !.undo = TRUE, !.detached = TRUE]}

\* InnoDB finds a deadlock and rolls one of the transactions back.  To the
\* code it is a statement that failed: it goes on to the clean-up, or with
\* it, and the connection now commits each statement by itself.
Victim(t) ==
    /\ Deadlocked(t)
    /\ Fail(t.call)
    /\ txns' = (txns \ {t}) \cup
         IF t.undo THEN CleanUpFrom(t.call, t.at + 1)
         ELSE IF Armed(t) THEN CleanUpFrom(t.call, 1) ELSE {}

Onward(t) ==
    (txns \ {t}) \cup
        IF t.detached THEN CleanUpFrom(t.call, t.at + 1)
        ELSE {[t EXCEPT !.at = @ + 1]}

\* A statement of the clean-up that fails is passed over.
PassOver(t) ==
    /\ t.undo /\ Running(t)
    /\ txns' = Onward(t)
    /\ UNCHANGED vars

CleanUpAlone(t) ==
    /\ t.detached /\ Running(t)
    /\ WaitsFor(t) = {}
    /\ credentials' = CredentialsNext(t)
    /\ devices' = DevicesNext(t)
    /\ profiles' = ProfilesNext(t)
    /\ txns' = Onward(t)
    /\ UNCHANGED <<inflight, used, applied, history>>

\* The writes that are one statement, in a transaction of its own.
SaveAlone(call) ==
    /\ \/ \E status \in Statuses :
            /\ RevalidateSave(call, status)
            /\ Holders(SaveCredentialLocks(RevalidatedRow(call, status)),
                       CredentialsInserted(credentials, credentials')) = {}
       \/ /\ DeviceSave(call)
          /\ Holders(DeviceLocks({[binding |-> call.binding,
                                   device |-> call.device]}),
                     DevicesInserted(devices, devices')) = {}
    /\ UNCHANGED txns

SaveRejected(call) ==
    /\ call.op \in {"validate", "refresh"}
    /\ ~CredentialAccepted(call.row)
    /\ Fail(call)
    /\ UNCHANGED txns

\* The caller is gone or the process dies; a connection that closes rolls
\* its transaction back.
Abandon(call) ==
    /\ Fail(call)
    /\ txns' = {t \in txns : t.call # call}

TxnInit == Init /\ txns = {}

\* What the database and the handlers do of themselves.
Proceed(t) ==
    \/ Statement(t) \/ Commit(t) \/ Rejected(t) \/ Rollback(t) \/ Victim(t)
    \/ CleanUpAlone(t)
Advance(call) ==
    Open(call) \/ Enter(call) \/ SaveAlone(call) \/ SaveRejected(call)

TxnNext ==
    \/ Begin /\ UNCHANGED txns
    \/ \E call \in inflight : Advance(call) \/ Abandon(call)
    \/ \E t \in txns : Proceed(t) \/ Error(t) \/ PassOver(t)

TxnSpec == TxnInit /\ [][TxnNext]_txnVars

\* A request's goroutine is scheduled, the upstream platform answers (or the
\* timeout of the server ends the wait, which is an end as well), and InnoDB
\* grants locks that are free and looks for deadlocks; nothing is assumed to
\* start, fail or be cut off.
ProgressOf(r) ==
    \/ \E call \in inflight : call.id = r /\ Advance(call)
    \/ \E t \in txns : t.call.id = r /\ Proceed(t)
Fairness == \A r \in Requests : WF_txnVars(ProgressOf(r))

FairTxnSpec == TxnSpec /\ Fairness

-----------------------------------------------------------------------------
(* Properties.                                                             *)

\* Every step of the statements is a step of CredentialLifecycle or changes
\* nothing there: WithinTransaction and the locks make the writes of a
\* handler one step, save for the clean-up of a deadlock victim.
Implements ==
    Init /\ [][Next \/ \E t \in txns : CleanUpAlone(t)]_vars

\* Every RPC that has begun its work ends, whatever rows and gaps the others
\* hold: Bind, Delete and Confirm take their locks in different orders, but
\* a wait never outlasts the transactions it is for.
EveryCallEnds ==
    \A r \in Requests :
        (\E call \in inflight : call.id = r) ~>
        ~(\E call \in inflight : call.id = r)

\* No lock is left behind: once no call is running, no transaction is.
LocksHaveCallers ==
    \A t \in txns : t.detached \/ t.call \in inflight

\* TestBindCredentialRebindRollbackRestoresPreviousBindingState: a bind that
\* fails leaves what was bound before.  Only a call that ends with its
\* writes made may change a table.
FailedBindChangesNothing ==
    [][tables' # tables => applied' # applied]_txnVars
=============================================================================
