------------------------ MODULE CredentialLifecycle ------------------------
(***************************************************************************)
(* The credential graph of platform-mihomo-service: the MySQL tables       *)
(* credential_records, device_records and account_profiles, and the RPCs   *)
(* that write them.  Every RPC is split where the code lets other RPCs in: *)
(* between a read and the write that uses it (no handler but Bind and      *)
(* Update keeps both in a transaction), around the call to the upstream    *)
(* platform, and between the snapshot a transaction opens and the locks    *)
(* its writes take.                                                        *)
(*                                                                         *)
(* Tables are sets of rows.  Rows are linked by one string only, the       *)
(* platform account id "binding_<binding>_<account>" (older rows:          *)
(* "hoyo_ref_<binding>_<account>"), here a record called a key.            *)
(*                                                                         *)
(* MySQL, InnoDB at REPEATABLE READ: a plain SELECT in a transaction reads *)
(* the snapshot its first SELECT took; UPDATE, DELETE and INSERT work on   *)
(* the current rows, under locks held to the commit, so the writes of two  *)
(* transactions on the same rows do not interleave and TxnCommit takes all *)
(* of a transaction's writes as one step.  Artifacts are not here.         *)
(***************************************************************************)
EXTENDS Naturals, Sequences

CONSTANTS
    Requests,      \* identities of RPCs; each is used for one call
    Bindings,      \* binding ids: the tenants, named by the service ticket
    Accounts,      \* account ids the upstream platform knows
    Cookies,       \* cookie bundles: the credential material
    AccountOf,     \* the account the upstream platform finds for a cookie
    Devices,       \* device ids
    Idents,        \* (player_id, region) identities of game profiles
    Players,       \* player ids
    PlayerOf,      \* the player of an identity
    Discoveries,   \* lists of identities the upstream platform may report
    FailureStatuses, \* what a failed revalidation is classified as
    Earlier,       \* the author of the rows that were there at the start
    Ops,           \* the RPCs in play
    Overlap        \* FALSE: an RPC starts only when no other is running

Injective(s) == \A i, j \in DOMAIN s : s[i] = s[j] => i = j

ASSUME LifecycleAssumption ==
    /\ AccountOf \in [Cookies -> Accounts]
    /\ PlayerOf \in [Idents -> Players]
    /\ Discoveries \subseteq Seq(Idents)
    /\ \A found \in Discoveries : Injective(found)
    /\ "active" \notin FailureStatuses
    /\ Earlier \notin Requests
    /\ Overlap \in BOOLEAN

VARIABLES
    credentials,   \* credential_records
    devices,       \* device_records
    profiles,      \* account_profiles
    inflight,      \* the running RPCs, each with what it has read so far
    used,          \* the requests issued
    applied,       \* the requests whose writes were made
    submitted,     \* history: <<binding, cookie>> sent to Bind or Update
    revalidated    \* history: <<binding, cookie>> a refresh found good

tables == <<credentials, devices, profiles>>
history == <<submitted, revalidated>>
vars == <<credentials, devices, profiles, inflight, used, applied,
          submitted, revalidated>>

-----------------------------------------------------------------------------
(* Rows and calls.                                                         *)

Statuses == {"active"} \cup FailureStatuses
Kinds == {"binding", "hoyo_ref"}
Keys == [kind : Kinds, binding : Bindings, account : Accounts]

CredentialRow == [binding : Bindings, key : Keys, account : Accounts,
                  cookie : Cookies, status : Statuses, refreshed : BOOLEAN]
DeviceRow == [binding : Bindings, device : Devices, key : Keys]
\* id stands for the auto-increment id: a row that is deleted and inserted
\* again by another request is another row.
ProfileRow == [binding : Bindings, ident : Idents, key : Keys,
               default : BOOLEAN, id : Requests \cup {Earlier}]

BindCall == [id : Requests, op : {"bind", "update"},
             step : {"prepared", "open"}, binding : Bindings,
             cookie : Cookies, device : Devices, found : Discoveries,
             creds : SUBSET CredentialRow, rows : SUBSET ProfileRow]
RevalidateCall == [id : Requests, op : {"validate", "refresh"},
                   binding : Bindings, row : CredentialRow]
DeleteCall == [id : Requests, op : {"delete"}, binding : Bindings, key : Keys]
DeviceCall == [id : Requests, op : {"device"}, binding : Bindings,
               key : Keys, device : Devices]
ConfirmCall == [id : Requests, op : {"confirm"}, binding : Bindings,
                key : Keys, player : Players]
Calls == BindCall \cup RevalidateCall \cup DeleteCall \cup DeviceCall
         \cup ConfirmCall

TypeOK ==
    /\ credentials \subseteq CredentialRow
    /\ devices \subseteq DeviceRow
    /\ profiles \subseteq ProfileRow
    /\ inflight \subseteq Calls
    /\ used \subseteq Requests
    /\ applied \subseteq used
    /\ \A call \in inflight : call.id \in used
    /\ submitted \subseteq Bindings \X Cookies
    /\ revalidated \subseteq Bindings \X Cookies

\* FormatPlatformAccountID: the key a bind writes.
BoundKey(b, cookie) ==
    [kind |-> "binding", binding |-> b, account |-> AccountOf[cookie]]

\* BindingIDFromPlatformAccountID, against the binding of the ticket.
InScope(key, b) == key.binding = b

-----------------------------------------------------------------------------
(* Statements.                                                             *)

\* The rows an INSERT of row collides with, on any of the unique keys
\* binding_id, platform_account_id and (platform, account_id).
Colliding(row) ==
    {c \in credentials : \/ c.binding = row.binding
                         \/ c.key = row.key
                         \/ c.account = row.account}

\* ON DUPLICATE KEY UPDATE rewrites one colliding row; were there a second,
\* the rewritten row would collide with it, which is an error.
CredentialAccepted(row) == \A c, d \in Colliding(row) : c = d

\* Mutants: the columns the upsert rewrites do not include binding_id, the
\* blob, or last_refreshed_at.
SaveCredentialButBinding(row) ==
    (credentials \ Colliding(row)) \cup
        IF Colliding(row) = {} THEN {row}
        ELSE {[row EXCEPT !.binding = c.binding] : c \in Colliding(row)}
SaveCredentialButBlob(row) ==
    (credentials \ Colliding(row)) \cup
        IF Colliding(row) = {} THEN {row}
        ELSE {[row EXCEPT !.cookie = c.cookie] : c \in Colliding(row)}
SaveCredentialButRefreshed(row) ==
    (credentials \ Colliding(row)) \cup
        IF Colliding(row) = {} THEN {row}
        ELSE {[row EXCEPT !.refreshed = c.refreshed] : c \in Colliding(row)}

\* CredentialRepo.Save: the whole row, its binding_id included.
SaveCredential(row) == (credentials \ Colliding(row)) \cup {row}

\* DeviceRepo.Save: an upsert on (binding_id, device_id).
SaveDevice(row) ==
    {d \in devices : ~(d.binding = row.binding /\ d.device = row.device)}
        \cup {row}

SameRow(p, q) == /\ p.binding = q.binding
                 /\ p.ident = q.ident
                 /\ p.id = q.id

\* The unique keys of account_profiles: (binding, player, region) and one
\* default per binding.
UniqueProfiles(rows) ==
    \A p, q \in rows :
        p.binding = q.binding /\ p # q => /\ p.ident # q.ident
                                          /\ ~(p.default /\ q.default)

-----------------------------------------------------------------------------
(* Bind and Update: what bindPreparedCredential writes.                    *)

CallKey(call) == BoundKey(call.binding, call.cookie)

\* Mutant: a status the callers do not know.
BoundRowPending(call) ==
    [binding |-> call.binding, key |-> CallKey(call),
     account |-> AccountOf[call.cookie], cookie |-> call.cookie,
     status |-> "pending", refreshed |-> FALSE]

BoundRow(call) ==
    [binding |-> call.binding, key |-> CallKey(call),
     account |-> AccountOf[call.cookie], cookie |-> call.cookie,
     status |-> "active", refreshed |-> FALSE]

\* previousPlatformAccountID, as a set: the key of the credential the
\* snapshot showed, when it is another than the one being bound.
Replaced(call) == {c.key : c \in call.creds} \ {CallKey(call)}

\* The profiles the bind deletes: the previous account's, or its own.
Gone(call) == IF Replaced(call) # {} THEN Replaced(call) ELSE {CallKey(call)}

\* Mutant: the rows of the account are deleted, whichever binding's.
KeptByAccount(call) ==
    {p \in profiles : \A k \in Gone(call) : p.key.account # k.account}

Kept(call) == {p \in profiles : p.key \notin Gone(call)}

NewProfile(call, ident, default) ==
    [binding |-> call.binding, ident |-> ident, key |-> CallKey(call),
     default |-> default, id |-> call.id]

\* Mutant: the transaction's own DELETE is not seen.
VisibleAll(call) == call.rows

\* What the transaction's SELECTs still see after that DELETE: the rows of
\* its snapshot, without those it has deleted itself.  A row that another
\* transaction deleted since is still there to see.
Visible(call) ==
    {p \in call.rows :
        ~ \E q \in profiles : SameRow(p, q) /\ q.key \in Gone(call)}

\* saveDefaultProfile: UPDATE ... WHERE id = <the row seen>, which may touch
\* no row and is then not an error, or an INSERT when no row is seen.
SaveDefault(call, rows) ==
    LET seen == {p \in Visible(call) : p.ident = call.found[1]}
        hit(p) == \E q \in seen : SameRow(p, q)
    IN IF seen = {} THEN rows \cup {NewProfile(call, call.found[1], TRUE)}
       ELSE {IF hit(p) THEN [p EXCEPT !.key = CallKey(call), !.default = TRUE]
                       ELSE p : p \in rows}

\* ensureNoConflictingDefaultProfile on what is seen, then the unique keys
\* on what is there.
DefaultAccepted(call, rows) ==
    /\ \A p \in Visible(call) : p.default => p.ident = call.found[1]
    /\ UniqueProfiles(SaveDefault(call, rows))

\* ProfileRepo.Save of the other discovered profiles: upserts on
\* (binding_id, player_id, region).
SaveOthers(call, rows) ==
    LET others == {call.found[i] : i \in 2..Len(call.found)}
        hit(p) == p.binding = call.binding /\ p.ident \in others
    IN {IF hit(p) THEN [p EXCEPT !.key = CallKey(call), !.default = FALSE]
                  ELSE p : p \in rows}
       \cup {NewProfile(call, ident, FALSE) :
                ident \in {i \in others : ~ \E p \in rows : hit(p) /\ p.ident = i}}

SaveProfiles(call, rows) ==
    IF call.found = <<>> THEN rows ELSE SaveOthers(call, SaveDefault(call, rows))

\* DeleteMissingByBindingID; with nothing to keep, all of the binding's go.
DeleteMissing(b, keep, rows) ==
    {p \in rows : p.binding = b => p.ident \in keep}

\* pruneStaleProfiles, by Update only.
Prune(call, rows) ==
    IF call.op = "bind" THEN rows
    ELSE DeleteMissing(call.binding,
                       {call.found[i] : i \in DOMAIN call.found}, rows)

\* The credential and the device saved, the replaced account's deleted.
\* Mutants: the credential deleted by account, the devices not at all.
CredentialsAfterByAccount(call) ==
    {c \in SaveCredential(BoundRow(call)) :
        \A k \in Replaced(call) : c.account # k.account}

CredentialsAfter(call) ==
    {c \in SaveCredential(BoundRow(call)) : c.key \notin Replaced(call)}

BoundDevice(call) ==
    [binding |-> call.binding, device |-> call.device, key |-> CallKey(call)]

DevicesAfterNoDelete(call) == SaveDevice(BoundDevice(call))

\* Mutant: they are deleted as the profiles are, of the same account too.
DevicesAfterGone(call) ==
    {d \in SaveDevice(BoundDevice(call)) :
        d = BoundDevice(call) \/ d.key \notin Gone(call)}

DevicesAfter(call) ==
    {d \in SaveDevice(BoundDevice(call)) : d.key \notin Replaced(call)}

ProfilesAfter(call) == Prune(call, SaveProfiles(call, Kept(call)))

-----------------------------------------------------------------------------
(* Actions.                                                                *)

\* Rows earlier RPCs left, under a key of either kind.
SeedKey(kind, b, cookie) ==
    [kind |-> kind, binding |-> b, account |-> AccountOf[cookie]]
SeedCredential(kind, b, cookie) ==
    [binding |-> b, key |-> SeedKey(kind, b, cookie),
     account |-> AccountOf[cookie], cookie |-> cookie, status |-> "active",
     refreshed |-> FALSE]
SeedDevice(kind, b, cookie, device) ==
    [binding |-> b, device |-> device, key |-> SeedKey(kind, b, cookie)]
SeedProfile(kind, b, cookie, ident, default) ==
    [binding |-> b, ident |-> ident, key |-> SeedKey(kind, b, cookie),
     default |-> default, id |-> Earlier]

\* Each binding is unbound, or holds the credential, the device and the
\* profiles of an account of its own, the first profile default.
Seeded(bound, kind, cookie, device, found) ==
    /\ \A b, d \in bound : AccountOf[cookie[b]] = AccountOf[cookie[d]] => b = d
    /\ credentials = {SeedCredential(kind[b], b, cookie[b]) : b \in bound}
    /\ devices = {SeedDevice(kind[b], b, cookie[b], device[b]) : b \in bound}
    /\ profiles = UNION {
         {SeedProfile(kind[b], b, cookie[b], found[b][i], i = 1) :
             i \in DOMAIN found[b]} : b \in bound}
    /\ submitted = {<<b, cookie[b]>> : b \in bound}

Init ==
    /\ \E bound \in SUBSET Bindings :
       \E kind \in [bound -> Kinds], cookie \in [bound -> Cookies],
          device \in [bound -> Devices], found \in [bound -> Discoveries] :
            Seeded(bound, kind, cookie, device, found)
    /\ inflight = {} /\ used = {} /\ applied = {} /\ revalidated = {}

\* An RPC begins; call is what it knows when it first yields.
Start(call) ==
    /\ call.op \in Ops
    /\ call.id \notin used
    /\ Overlap \/ inflight = {}
    /\ used' = used \cup {call.id}
    /\ inflight' = inflight \cup {call}
    /\ UNCHANGED <<tables, applied, revalidated>>

\* An RPC ends with its writes made, whether or not its answer arrives.
Finish(call) ==
    /\ inflight' = inflight \ {call}
    /\ applied' = applied \cup {call.id}
    /\ UNCHANGED <<used, submitted>>

\* Bind: the upstream platform has accepted the cookie and listed profiles.
\* (Had it refused, the RPC would have ended without a trace.)
Bind(r, b, cookie, device, found) ==
    /\ Start([id |-> r, op |-> "bind", step |-> "prepared", binding |-> b,
              cookie |-> cookie, device |-> device, found |-> found,
              creds |-> {}, rows |-> {}])
    /\ submitted' = submitted \cup {<<b, cookie>>}

\* Update: the credential named by the key must exist, and the account the
\* upstream platform finds must give that very key.
Update(r, row, cookie, device, found) ==
    /\ row.key = BoundKey(row.key.binding, cookie)
    /\ Start([id |-> r, op |-> "update", step |-> "prepared",
              binding |-> row.key.binding, cookie |-> cookie,
              device |-> device, found |-> found, creds |-> {}, rows |-> {}])
    /\ submitted' = submitted \cup {<<row.key.binding, cookie>>}

\* The first SELECT of the transaction, GetByBindingID, fixes its snapshot.
TxnOpen(call) ==
    /\ call.op \in {"bind", "update"}
    /\ call.step = "prepared"
    /\ inflight' = (inflight \ {call}) \cup
         {[call EXCEPT !.step = "open",
                       !.creds = {c \in credentials : c.binding = call.binding},
                       !.rows = {p \in profiles : p.binding = call.binding}]}
    /\ UNCHANGED <<tables, used, applied, history>>

\* The writes of bindPreparedCredential (and of the prune) and the COMMIT.
TxnCommit(call) ==
    /\ call.op \in {"bind", "update"}
    /\ call.step = "open"
    /\ CredentialAccepted(BoundRow(call))
    /\ call.found # <<>> => DefaultAccepted(call, Kept(call))
    /\ credentials' = CredentialsAfter(call)
    /\ devices' = DevicesAfter(call)
    /\ profiles' = ProfilesAfter(call)
    /\ Finish(call)
    /\ UNCHANGED revalidated

\* Validate and Refresh read the row, then ask the upstream platform ...
Revalidate(r, op, row) ==
    /\ op \in {"validate", "refresh"}
    /\ Start([id |-> r, op |-> op, binding |-> row.binding, row |-> row])
    /\ UNCHANGED submitted

\* ... and save the row they read with the status that was found.
RevalidatedRow(call, status) ==
    [call.row EXCEPT
        !.status = status,
        !.refreshed = @ \/ (call.op = "refresh" /\ status = "active")]

RevalidateSave(call, status) ==
    /\ call.op \in {"validate", "refresh"}
    /\ CredentialAccepted(RevalidatedRow(call, status))
    /\ credentials' = SaveCredential(RevalidatedRow(call, status))
    /\ revalidated' = IF call.op = "refresh" /\ status = "active"
                      THEN revalidated \cup {<<call.binding, call.row.cookie>>}
                      ELSE revalidated
    /\ Finish(call)
    /\ UNCHANGED <<devices, profiles>>

\* Delete finds the binding's credential to be the one named ...
Delete(r, row) ==
    /\ InScope(row.key, row.binding)
    /\ Start([id |-> r, op |-> "delete", binding |-> row.binding,
              key |-> row.key])
    /\ UNCHANGED submitted

\* ... and then deletes whatever the binding holds, in one transaction.
DeleteWipe(call) ==
    /\ call.op = "delete"
    /\ credentials' = {c \in credentials : c.binding # call.binding}
    /\ devices' = {d \in devices : d.binding # call.binding}
    /\ profiles' = {p \in profiles : p.binding # call.binding}
    /\ Finish(call)
    /\ UNCHANGED revalidated

\* UpsertDevice reads the credential the key names, for its binding ...
UpsertDevice(r, row, device) ==
    /\ Start([id |-> r, op |-> "device", binding |-> row.binding,
              key |-> row.key, device |-> device])
    /\ UNCHANGED submitted

\* ... and saves the device, whether that credential is still there or not.
DeviceSave(call) ==
    /\ call.op = "device"
    /\ devices' = SaveDevice([binding |-> call.binding,
                              device |-> call.device, key |-> call.key])
    /\ Finish(call)
    /\ UNCHANGED <<credentials, profiles, revalidated>>

\* ConfirmPrimaryProfile finds a profile of the player under the key ...
Confirm(r, row) ==
    /\ InScope(row.key, row.binding)
    /\ Start([id |-> r, op |-> "confirm", binding |-> row.binding,
              key |-> row.key, player |-> PlayerOf[row.ident]])
    /\ UNCHANGED submitted

\* ... and in one transaction clears the binding's default and sets it on
\* the rows of that player: none is an error, two break the unique key.
Chosen(call, p) == /\ p.binding = call.binding
                   /\ p.key = call.key
                   /\ PlayerOf[p.ident] = call.player

\* Mutant: the default is cleared after it is set.
SetDefaultThenClear(call) ==
    {IF p.binding = call.binding THEN [p EXCEPT !.default = FALSE]
                                 ELSE p : p \in profiles}

SetDefault(call) ==
    {IF p.binding = call.binding THEN [p EXCEPT !.default = Chosen(call, p)]
                                 ELSE p : p \in profiles}

ConfirmSet(call) ==
    /\ call.op = "confirm"
    /\ \E p \in profiles : Chosen(call, p)
    /\ UniqueProfiles(SetDefault(call))
    /\ profiles' = SetDefault(call)
    /\ Finish(call)
    /\ UNCHANGED <<credentials, devices, revalidated>>

\* A statement or the upstream platform failed, the deadline passed or the
\* process died.  A transaction is rolled back, what bindPreparedCredential's
\* deferred clean-up writes included, since it writes in that transaction.
Fail(call) ==
    /\ inflight' = inflight \ {call}
    /\ UNCHANGED <<tables, used, applied, history>>

Begin ==
    \E r \in Requests :
        \/ \E b \in Bindings, cookie \in Cookies, device \in Devices,
              found \in Discoveries : Bind(r, b, cookie, device, found)
        \/ \E row \in credentials, cookie \in Cookies, device \in Devices,
              found \in Discoveries : Update(r, row, cookie, device, found)
        \/ \E row \in credentials :
              \/ \E op \in {"validate", "refresh"} : Revalidate(r, op, row)
              \/ Delete(r, row)
              \/ \E device \in Devices : UpsertDevice(r, row, device)
        \/ \E row \in profiles : Confirm(r, row)

Continue ==
    \E call \in inflight :
        \/ TxnOpen(call)
        \/ TxnCommit(call)
        \/ \E status \in Statuses : RevalidateSave(call, status)
        \/ DeleteWipe(call)
        \/ DeviceSave(call)
        \/ ConfirmSet(call)
        \/ Fail(call)

Next == Begin \/ Continue

Spec == Init /\ [][Next]_vars

-----------------------------------------------------------------------------
(* Safety.                                                                 *)

\* A key is what ties the rows of a binding together and what ScopeGuard
\* checks a ticket against: every row's key names the row's own binding,
\* after any interleaving and after a credential has changed hands.
KeysAgree ==
    \A row \in credentials \cup devices \cup profiles :
        InScope(row.key, row.binding)

\* The blob of a credential, its account id and its key speak of the same
\* account: a whole-row save of an old read, a rebind and a take-over by
\* another binding never mix two accounts in one row.
CredentialCoherent ==
    \A c \in credentials : /\ c.account = AccountOf[c.cookie]
                           /\ c.key.account = c.account

\* A binding only ever holds credential material that was submitted under
\* its own ticket, even when its row was another binding's before.
MaterialIsTheBindings ==
    \A c \in credentials : <<c.binding, c.cookie>> \in submitted

\* last_refreshed_at is only set on a row whose blob a refresh of that
\* binding found good: a bind of new material in between clears it.
RefreshedMeansRevalidated ==
    \A c \in credentials :
        c.refreshed => <<c.binding, c.cookie>> \in revalidated

\* The inductive invariant: each credential row is sound by itself ...
CredentialSound(c) ==
    /\ InScope(c.key, c.binding)
    /\ c.account = AccountOf[c.cookie]
    /\ c.key.account = c.account
    /\ <<c.binding, c.cookie>> \in submitted
    /\ c.refreshed => <<c.binding, c.cookie>> \in revalidated

\* ... and so is what each call still holds of rows that may be gone.
CallSound(call) ==
    /\ call.op \in {"bind", "update"} =>
         /\ <<call.binding, call.cookie>> \in submitted
         /\ \A c \in call.creds : InScope(c.key, call.binding)
         /\ \A p \in call.rows : p.binding = call.binding
    /\ call.op \in {"validate", "refresh"} =>
         call.row.binding = call.binding /\ CredentialSound(call.row)
    /\ call.op \in {"delete", "device", "confirm"} =>
         InScope(call.key, call.binding)

\* A running call, however old its reads, carries keys, material and rows of
\* its own binding only, and is the one call of a request that has not
\* written yet.
CallsAgree ==
    /\ \A call \in inflight : CallSound(call) /\ call.id \notin applied
    /\ \A c, d \in inflight : c.id = d.id => c = d

\* The calls whose writes this step makes.
Ending == {call \in inflight : call.id \in applied' \ applied}

\* Devices and profiles are deleted and updated by key, over the whole
\* table, by calls holding keys they read long before: none of it ever
\* touches a row of another binding than the caller's.
StayInBinding ==
    \A row \in devices \cup devices' \cup profiles \cup profiles' :
        \/ row \in devices \cup profiles /\ row \in devices' \cup profiles'
        \/ \E call \in Ending : call.binding = row.binding

StepsStayInBinding == [][StayInBinding]_vars

\* The account a call is about to store.
AccountStored(call) ==
    IF call.op \in {"bind", "update"} THEN {AccountOf[call.cookie]}
    ELSE IF call.op \in {"validate", "refresh"} THEN {call.row.account}
    ELSE {}

\* A binding's credential disappears or changes only by a call of that
\* binding, or by a call that stores the very account it held: the deletion
\* of a replaced account by key never reaches a binding that took it over.
KeptFromOthers ==
    \A c \in credentials \ credentials' :
        \E call \in Ending : \/ call.binding = c.binding
                             \/ c.account \in AccountStored(call)

CredentialsKeptFromOthers == [][KeptFromOthers]_vars

\* A bind or an update that commits leaves the first profile reported, under
\* its own key, as the one primary profile of the binding, whatever other
\* calls did since its snapshot: unless one of them replaced the very row
\* the snapshot showed for that profile.
PrimaryIsFirst ==
    \A call \in Ending :
        /\ call.op \in {"bind", "update"} /\ call.found # <<>>
        /\ \A p \in call.rows : p.ident = call.found[1] =>
              \E q \in profiles : SameRow(p, q)
        => \E p \in profiles' :
             /\ p.ident = call.found[1] /\ p.key = CallKey(call)
             /\ {q \in profiles' : q.binding = call.binding /\ q.default} = {p}

BindsSetPrimary == [][PrimaryIsFirst]_vars

\* No account that b submits is submitted by another binding.  (The upsert
\* hands the credential row of a disputed account over, and nothing else.)
Undisputed(b) ==
    \A s, t \in submitted :
        s[1] = b /\ AccountOf[t[2]] = AccountOf[s[2]] => t[1] = b

\* What a call found to be the binding's credential, and what it is now.
KeysRead(call) ==
    IF call.op \in {"bind", "update"} THEN {c.key : c \in call.creds}
    ELSE IF call.op \in {"validate", "refresh"} THEN {call.row.key}
    ELSE {call.key}
KeysHeld(b) == {c.key : c \in {c \in credentials : c.binding = b}}

\* The keys under which devices and profiles of b are left, b having no
\* credential of that key.
KeysLeft(b) ==
    {row.key : row \in {row \in devices \cup profiles : row.binding = b}}
    \ KeysHeld(b)

\* A device or profile is left without its credential only by a call of the
\* binding whose credential was changed after the call had read it: a device
\* saved after a delete or a rebind, a bind or revalidation that overtakes
\* another bind.  No other order of steps leaves any.
LeavesNone ==
    \A b \in Bindings : Undisputed(b)' =>
        \/ KeysLeft(b)' \subseteq KeysLeft(b)
        \/ \E call \in Ending : /\ call.binding = b
                                /\ KeysRead(call) # KeysHeld(b)

LeftOnlyByOvertaken == [][LeavesNone]_vars

(* Safety when RPCs do not overlap, whatever fails: Overlap = FALSE.       *)

\* No device or profile outlives the credential it was stored with: a
\* rebind, an update and a delete leave nothing of the previous account.
GraphFollowsCredential ==
    \A row \in devices \cup profiles : Undisputed(row.binding) =>
        \E c \in credentials : c.binding = row.binding /\ c.key = row.key

\* A binding with profiles has its default one, so GetPrimaryProfile never
\* falls back to the first row.
PrimaryExists ==
    \A p \in profiles : Undisputed(p.binding) =>
        \E q \in profiles : q.binding = p.binding /\ q.default

(* What the repository says and overlapping RPCs break.                     *)

\* RefreshCredential: "It does not rotate or replace credential material".
RefreshKeepsMaterial ==
    [][\A call \in Ending : call.op = "refresh" =>
           {<<c.binding, c.cookie>> : c \in credentials'} =
           {<<c.binding, c.cookie>> : c \in credentials}]_vars
=============================================================================
