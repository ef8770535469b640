----------------------------- MODULE TicketGate -----------------------------
(***************************************************************************)
(* Who may do what in platform-mihomo-service: the service ticket every    *)
(* RPC carries, the table consumer_grant_invalidations that takes grants   *)
(* back, the checks each RPC of the three gRPC services makes, and the     *)
(* table account_profiles, which a ticket confined to one profile is held  *)
(* against.                                                                *)
(*                                                                         *)
(* An RPC arrives, is verified (one SELECT of the grant table, for         *)
(* consumers only), is admitted or denied by what its ticket says, and     *)
(* then reads or writes, in one step or, where the code checks first and   *)
(* acts later, in two.  Other RPCs run between any of these steps.         *)
(*                                                                         *)
(* The credential of a binding is here its account, the profiles are whole *)
(* with their auto-increment ids, and a transaction is one step: what goes *)
(* wrong when transactions overlap is CredentialLifecycle's.  Devices,     *)
(* status, blobs, authkeys and legacy platform account ids are left out:   *)
(* an RPC that touches only these is known by its answer.                  *)
(***************************************************************************)
EXTENDS Naturals, Sequences

CONSTANTS
    Requests,      \* identities of RPCs; each is used for one call
    Bindings,      \* binding ids
    Accounts,      \* account ids the upstream platform knows
    Consumers,     \* consumers a binding is granted to
    Names,         \* consumer names, as far as MySQL tells them apart
    NameOf,        \* the name of a consumer under the table's collation
    Versions,      \* grant versions an invalidation may ask for
    Idents,        \* (player_id, region) identities of game profiles
    Players,       \* player ids
    PlayerOf,      \* the player of an identity
    Discoveries,   \* lists of identities the upstream platform may report
    OtherIds,      \* platform account ids that name no binding
    NoId,          \* no platform account id
    None,          \* no account, no consumer, no argument
    Offers         \* the requests in play, with the tickets they carry

Readers == {"Status", "Device"}
Revalidates == {"Validate", "Refresh", "GenericRefresh"}
Summaries == {"Summary", "GenericSummary", "SharedSummary"}
Deletes == {"Delete", "GenericDelete"}
ProfileReaders == {"ListProfiles", "GetPrimaryProfile", "GetAuthKey"}
Puts == {"Bind", "Update", "PutCredential"}
AllOps == Readers \cup Revalidates \cup Summaries \cup Deletes \cup ProfileReaders \cup Puts
          \cup {"Confirm", "Invalidate"}

Scopes == {"status.read", "profile.read", "profile.write", "authkey.issue",
           "credential.bind", "device.update", "credential.read_meta",
           "credential.update", "credential.refresh", "credential.delete",
           "consumer_grant.invalidate"}

\* A platform account id names its binding and account; other strings do not
\* parse, or name no binding.
Keys == [binding : Bindings, account : Accounts]
KeyArgs == Keys \cup OtherIds \cup {NoId}

\* valid stands for what VerifyContext asks of every ticket: signature, key
\* id, typ, issuer, audience, expiry, and the claims nobody may omit.  scopes
\* is allowed_actions, or scopes when that is empty.  profile is 0 for a
\* ticket that is not confined to a profile.
Ticket == [valid : BOOLEAN, actor : {"consumer", "user", "admin", "system"},
           consumer : Consumers \cup {None}, version : Nat,
           binding : Bindings, platform : {"mihomo", "other"},
           profile : Nat, scopes : SUBSET Scopes, key : Keys \cup {NoId}]

\* What the cookie of a bind turns out to be; what an invalidation asks.
Discovered == [account : Accounts, found : Discoveries]
Invalidation == [binding : Bindings, consumer : Consumers,
                 version : Versions]

\* What requests carry besides: the messages of Bind and Invalidate have no
\* platform account id.
ArgsOf(op) == CASE op \in Puts -> Discovered
                [] op \in {"GetAuthKey", "Confirm"} -> Players
                [] op = "Invalidate" -> Invalidation
                [] OTHER -> {None}
KeysOf(op) == IF op \in {"Bind", "Invalidate"} THEN {NoId} ELSE KeyArgs

Args == Discovered \cup Invalidation \cup Players \cup {None}
Request == [op : AllOps, ticket : Ticket, key : KeyArgs, arg : Args]

Injective(s) == \A i, j \in DOMAIN s : s[i] = s[j] => i = j

ASSUME GateAssumption ==
    /\ NameOf \in [Consumers -> Names]
    /\ PlayerOf \in [Idents -> Players]
    /\ Versions \subseteq Nat \ {0}
    /\ Discoveries \subseteq Seq(Idents)
    /\ \A found \in Discoveries : Injective(found)
    /\ \A req \in Offers : /\ req \in Request
                            /\ req.key \in KeysOf(req.op)
                            /\ req.arg \in ArgsOf(req.op)
    /\ None \notin Accounts \cup Consumers
    /\ NoId \notin Keys \cup OtherIds
    /\ OtherIds \cap Keys = {}

VARIABLES
    minimums,      \* minimum_grant_version by <<binding, name>>; 0: no row
    accounts,      \* the account of each binding's credential, or None
    profiles,      \* account_profiles
    lastId,        \* its auto-increment counter
    inflight,      \* the running RPCs
    used,          \* the requests issued
    invalidated,   \* history: <<binding, name, version>> stored
    born,          \* history: every profile as first inserted
    answers        \* history: what RPCs were answered

tables == <<minimums, accounts, profiles, lastId, invalidated, born>>
vars == <<minimums, accounts, profiles, lastId, inflight, used, invalidated,
          born, answers>>

-----------------------------------------------------------------------------
(* Rows and calls.                                                         *)

ProfileRow == [id : Nat, binding : Bindings, key : Keys, ident : Idents,
               default : BOOLEAN]

\* known: versions invalidated for the ticket's binding and consumer when the
\* RPC arrived.  gone: profile ids that were deleted by then.
Steps == {"arrived", "verified", "issue", "set", "save", "commit", "summary",
          "wipe"}
Call == [id : Requests, step : Steps, req : Offers,
         known : SUBSET Versions, gone : SUBSET Nat]

Results == {"ok", "unauthenticated", "revoked", "invalid", "denied",
            "foreign", "notfound", "mismatch", "conflict"}
Answer == [call : Call, result : Results, rows : SUBSET ProfileRow]

TypeOK ==
    /\ minimums \in [Bindings \X Names -> Nat]
    /\ accounts \in [Bindings -> Accounts \cup {None}]
    /\ profiles \subseteq ProfileRow
    /\ lastId \in Nat
    /\ inflight \subseteq Call
    /\ used \subseteq Requests
    /\ invalidated \subseteq Bindings \X Names \X Versions
    /\ born \subseteq ProfileRow
    /\ answers \subseteq Answer

-----------------------------------------------------------------------------
(* Verification.                                                           *)

\* The claims VerifyContext asks of a consumer besides.
Authentic(t) ==
    t.valid /\ (t.actor = "consumer" => t.consumer # None /\ t.version # 0)

\* Mutant: the highest of any consumer of the binding.
MinimumOfBinding(t) ==
    CHOOSE v \in {minimums[<<t.binding, n>>] : n \in Names} :
        \A n \in Names : minimums[<<t.binding, n>>] <= v
MinimumVersion(t) == minimums[<<t.binding, NameOf[t.consumer]>>]

\* Mutant: an off-by-one.
RevokedLate(t) ==
    /\ t.actor = "consumer"
    /\ MinimumVersion(t) > 0
    /\ t.version + 1 < MinimumVersion(t)
Revoked(t) ==
    /\ t.actor = "consumer"
    /\ MinimumVersion(t) > 0
    /\ t.version < MinimumVersion(t)

-----------------------------------------------------------------------------
(* The checks of the RPCs, each as its handler makes them.                 *)

\* RequirePlatformAccountID, RequireBindingWide, RequireProfile.
Within(t, k) == k \in Keys /\ k.binding = t.binding
BindingWide(t) == t.profile = 0
\* Mutant: any profile of the binding.
MineOfBinding(t, p) == p.binding = t.binding
Mine(t, p) == p.binding = t.binding /\ (t.profile # 0 => p.id = t.profile)

\* toScopeGuard and RequireAction.
ScopedGuard(t, s) == t.platform = "mihomo" /\ s \in t.scopes
ScopedGuardFor(t, k, s) == ScopedGuard(t, s) /\ Within(t, k)

BindAdmits(t) == ScopedGuard(t, "credential.bind") /\ BindingWide(t)
StatusAdmits(t, k) == ScopedGuardFor(t, k, "status.read") /\ BindingWide(t)
RefreshAdmits(t, k) ==
    ScopedGuardFor(t, k, "credential.refresh") /\ BindingWide(t)
ListAdmits(t, k) == ScopedGuardFor(t, k, "profile.read")
AuthKeyAdmits(t, k) == ScopedGuardFor(t, k, "authkey.issue")
SummaryAdmits(t, k) ==
    /\ ScopedGuard(t, "credential.read_meta")
    /\ Within(t, k) /\ BindingWide(t)
UpdateAdmits(t, k) ==
    ScopedGuard(t, "credential.update") /\ Within(t, k) /\ BindingWide(t)
DeleteAdmits(t, k) ==
    ScopedGuard(t, "credential.delete") /\ Within(t, k) /\ BindingWide(t)
DeviceAdmits(t, k) == ScopedGuardFor(t, k, "device.update") /\ BindingWide(t)
ConfirmAdmits(t, k) ==
    ScopedGuardFor(t, k, "profile.write") /\ BindingWide(t)

GenericSummaryAdmits(t, k) ==
    ScopedGuardFor(t, k, "credential.read_meta") /\ BindingWide(t)
SharedSummaryAdmits(t, k) ==
    ScopedGuardFor(t, k, "credential.read_meta") /\ BindingWide(t)
\* PutCredential binds when no platform account id is given.  Mutant: one
\* scope is enough for both.
PutAdmitsEither(t, k) ==
    /\ t.platform = "mihomo"
    /\ BindingWide(t)
    /\ k = NoId \/ Within(t, k)
    /\ t.scopes \cap {"credential.bind", "credential.update"} # {}
PutAdmits(t, k) ==
    /\ t.platform = "mihomo"
    /\ BindingWide(t)
    /\ \/ k = NoId /\ "credential.bind" \in t.scopes
       \/ k # NoId /\ "credential.update" \in t.scopes /\ Within(t, k)
GenericRefreshAdmits(t, k) ==
    ScopedGuard(t, "credential.refresh") /\ Within(t, k) /\ BindingWide(t)
GenericDeleteAdmits(t, k) ==
    ScopedGuard(t, "credential.delete") /\ Within(t, k) /\ BindingWide(t)
InvalidateAdmits(t, i) ==
    /\ t.actor \in {"admin", "user"}
    /\ t.binding = i.binding
    /\ ScopedGuard(t, "consumer_grant.invalidate") /\ BindingWide(t)

\* The generic service falls back on the platform account id of the ticket.
KeyOf(req) ==
    IF req.op \in {"GenericRefresh", "GenericDelete"} /\ req.key = NoId
    THEN req.ticket.key ELSE req.key

\* It is asked of those who have the right: neither names an account.
Unnamed(req) ==
    /\ KeyOf(req) = NoId
    /\ \/ /\ req.op = "GenericRefresh"
          /\ ScopedGuard(req.ticket, "credential.refresh")
       \/ /\ req.op = "GenericDelete"
          /\ ScopedGuard(req.ticket, "credential.delete")

Admits(req) ==
    LET t == req.ticket
        k == KeyOf(req)
    IN CASE req.op = "Bind" -> BindAdmits(t)
         [] req.op \in {"Status", "Validate"} -> StatusAdmits(t, k)
         [] req.op = "Refresh" -> RefreshAdmits(t, k)
         [] req.op \in {"ListProfiles", "GetPrimaryProfile"} -> ListAdmits(t, k)
         [] req.op = "GetAuthKey" -> AuthKeyAdmits(t, k)
         [] req.op = "Summary" -> SummaryAdmits(t, k)
         [] req.op = "Update" -> UpdateAdmits(t, k)
         [] req.op = "Delete" -> DeleteAdmits(t, k)
         [] req.op = "Device" -> DeviceAdmits(t, k)
         [] req.op = "Confirm" -> ConfirmAdmits(t, k)
         [] req.op = "GenericSummary" -> GenericSummaryAdmits(t, k)
         [] req.op = "SharedSummary" -> SharedSummaryAdmits(t, k)
         [] req.op = "PutCredential" -> PutAdmits(t, k)
         [] req.op = "GenericRefresh" -> GenericRefreshAdmits(t, k)
         [] req.op = "GenericDelete" -> GenericDeleteAdmits(t, k)
         [] req.op = "Invalidate" -> InvalidateAdmits(t, req.arg)

-----------------------------------------------------------------------------
(* Statements.                                                             *)

\* The upsert of GrantInvalidationRepo.  Mutant: the last one wins.
UpsertedLast(i) ==
    [minimums EXCEPT ![<<i.binding, NameOf[i.consumer]>>] = i.version]
Upserted(i) ==
    [minimums EXCEPT ![<<i.binding, NameOf[i.consumer]>>] =
        IF @ > i.version THEN @ ELSE i.version]

\* ORDER BY id: the first row of a list, as a set.
First(rows) == {p \in rows : \A q \in rows : p.id <= q.id}

\* GetByPlatformAccountID finds a credential.
Holds(k) == accounts[k.binding] = k.account

\* GetByBindingID, and the account found compared with the one named.
Found(b, k) ==
    IF accounts[b] = None THEN "notfound"
    ELSE IF k = [binding |-> b, account |-> accounts[b]] THEN "ok"
    ELSE "mismatch"

\* listScopedProfiles.
ScopedProfiles(t, k) ==
    {p \in profiles : p.binding = t.binding /\ p.key = k /\ Mine(t, p)}

\* The default one of a list, or else its first.
Primary(rows) ==
    LET default == {p \in rows : p.default}
    IN First(IF default # {} THEN default ELSE rows)

OfPlayer(k, player) ==
    {p \in profiles : p.key = k /\ PlayerOf[p.ident] = player}

BoundKey(b, arg) == [binding |-> b, account |-> arg.account]

\* The upsert of the credential collides with one row at most.
CredentialAccepted(b, account) ==
    accounts[b] = None \/ \A d \in Bindings \ {b} : accounts[d] # account

\* It takes a row that another binding holds.
AccountsAfter(b, account) ==
    [d \in Bindings |-> IF d = b THEN account
                        ELSE IF accounts[d] = account THEN None
                        ELSE accounts[d]]

\* A bind first deletes the profiles of the account it replaces, or else
\* those of its own.  Mutant: of whichever binding.
KeptByAccount(b, arg) ==
    LET replaced == accounts[b] \notin {None, arg.account}
        account == IF replaced THEN accounts[b] ELSE arg.account
    IN {p \in profiles : p.key.account # account}
Kept(b, arg) ==
    LET replaced == accounts[b] \notin {None, arg.account}
        k == IF replaced THEN [binding |-> b, account |-> accounts[b]]
             ELSE BoundKey(b, arg)
    IN {p \in profiles : p.key # k}

Stored(b, ident, arg) ==
    \E p \in Kept(b, arg) : p.binding = b /\ p.ident = ident

\* Mutant: ids of deleted rows are handed out again.
InsertedReused(b, arg) ==
    {[id |-> i, binding |-> b, key |-> BoundKey(b, arg),
      ident |-> arg.found[i], default |-> i = 1] :
        i \in {j \in DOMAIN arg.found : ~Stored(b, arg.found[j], arg)}}
Inserted(b, arg) ==
    {[id |-> lastId + i, binding |-> b, key |-> BoundKey(b, arg),
      ident |-> arg.found[i], default |-> i = 1] :
        i \in {j \in DOMAIN arg.found : ~Stored(b, arg.found[j], arg)}}

\* Rows that are still there keep their id.
Rewritten(b, arg) ==
    {IF p.binding = b /\ \E i \in DOMAIN arg.found : p.ident = arg.found[i]
     THEN [p EXCEPT !.key = BoundKey(b, arg),
                    !.default = p.ident = arg.found[1]]
     ELSE p : p \in Kept(b, arg)}

\* ensureNoConflictingDefaultProfile.
DefaultAccepted(b, arg) ==
    arg.found # <<>> =>
        \A p \in Kept(b, arg) :
            p.binding = b /\ p.default => p.ident = arg.found[1]

\* DeleteMissingByBindingID, by Update only.
Pruned(b, arg, rows) ==
    {p \in rows :
        p.binding = b => \E i \in DOMAIN arg.found : p.ident = arg.found[i]}

-----------------------------------------------------------------------------
(* Actions.                                                                *)

\* Bindings hold accounts earlier binds left; one of them found profiles.
Init ==
    /\ \E account \in [Bindings -> Accounts \cup {None}],
          b \in Bindings, found \in Discoveries :
         /\ \A c, d \in Bindings :
                account[c] = account[d] /\ account[c] # None => c = d
         /\ account[b] = None => found = <<>>
         /\ accounts = account
         /\ profiles = {[id |-> i, binding |-> b,
                         key |-> [binding |-> b, account |-> account[b]],
                         ident |-> found[i], default |-> i = 1] :
                            i \in DOMAIN found}
         /\ lastId = Len(found)
    /\ born = profiles
    /\ minimums = [bn \in Bindings \X Names |-> 0]
    /\ invalidated = {} /\ inflight = {} /\ used = {} /\ answers = {}

VersionsKnown(t) ==
    IF t.consumer = None THEN {}
    ELSE {v \in Versions : <<t.binding, NameOf[t.consumer], v>> \in invalidated}

Arrive(r, req) ==
    /\ used' = used \cup {r}
    /\ inflight' = inflight \cup
         {[id |-> r, step |-> "arrived", req |-> req,
           known |-> VersionsKnown(req.ticket),
           gone |-> {i \in 1..lastId : \A p \in profiles : p.id # i}]}
    /\ UNCHANGED <<tables, answers>>

Reply(call, result, rows) ==
    /\ inflight' = inflight \ {call}
    /\ answers' = answers \cup
         {[call |-> call, result |-> result, rows |-> rows]}
    /\ UNCHANGED used

Advance(call, step) ==
    /\ inflight' = (inflight \ {call}) \cup {[call EXCEPT !.step = step]}
    /\ UNCHANGED <<used, answers>>

\* VerifyContext.
Reject(call) ==
    /\ call.step = "arrived"
    /\ ~Authentic(call.req.ticket)
    /\ Reply(call, "unauthenticated", {})
    /\ UNCHANGED tables

RefuseRevoked(call) ==
    /\ call.step = "arrived"
    /\ Authentic(call.req.ticket) /\ Revoked(call.req.ticket)
    /\ Reply(call, "revoked", {})
    /\ UNCHANGED tables

Verify(call) ==
    /\ call.step = "arrived"
    /\ Authentic(call.req.ticket) /\ ~Revoked(call.req.ticket)
    /\ Advance(call, "verified")
    /\ UNCHANGED tables

\* PermissionDenied, or InvalidArgument for want of a platform account id.
Deny(call) ==
    /\ call.step = "verified"
    /\ ~Admits(call.req)
    /\ Reply(call, IF Unnamed(call.req) THEN "invalid" ELSE "denied", {})
    /\ UNCHANGED tables

Admitted(call, ops) ==
    call.req.op \in ops /\ call.step = "verified" /\ Admits(call.req)

\* GetCredentialStatus and UpsertDevice.
UseCredential(call) ==
    /\ Admitted(call, Readers)
    /\ Reply(call, IF Holds(KeyOf(call.req)) THEN "ok" ELSE "notfound", {})
    /\ UNCHANGED tables

\* ValidateCredential and RefreshCredential read a row, ask the upstream
\* platform, and save the row they read.
Revalidate(call) ==
    /\ Admitted(call, Revalidates)
    /\ IF Holds(KeyOf(call.req)) THEN Advance(call, "save")
                                 ELSE Reply(call, "notfound", {})
    /\ UNCHANGED tables

Save(call) ==
    LET k == KeyOf(call.req)
    IN /\ call.step = "save"
       /\ \/ /\ CredentialAccepted(k.binding, k.account)
             /\ accounts' = AccountsAfter(k.binding, k.account)
             /\ Reply(call, "ok", {})
          \/ /\ ~CredentialAccepted(k.binding, k.account)
             /\ Reply(call, "conflict", {})
             /\ UNCHANGED accounts
       /\ UNCHANGED <<minimums, profiles, lastId, invalidated, born>>

\* What a summary lists after the credential was found is left out.
ReadSummary(call) ==
    /\ Admitted(call, Summaries)
    /\ Reply(call, Found(call.req.ticket.binding, call.req.key), {})
    /\ UNCHANGED tables

\* ListProfiles and GetPrimaryProfile: a confined ticket that sees no profile
\* is told so.
ReadProfiles(call) ==
    LET seen == ScopedProfiles(call.req.ticket, call.req.key)
    IN /\ Admitted(call, {"ListProfiles", "GetPrimaryProfile"})
       /\ IF call.req.ticket.profile # 0 /\ seen = {}
          THEN Reply(call, "foreign", {})
          ELSE Reply(call, "ok", IF call.req.op = "ListProfiles" THEN seen
                                 ELSE Primary(seen))
       /\ UNCHANGED tables

\* RequireProfileAccessByPlayerID looks at the first row of the player only.
GetAuthKey(call) ==
    LET first == First(OfPlayer(call.req.key, call.req.arg))
    IN /\ Admitted(call, {"GetAuthKey"})
       /\ \/ first = {} /\ Reply(call, "notfound", {})
          \/ \E p \in first :
               IF Mine(call.req.ticket, p) THEN Advance(call, "issue")
                                           ELSE Reply(call, "foreign", {})
       /\ UNCHANGED tables

\* The authkey itself, from wherever AuthKeyArtifacts finds it.
IssueAuthKey(call) ==
    /\ call.step = "issue"
    /\ Reply(call, IF Holds(call.req.key) THEN "ok" ELSE "notfound", {})
    /\ UNCHANGED tables

\* ConfirmPrimaryProfile: the rows of the player, in the binding.
ToConfirm(call) ==
    {p \in OfPlayer(call.req.key, call.req.arg) :
        p.binding = call.req.ticket.binding}

Confirm(call) ==
    /\ Admitted(call, {"Confirm"})
    /\ IF ToConfirm(call) = {} THEN Reply(call, "notfound", {})
                               ELSE Advance(call, "set")
    /\ UNCHANGED tables

\* SetDefaultByBindingAndPlayerID: rolled back when no row is there any more,
\* and by the unique default when there are two.
SetDefault(call) ==
    /\ call.step = "set"
    /\ \/ /\ ToConfirm(call) = {}
          /\ Reply(call, "notfound", {})
          /\ UNCHANGED profiles
       \/ /\ \E p, q \in ToConfirm(call) : p # q
          /\ Reply(call, "conflict", {})
          /\ UNCHANGED profiles
       \/ \E p \in ToConfirm(call) :
          /\ ToConfirm(call) = {p}
          /\ profiles' = {IF q.binding = p.binding
                          THEN [q EXCEPT !.default = (q.id = p.id)] ELSE q :
                             q \in profiles}
          /\ Reply(call, "ok", {})
    /\ UNCHANGED <<minimums, accounts, lastId, invalidated, born>>

\* The transaction of a bind, or of an update, which prunes besides.
Transact(call, rows) ==
    LET b == call.req.ticket.binding
    IN /\ CredentialAccepted(b, call.req.arg.account)
       /\ DefaultAccepted(b, call.req.arg)
       /\ accounts' = AccountsAfter(b, call.req.arg.account)
       /\ profiles' = rows
       /\ lastId' = lastId + Len(call.req.arg.found)
       /\ born' = born \cup Inserted(b, call.req.arg)
       /\ UNCHANGED <<minimums, invalidated>>

RollBack(call) ==
    /\ ~(/\ CredentialAccepted(call.req.ticket.binding, call.req.arg.account)
         /\ DefaultAccepted(call.req.ticket.binding, call.req.arg))
    /\ Reply(call, "conflict", {})
    /\ UNCHANGED tables

BoundProfiles(call) ==
    Rewritten(call.req.ticket.binding, call.req.arg)
        \cup Inserted(call.req.ticket.binding, call.req.arg)

Binds(req) ==
    req.op = "Bind" \/ (req.op = "PutCredential" /\ req.key = NoId)

\* BindCredential, and PutCredential without a platform account id, which
\* goes on to read the summary.
Bind(call) ==
    /\ Admitted(call, {"Bind", "PutCredential"}) /\ Binds(call.req)
    /\ \/ RollBack(call)
       \/ /\ Transact(call, BoundProfiles(call))
          /\ IF call.req.op = "Bind" THEN Reply(call, "ok", {})
                                 ELSE Advance(call, "summary")

\* UpdateCredential, before its transaction.
Update(call) ==
    /\ Admitted(call, {"Update", "PutCredential"}) /\ ~Binds(call.req)
    /\ IF ~Holds(call.req.key) THEN Reply(call, "notfound", {})
       ELSE IF call.req.arg.account # call.req.key.account
       THEN Reply(call, "mismatch", {})
       ELSE Advance(call, "commit")
    /\ UNCHANGED tables

CommitUpdate(call) ==
    /\ call.step = "commit"
    /\ \/ RollBack(call)
       \/ /\ Transact(call, Pruned(call.req.ticket.binding, call.req.arg,
                                   BoundProfiles(call)))
          /\ Advance(call, "summary")

\* The summary both end with.
AnswerSummary(call) ==
    /\ call.step = "summary"
    /\ Reply(call, IF Binds(call.req)
                   THEN Found(call.req.ticket.binding,
                              BoundKey(call.req.ticket.binding, call.req.arg))
                   ELSE IF Holds(call.req.key) THEN "ok" ELSE "notfound", {})
    /\ UNCHANGED tables

\* DeleteCredentialWithScope: the account is compared, then the binding's
\* rows are deleted, whatever the account.
Delete(call) ==
    /\ Admitted(call, Deletes)
    /\ LET found == Found(call.req.ticket.binding, KeyOf(call.req))
       IN IF found = "ok" THEN Advance(call, "wipe") ELSE Reply(call, found, {})
    /\ UNCHANGED tables

\* Mutant: the platform account id is blanked, the row stays.
WipeBlank(call) ==
    /\ call.step = "wipe"
    /\ accounts' = [accounts EXCEPT ![call.req.ticket.binding] = NoId]
    /\ profiles' = {p \in profiles : p.binding # call.req.ticket.binding}
    /\ Reply(call, "ok", {})
    /\ UNCHANGED <<minimums, lastId, invalidated, born>>
Wipe(call) ==
    /\ call.step = "wipe"
    /\ accounts' = [accounts EXCEPT ![call.req.ticket.binding] = None]
    /\ profiles' = {p \in profiles : p.binding # call.req.ticket.binding}
    /\ Reply(call, "ok", {})
    /\ UNCHANGED <<minimums, lastId, invalidated, born>>

Invalidate(call) ==
    /\ Admitted(call, {"Invalidate"})
    /\ LET i == call.req.arg
       IN /\ minimums' = Upserted(i)
          /\ invalidated' = invalidated \cup
               {<<i.binding, NameOf[i.consumer], i.version>>}
    /\ Reply(call, "ok", {})
    /\ UNCHANGED <<accounts, profiles, lastId, born>>

\* An error, a deadline, a crash: what was committed stays.
Fail(call) ==
    /\ inflight' = inflight \ {call}
    /\ UNCHANGED <<tables, used, answers>>

Step(call) ==
    \/ Reject(call) \/ RefuseRevoked(call) \/ Verify(call) \/ Deny(call)
    \/ UseCredential(call) \/ Revalidate(call) \/ Save(call)
    \/ ReadSummary(call) \/ ReadProfiles(call)
    \/ GetAuthKey(call) \/ IssueAuthKey(call)
    \/ Confirm(call) \/ SetDefault(call)
    \/ Bind(call) \/ Update(call) \/ CommitUpdate(call) \/ AnswerSummary(call)
    \/ Delete(call) \/ Wipe(call)
    \/ Invalidate(call)
    \/ Fail(call)

Next ==
    \/ \E r \in Requests \ used : \E req \in Offers : Arrive(r, req)
    \/ \E call \in inflight : Step(call)

Spec == Init /\ [][Next]_vars

-----------------------------------------------------------------------------
(* Properties.                                                             *)

\* The scope of what an RPC does, whichever service it is called on.
RightOf(req) ==
    CASE req.op \in {"Status", "Validate"} -> "status.read"
      [] req.op \in {"Refresh", "GenericRefresh"} -> "credential.refresh"
      [] req.op \in Summaries -> "credential.read_meta"
      [] req.op \in {"ListProfiles", "GetPrimaryProfile"} -> "profile.read"
      [] req.op = "GetAuthKey" -> "authkey.issue"
      [] req.op = "Confirm" -> "profile.write"
      [] req.op = "Device" -> "device.update"
      [] req.op \in Deletes -> "credential.delete"
      [] req.op = "Invalidate" -> "consumer_grant.invalidate"
      [] Binds(req) -> "credential.bind"
      [] OTHER -> "credential.update"

\* A ticket entitles to an RPC when it has the scope, is of the binding the
\* RPC reaches, and is not confined to a profile, but to read of it.
Entitled(req) ==
    LET t == req.ticket
    IN /\ t.platform = "mihomo"
       /\ RightOf(req) \in t.scopes
       /\ t.profile = 0 \/ req.op \in ProfileReaders
       /\ IF req.op = "Invalidate"
          THEN t.binding = req.arg.binding /\ t.actor \in {"admin", "user"}
          ELSE Binds(req) \/ (KeyOf(req) \in Keys
                               /\ KeyOf(req).binding = t.binding)

\* The grant a ticket rests on was taken back before the RPC arrived.
Stale(call) ==
    /\ call.req.ticket.actor = "consumer"
    /\ \E v \in call.known : call.req.ticket.version < v

\* The minimum stored for a consumer is the highest ever asked for, in
\* whatever order the invalidations were made (the CASE of the upsert,
\* grant_invalidation_repo.go:33).
MinimumIsHighest ==
    \A b \in Bindings, n \in Names :
        LET m == minimums[<<b, n>>]
        IN /\ m = 0 \/ <<b, n, m>> \in invalidated
           /\ \A v \in Versions : <<b, n, v>> \in invalidated => v <= m

\* No RPC that arrived after its grant was taken back gets past verification
\* (ticket_verifier.go:118), whatever runs in between.
RevokedStaysRefused ==
    /\ \A call \in inflight : call.step # "arrived" => ~Stale(call)
    /\ \A a \in answers :
         a.result \notin {"unauthenticated", "revoked"} => ~Stale(a.call)

\* A consumer is refused as revoked only if its own binding asked for a higher
\* version of it, by the name MySQL compares (ticket_verifier.go:123).
RevokedForReason ==
    \A a \in answers :
        LET t == a.call.req.ticket
        IN a.result = "revoked" =>
             \E v \in Versions :
                 /\ t.version < v
                 /\ <<t.binding, NameOf[t.consumer], v>> \in invalidated

\* Three services and eighteen RPCs refuse exactly those their tickets do not
\* entitle: no way round a right by another service, and none denied twice.
\* That an account must be named is told only to who has the right.
DeniedUnlessEntitled ==
    \A a \in answers :
        /\ a.result \notin {"unauthenticated", "revoked"} =>
             (a.result \in {"denied", "invalid"} <=> ~Entitled(a.call.req))
        /\ a.result = "invalid" =>
             RightOf(a.call.req) \in a.call.req.ticket.scopes

\* What a ticket confined to a profile is shown is that profile, and the
\* authkey it gets is of that profile's player (RequireProfile).
ConfinedSeesOwn ==
    \A a \in answers :
        a.call.req.ticket.profile # 0 /\ a.result = "ok" =>
            /\ \A p \in a.rows : p.id = a.call.req.ticket.profile
            /\ \E p \in born : p.id = a.call.req.ticket.profile
            /\ \A p \in born :
                 p.id = a.call.req.ticket.profile =>
                     /\ p.binding = a.call.req.ticket.binding
                     /\ \A q \in a.rows : q.ident = p.ident
                     /\ \/ a.call.req.op # "GetAuthKey"
                        \/ PlayerOf[p.ident] = a.call.req.arg

\* A ticket whose profile row was deleted before the RPC arrived gets nothing,
\* whatever rows are inserted later (profile_repo.go:150, the auto-increment).
DeletedProfileRefused ==
    \A a \in answers :
        a.call.req.ticket.profile # 0 /\ a.result = "ok" =>
            a.call.req.ticket.profile \notin a.call.gone

\* What of a binding an RPC may change: its profiles, the minimum versions of
\* its consumers, and which account it holds (it may also lose the account to
\* another binding's bind, which is CredentialLifecycle's finding).
Changed(b) ==
    \/ {p \in profiles : p.binding = b} # {p \in profiles' : p.binding = b}
    \/ \E n \in Names : minimums[<<b, n>>] # minimums'[<<b, n>>]
    \/ accounts'[b] \notin {accounts[b], None}

\* Every change is made by an RPC of the binding, with a ticket that entitles
\* to it, is not confined, and was not taken back before the RPC arrived.
ChangesEntitled ==
    [][\A b \in Bindings : Changed(b) =>
          \E call \in inflight \ inflight' :
              /\ call.req.ticket.binding = b
              /\ Entitled(call.req)
              /\ call.req.ticket.profile = 0
              /\ ~Stale(call)]_vars
=============================================================================
