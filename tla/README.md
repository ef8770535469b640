# platform-mihomo-service in TLA+

A specification of the service that keeps mihomo credentials for the control
plane: what its RPCs do to MySQL and Redis, step by step, when they overlap and
fail; TLC configurations that check it on small instances; and proofs, checked
by TLAPS, of what holds for every instance.

## 1. The system

One process serves gRPC. Every RPC carries a *service ticket* (a signed JWT)
that names a *binding* (the tenant's link to one account of the platform), the
actions it allows, and possibly one profile it is confined to. There is no
in-memory state and no lock in the program: all state is in MySQL and Redis,
RPCs run concurrently, in one process or many, and meet there.

| Component | Source | State | Operations |
|---|---|---|---|
| Credential lifecycle | `usecase/bind_usecase.go`, `management_usecase.go`, `status_usecase.go`, `profile_usecase.go`; `data/credential_repo.go`, `device_repo.go`, `profile_repo.go`, `management_repo.go` | `credential_records`, `device_records`, `account_profiles` | Bind, Update, Validate, Refresh, Delete, UpsertDevice, ConfirmPrimaryProfile; the reads |
| Authkeys | `usecase/authkey_usecase.go`, `data/artifact_repo.go` | `runtime_artifacts`, its copy in Redis with a TTL | GetAuthKey (cache, row, upstream, Put), deletion by Bind, Update, Delete |
| Tickets, scopes, grants | `data/ticket_verifier.go`, `data/grant_invalidation_repo.go`, `usecase/scope_guard.go`, `service/*.go` | `consumer_grant_invalidations` | Verify, InvalidateConsumerGrant, the guards of each RPC |
| Upstream platform | `platform/mihomo/client.go` | none here | ValidateAndDiscover, IssueAuthKey |
| Encryption | `crypto/blob.go` | the blob column | EncryptString, DecryptString |
| Start-up | `cmd/platform-mihomo-service/main.go`, `conf`, `server/grpc.go`, `data/jwks_verifier.go` | the configuration of each process | validateBootstrap, main |
| Migrations | `initialize/migrate/sql` | the schema | up, down |

How they interact: a service method verifies the ticket (which reads the grant
table), builds a `ScopeGuard`, compares the binding in the *platform account id*
(`binding_<binding>_<account>`, or `hoyo_ref_<binding>_<account>` in old rows)
with the ticket's, and calls a use case; the use case reads, asks the upstream
platform, and writes. Bind and Update write in one transaction, Delete and
ConfirmPrimaryProfile in one each; every other read and write is on its own.

What is hard about it:

* a row read before the upstream call and saved whole after it (Validate,
  Refresh), an id looked up before a write that uses it (UpsertDevice), a check
  before the transaction it guards (Delete);
* InnoDB's REPEATABLE READ: in a transaction a SELECT sees the snapshot the
  first one took, an UPDATE or DELETE the current rows, so that a SELECT and the
  UPDATE made because of it may speak of different rows;
* `ON DUPLICATE KEY UPDATE`, which has no conflict target: it rewrites a row
  that collides on *any* unique key, also another binding's;
* links between tables are strings, deleted by string over the whole table;
* Redis is written outside the transaction, before its commit;
* DELETEs that scan an index lock its gaps, in another order in every handler, so
  that transactions deadlock; InnoDB rolls one of them back, and a handler that
  goes on does so without a transaction;
* the secret that seals the blobs is each process's own: one that restarts with
  another meets blobs it cannot open.

What makes each component correct:

* lifecycle: rows of one binding agree with one another and are changed by its
  own calls only; no row mixes two accounts; nothing of a replaced account
  stays; one default profile;
* authkeys: none crosses bindings; none outlives its credential or its expiry
  but by the races named in the hazards;
* tickets: the minimum grant version never goes down, a revoked consumer is
  refused from then on, every entry point asks for the same rights, a ticket
  confined to a profile reaches no other;
* start-up and encryption: a configuration that is accepted is enough for what is
  built from it; a status speaks of the blob it is stored with.

## 2. Modules

| Module | Content |
|---|---|
| `CredentialLifecycle` | the three tables and the RPCs that write them, step by step |
| `MCCredentialLifecycle` | values of its constants for TLC |
| `CredentialLifecycleProofs` | the theorems about it |
| `BindTransaction` | its transactions, statement by statement, with InnoDB's locks and deadlock victims; shown to implement `CredentialLifecycle` |
| `MCBindTransaction` | values of its constants for TLC |
| `BindTransactionLocks` | what is to be proved of its transactions at any moment: `WriteInv`, with the tables as parameters |
| `BindTransactionProofs` | the theorems about it: its own, and that it implements `CredentialLifecycle` |
| `LifecycleSerialProofs` | theorems about `CredentialLifecycle` when RPCs do not overlap |
| `LifecyclePromiseProofs` | the theorems about the summaries, and the refinement proof |
| `CredentialSummary` | the three SELECTs of a summary beside the RPCs that write |
| `BindingPromise` | abstract: what the owner of a binding is promised |
| `LifecyclePromise` | the mapping by which `CredentialLifecycle` implements it |
| `MCLifecyclePromise` | both of these for TLC |
| `AuthKeyArtifacts` | `runtime_artifacts`, Redis, a clock, and the RPCs that fill and empty them |
| `MCAuthKeyArtifacts` | values of its constants for TLC |
| `AuthKeyArtifactsProofs` | the theorems about it |
| `AuthKeySerialProofs` | theorems about it when RPCs do not overlap |
| `TicketGate` | tickets, the grant table, the checks of the eighteen RPCs, and the profiles a ticket may be confined to |
| `MCTicketGate` | values of its constants for TLC: the requests in play for each question |
| `TicketGateProofs` | the theorems about it |
| `Deployment` | processes with their configurations, starting, stopping and crashing over one table of sealed blobs |
| `MCDeployment` | configurations for TLC: two good ones, and each way of spoiling one |
| `DeploymentProofs` | the theorems about it |

`BindTransaction`, `CredentialSummary` and `LifecyclePromise` extend
`CredentialLifecycle` and take its tables and calls as they are. The other components are
separate: each keeps of the tables what its properties need, and takes from the others
what they establish. `AuthKeyArtifacts` and `TicketGate` have a credential as one value
and a bind as one step of it; how such steps go wrong when transactions overlap is the
subject of `CredentialLifecycle`, and why the writes of a transaction may be taken as one
step that of `BindTransaction`.

### CredentialLifecycle

A table is a set of rows, with the columns that the properties tell apart:

* `credentials`: binding, key (the platform account id as a record of kind,
  binding and account), account, cookie (standing for the encrypted blob),
  status, and whether `last_refreshed_at` is set;
* `devices`: binding, device, key. `profiles`: binding, identity (player and
  region), key, default, and the auto-increment id, which is here the request
  that inserted the row: a row deleted and inserted again is another row;
* `inflight`: one record per running RPC, with what it has read so far and
  will use; `used` and `applied` are the requests issued, and those whose writes
  were made; `submitted` and `revalidated` are history, for the properties.

An RPC begins in one action (ticket accepted, row found, upstream platform
asked) and writes in another, because the code lets other RPCs in between:

| RPC | actions | code |
|---|---|---|
| BindCredential, PutCredential | `Bind`, `TxnOpen`, `TxnCommit` | `prepareBindCredential`; the first SELECT of the transaction; all its writes and the commit |
| UpdateCredential | `Update`, `TxnOpen`, `TxnCommit` | the same, with `pruneStaleProfiles` |
| ValidateCredential, RefreshCredential | `Revalidate`, `RevalidateSave` | `getCredential`; `revalidate` after the upstream call |
| DeleteCredential | `Delete`, `DeleteWipe` | the check; `DeleteCredentialGraphByBindingID` |
| UpsertDevice | `UpsertDevice`, `DeviceSave` | the lookup; the upsert |
| ConfirmPrimaryProfile | `Confirm`, `ConfirmSet` | the lookup; `SetDefaultByBindingAndPlayerID` |
| any of them | `Fail` | an error, a deadline, a crash, before the commit |

Assumed of MySQL, from how the code uses it: the isolation level is the default,
REPEATABLE READ (the code sets none); an upsert rewrites one colliding row and
fails if there is a second; the row a transaction writes stays locked until it
ends. All writes of a bind are one step (`TxnCommit`); that locks make them so is
checked, not assumed, in `BindTransaction`. A retry of a failed RPC is another request.

Assumed of the upstream platform: a cookie belongs to one account, and a list of
profiles names each (player, region) once.

### BindTransaction

Adds one variable, `txns`: the open transactions, each with its call, the statement it is
at, what it has deleted and written of each table, and the locks it holds. Committed
tables are `CredentialLifecycle`'s, and change at `Commit` only.

| Action | code |
|---|---|
| `Open`, `Enter` | BEGIN, and the SELECT that fixes the snapshot of a bind |
| `Statement` | the next of `BindStatements`, `DeleteStatements`, `ConfirmStatements`: it waits while another transaction holds a row it locks or the gap it inserts into |
| `Error`, `Rejected` | a statement fails (for no reason of the model's, or for a duplicate or a conflicting default); `bindPreparedCredential`, once the credential is saved, runs its deferred clean-up, still in the transaction (`CleanUp`) |
| `Rollback`, `Commit` | `Transaction` ends what it began |
| `Victim` | InnoDB rolls one of a ring of waiting transactions back; the clean-up goes on, and is `detached` |
| `CleanUpAlone`, `PassOver` | a statement of a detached clean-up, which commits by itself; one that fails and is ignored |
| `SaveAlone`, `SaveRejected` | the single-statement RPCs, which wait for locks as well |
| `Abandon` | the caller, the deadline or the process ends it |

Locks, as far as these statements tell them apart: the unique values of a credential row,
the rows of `device_records` and `account_profiles`, and the gaps of their indexes on
`platform_account_id` and `binding_id` that a DELETE or UPDATE scans; in the unique indexes
of `credential_records`, where a search for a row that is there locks no gap, the gap of a
search that finds none (`Missing`). `Near` computes a
gap from the entries there are and the order of the values (`KeyRank`, `BindingRank`).
The last of these is needed: without it, of two deletes and a refresh of one binding, the
refresh's upsert may put the credential back between the second delete's statement, which
found none, and its commit, which then is no `DeleteWipe`.
Left out: artifacts (the binding has none), gap locks of an
INSERT that meets a duplicate, and the queue of waiters (any may be next); fewer locks
only allow more interleavings, so what `Implements` says would stand with them. Deadlocks
there may be more of, with the end that those modelled have.

### CredentialSummary, BindingPromise, LifecyclePromise

`CredentialSummary` adds the summaries being read: each has the credential, then the
devices, of earlier moments when it reads the profiles. `GetCredentialSummary` reads by the
binding of its ticket, the answer of an update by platform account id. The three services
give the same rows in messages of their own.

`BindingPromise` knows no rows, keys or transactions: the credential `held` (none or one),
the devices `known`, the profiles `listed` and the `primary` one of a binding, and the RPC
that is `pending`. Its steps are `Ask` and `End`. An RPC ends with its own effect and that
of no other: `Bound` (an update keeps every device, a bind those of the same account),
`Revalidated` (the status, and nothing else), `DeviceSeen`, `PrimaryChosen`, `Deleted`; or
it has failed, and nothing is changed. `LifecyclePromise` maps these to the rows that carry
the id of one binding, `Owner`, and to its calls in `inflight`; snapshots, and all steps of
other bindings, are stutters. It cannot hold when calls of a binding overlap, for
the reasons section 3 gives.

### AuthKeyArtifacts

* `credential`: of each binding, its cookie or `None`. The graph around it is
  `CredentialLifecycle`'s; that a row found by its platform account id is the row
  of the binding named in it is `KeysAgree` there.
* `artifacts`: the committed rows (binding, player, authkey, expiry). An authkey is
  known by the cookie and the player it was issued for.
* `cache`: the Redis entries by binding and player, each with the whole artifact,
  as the JSON has it, and the time its TTL ends.
* `now`: one clock for the service, MySQL and Redis.
* `inflight`, `used`; `submitted` and `answers` are history.

| RPC | actions | code |
|---|---|---|
| GetAuthKey | `GetAuthKey`, then `CacheHit` or `CacheMiss`, `RowFound` or `RowMissing`, `Fill` or `FillSkipped`; `Issue`, `PutRow`, `Store` or `StoreUnanswered` | the credential read; GET; SELECT; SET, whose failure is ignored; the upstream call; INSERT; SET, whose failure fails the RPC |
| Bind, Update, Delete | `Bind` or `Delete`, `Open`, `Sweep`, `Purge`, `Commit` | the upstream call or the check; the first SELECT of the transaction, which fixes what `recordsForBindingCacheDeletion` sees; DELETE; DEL; the rest and the COMMIT |
| Validate, Refresh | `Revalidate`, `RevalidateSave` | they change the credential and leave artifacts alone |
| any of them | `Fail` | rolls a transaction back, but no command already sent to Redis |

The TTL is computed before the SET is sent: `Store` and `Fill` take it at any time
`at` since the artifact was last looked at, `SetDelay` ago at most (go-redis gives
up on a command after its write timeout). A DELETE by binding id locks the rows
and the gap, so `PutRow` waits for a transaction that has swept its binding;
of two that sweep an empty gap neither waits. Update is a Bind here: what it
adds concerns profiles.

### TicketGate

* `minimums`: `minimum_grant_version` by binding and consumer name, 0 for no row.
  `NameOf` says which consumers MySQL takes for the same name: the table's
  collation, `utf8mb4_unicode_ci`, ignores case, Go does not.
* `accounts`: the account of each binding's credential. `profiles` and `lastId`:
  the rows of `account_profiles`, and the auto-increment counter.
* `inflight`: one record per running RPC, with its step and its request; `known` and
  `gone` note what had been invalidated and deleted when it arrived, for the
  properties. `invalidated`, `born` (profiles as inserted) and `answers` are history.

A request is one of the eighteen RPCs that carry a ticket, a ticket, a platform
account id and an argument. Which requests exist is the constant `Offers`: each run
takes those its question is about, the proofs take any.

| RPC | actions after `Arrive` and `Verify` | code |
|---|---|---|
| all | `Reject`, `RefuseRevoked`, `Verify` | `VerifyContext` |
| all | `Deny` (`Admits`, one operator per handler) | `toScopeGuard`, `RequireAction`, `RequirePlatformAccountID`, `RequireBindingWide`, in the handler or in the use case |
| GetCredentialStatus, UpsertDevice | `UseCredential` | the lookup by platform account id |
| ValidateCredential, RefreshCredential (two services) | `Revalidate`, `Save` | the row read, and saved after the upstream call |
| GetCredentialSummary (three services) | `ReadSummary` | `GetByBindingID` and the comparison |
| ListProfiles, GetPrimaryProfile | `ReadProfiles` | `listScopedProfiles` |
| GetAuthKey | `GetAuthKey`, `IssueAuthKey` | `RequireProfileAccessByPlayerID`; the credential read |
| ConfirmPrimaryProfile | `Confirm`, `SetDefault` | the lookup; the transaction |
| BindCredential, PutCredential without an id | `Bind` (`AnswerSummary`) | the transaction; the summary |
| UpdateCredential, PutCredential with one | `Update`, `CommitUpdate`, `AnswerSummary` | lookup and upstream call; the transaction; the summary |
| DeleteCredential (two services) | `Delete`, `Wipe` | the check; the transaction |
| InvalidateConsumerGrant | `Invalidate` | the upsert |
| any of them | `Fail` | an error, a deadline, a crash |

What a ticket is asked besides (signature, key id, issuer, audience, expiry, claims
nobody may omit) is its flag `valid`. Platform account ids are of the current form;
the legacy form names the binding in the same way, and no credential is found under it
here. Requests are well formed: what is refused as `InvalidArgument` before the ticket is
looked at is left out. Refresh and Delete of the generic service without a platform account
id, neither of their own nor of the ticket, are refused as `"invalid"` and not as `"denied"`
(`Unnamed`). Profile ids are not used
again: MySQL 8, which the repository's compose file and workflow run, keeps the counter
over restarts.

### Deployment

* `process`: of each process its configuration, or `Down`. `Start` has `validateBootstrap`
  as its guard; the other ways main can stop (no file, no driver) leave no trace.
* `rows`: of each credential the cookie, the secret it was sealed with, and the status.
  A blob is these two: AES-GCM opens it under its secret and no other.
* `calls`: binds after `prepareBindCredential`, revalidations after the row was read and
  opened; `verdicts`, history, is what the platform said of which cookie.

`Bind`, `BindSave`; `Revalidate`, `RevalidateSave` (the whole row it read, with the
status); `Delete`; `Fail`; `Stop` takes a process's RPCs with it. `Accepts` is what
`VerifyContext` makes of key id, signature and issuer, with the resolver main builds:
an issuer that is empty would not be compared, which only `Valid` rules out. Any error of
the platform client that `classifyCredentialStatus` does not know is `"error"`, the answer
of the `UnconfiguredClient` that main wires today included; binds that are accepted are of
a client that is configured.

## 3. What is checked

Every violation run states what a comment or a test says, and TLC
finds steps of the code that do otherwise; `PROJECT.json` quotes both sides.

| Run | Checks | Shows |
|---|---|---|
| `overlap` | `KeysAgree`, `CredentialCoherent`, `MaterialIsTheBindings`, `RefreshedMeansRevalidated`, `CallsAgree`, `StepsStayInBinding`, `CredentialsKeptFromOthers`, `BindsSetPrimary`, `LeftOnlyByOvertaken`, `TypeOK` | with overlapping RPCs of two bindings that compete for two accounts: no row of one binding under another's id, no mixed row, no material that was not submitted for the binding, no row of another binding touched by the deletions over the whole table; what running calls remember is as sound as what is stored; a bind that commits leaves its first profile as the one primary, unless another call replaced the very row its snapshot showed for it; a device or profile is left without its credential only by a call of a binding that was rebound or deleted since the call read it |
| `serial` | `GraphFollowsCredential`, `PrimaryExists`, `SummariesShowOneAccount`, `KeepsPromise`, `SummaryTypeOK` | with one RPC at a time, any of which may fail: no device or profile outlives its credential, if no other binding submits the same account (`Undisputed`), a binding with profiles has a default one, no list of a summary mixes accounts or lacks its one primary whatever write falls in between, one that no write fell into shows the credential's own, and each RPC changes what `BindingPromise` says it does, nothing else, and nothing when it fails |
| `refresh_keeps_material` | violated | Refresh writes back the blob it read over the one bound meanwhile |
| `transactions` | `Implements`, `LocksHaveCallers`, `EveryCallEnds` | two RPCs of one binding or of two, statement by statement and with fairness: what becomes public is a step of `CredentialLifecycle`, save for the clean-up of a deadlock victim; no transaction outlives its RPC; each RPC ends, whatever locks the other holds |
| `failed_bind` | violated | a bind of one binding and a rebind of another deadlock over gaps; the victim's clean-up deletes what it had bound before |
| `artifacts_overlap` | `AuthKeysStayInBinding`, `ServedUnexpired`, `TypeOK` | three RPCs of two bindings that overlap and fail anywhere: an authkey is stored, cached and answered only for a binding its cookie was submitted for, and found ones are unexpired but for the delay of a SET |
| `artifacts_serial` | `ArtifactsAreCurrent`, `CacheMirrorsRows`, `IssuedOnce`, and `AuthKeysStayInBinding` between two players | four RPCs, one at a time, failing at any statement (a DEL sent and rolled back, a SET that was made and reported failed, a GET that fails on a hit): both stores hold authkeys of the current credential, Redis nothing live that MySQL has not, and no authkey is issued while one is stored |
| `rebound_means_invalidated` | violated | an authkey of the replaced account is found after a rebind: it was asked for before and stored after; or its SET came after the rebind's DEL; or its row was inserted after the snapshot from which the keys to delete were read. TLC prints the shortest; each order breaks it alone |
| `gate_grants` | `MinimumIsHighest`, `RevokedStaysRefused`, `RevokedForReason`, `ChangesEntitled` | invalidations in any order, and two bindings that compete for one account through two services: minimums never go down, a consumer that arrives after its grant was taken back is refused and changes nothing, none is refused because of another binding's or another name's invalidation, and each binding changes by its own entitled calls only (it may lose its account to the other, see below) |
| `gate_profiles` | `TypeOK`, `ConfinedSeesOwn`, `DeletedProfileRefused` | a ticket confined to a profile sees that profile and gets its player's authkey, whatever binds, refreshes, updates, deletes and confirmations run between its steps, and nothing once the row is deleted |
| `gate_rights` | `DeniedUnlessEntitled` | the handlers agree: an RPC is denied when, and only when, its ticket lacks the right, names another binding or platform, or is confined; `"invalid"` is what the two RPCs with no id to act on answer instead |
| `deployment` | `RunningMeansReady`, `StatusIsAboutTheBlob`, `RetiredSecretsStayRetired`, `DeploymentTypeOK` | two processes and eleven configurations: what start-up accepts suffices, no status is about another cookie or about a blob that did not open, no secret comes back into use |

The serial runs are serial because the code does not keep those properties otherwise. With
overlap, a call may write or leave a row after another call has removed what it belongs to: a
device saved after a delete or a rebind, the device and profile of an account bound after a
bind's snapshot, a row revalidated after another account was bound, an entry a SET makes after a
DEL. `LeftOnlyByOvertaken` says of the three tables that these are all there is: what a step
leaves is left by a call of that binding which had read another credential than the one it now
finds. What such rows never do is cross bindings, and that is what the other properties of the
overlapping runs check.

Of overlap the models also show, without a run of its own: a bind of an account that
another binding holds takes that binding's row (`Colliding`), and a second bind of a binding
may leave out the default profile it reports, when `SaveDefault` finds a row in its
snapshot that is gone (`BindsSetPrimary` says that this is the only way to lose it); and a
delete takes an account bound after it compared the one it was given, since `DeleteWipe` goes by
binding id.

Bounds of the lifecycle runs. Three requests: the shortest counterexamples above need two, and three
allow a call to span two others (a delete between the read and the write of
a refresh while a second binding takes the account over). Two bindings, because
what goes wrong between bindings goes wrong between two. Two accounts, so that a
binding may change its account (`c1`, `c3`). `overlap` has a third cookie, so that
material of one account is renewed (`c1`, `c2`), two devices, so that one may be left, and one list
of two.
`serial` has two cookies, one binding, two devices and lists of zero, one and
two profiles, one of them with a player in two regions. One status stands for the three a failure is classified as: no
guard of the code reads it. Initial states are all tables that earlier binds
leave, under keys of either kind. Requests are symmetric, and in `overlap` the devices and the two
cookies of one account.

The summary of `serial` may be read at any point, by one reader, since summaries change
nothing.

The violation runs have the RPCs they are about and two requests (`refresh_keeps_material`
three, of which its counterexample needs two); one binding and two accounts, or two bindings for
`failed_bind`.

Bounds of the transaction runs. Two requests: InnoDB's ring may have more members, but two is
where it begins. `transactions` has two bindings, of which both calls may be of one, so that both
orders of locks meet in it; one account, which the bindings dispute, and whose legacy key gives a
rebind something to replace; two devices (one of a replaced key and a new one), a list of one
profile, and no symmetry, which liveness does not allow. A second account and longer lists make
the run too long for what they add: `ImplementsLifecycle` is proved for every number of either.

Bounds of the artifact runs. `artifacts_overlap` has three requests, so that a
GetAuthKey can overlap a rebind and another GetAuthKey follow; two bindings, which
compete for the accounts; one player, lifetimes of 1 and a clock to 2, so that
entries, rows and the calls that look at them expire. `artifacts_serial` has four
requests (issue, find, rebind or delete, look again), two players, whose entries
must not be taken for one another, lifetimes of 1 and 2 and the same clock.
`SetDelay` is 1: a SET may be a whole lifetime late.

Bounds of the gate runs. `gate_rights` has one request, because whom an RPC denies depends
on its request alone, and all that matters of it: 18 RPCs; each scope, all and
none; confined or not; forged, of another platform, of each kind of actor; the ids of
both bindings and accounts, one that does not parse, none, and the ticket's own.
`gate_grants` has three requests (two invalidations in either order and a consumer
between or after them), two versions, two bindings, three consumers of which two
share a name, and one account, which the consumer binds for the first binding and
its owner for the second. `gate_profiles` has three requests, so that two writers fall between
the steps of a reader, lists of zero and two identities, two of them of one player id,
and tickets confined to any of four ids: those there from the start, and those the
next bind or the one after it hands out. An RPC that was verified before an invalidation may finish
after it: the code reads the minimum once, and `Stale` is about RPCs that arrive later.

Bounds of `deployment`. Two processes that may disagree, two secrets, two ticket keys and a
spoiled configuration for each check of `validateBootstrap`; four requests, so that a bind, a
rebind and a revalidation can span a restart; one binding, since rows of two do not meet here.

Deadlock is not checked: each request is used once, so the model stops when all
are used. Deadlocks of the database are not such stops: `Victim` breaks them, and
`EveryCallEnds` says that it is enough.

Fairness is stated in `BindTransaction` only: weak fairness of each request's own
progress (`ProgressOf`: the next statement, the commit, the roll-back, the clean-up). The
code justifies it: each RPC is a goroutine, which Go schedules; a wait for the platform ends
with its answer or with the timeout `NewGRPCServer` sets; InnoDB hands a lock on when its
holder ends, and looks for deadlocks by itself. Nothing is fair about `Error`,
`Abandon` and `PassOver`: an RPC must end without being cut off. Elsewhere no liveness is
claimed: a request may be dropped at any point, nothing in the program retries, and there
is no background work that would have to finish.

## 4. What is proved

`CredentialLifecycleProofs`, for every set of requests, bindings, accounts,
cookies, devices, identities and lists, overlapping or not, from
`LifecycleAssumption` only (a cookie has one account, an identity one player, a
list has no duplicates; the rest types the constants):

* `TypeCorrect`: `Spec => []TypeOK`.
* `InvariantHolds`: `Spec => []IInv`, the inductive invariant. The
  properties are not inductive alone: a call writes what it read long ago, so
  `IInv` says of each credential row (`CredentialSound`) *and of each row or key
  a running call carries* (`CallSound`) that it is sound by itself: the key names
  the binding, the blob's account is the key's, the history knows the material.
  History only grows, so what was sound when read is sound when written
  (`SoundStays`). No relation between two rows is needed, which is why none is
  lost when rows change hands.
* `KeysAlwaysAgree`, `CredentialsCoherent`, `MaterialSubmitted`,
  `RefreshedRevalidated`, `CallsAlwaysAgree` follow from it.
* `PrimaryIsSet`: `Spec => BindsSetPrimary`, for calls that overlap. Only a commit ends
  a bind (`EndingWrites`). `CommitSetsPrimary` takes its profiles apart: the default is saved
  under the id the snapshot showed, if that row is there still or there was none, and the
  DELETE before it and the check for a conflicting default leave no second one.
* `OnlyOvertakenLeave`: `Spec => LeftOnlyByOvertaken`, for calls that overlap. A bind deletes the
  rows of the key it found and stores under its own (`BindCredential`, `ProfilesKeys`,
  `BindLeaves`); a revalidation and a device put back or use the key the binding has, if that is
  the one they read; nothing of another binding is touched (`OthersKept`), unless the account is
  disputed.
* `CredentialsKept` and `StaysInBinding` are action properties: each write is
  taken apart (`ProfilesElsewhere`, `SaveDeviceElsewhere`, `ElsewhereKept`) and
  shown to leave the rows of other bindings alone, since by `IInv` whatever is
  deleted by key is of the caller's binding.

`AuthKeyArtifactsProofs`, for every set of requests, bindings, cookies and players,
every lifetime and every bound of the clock, from `ArtifactsAssumption` (a cookie
has one account, times are naturals, `None` is no cookie):

* `TypeCorrect`, and `InvariantHolds` with `IInv == TypeOK /\ Own /\ Timely`. `Own`
  adds to `AuthKeysStayInBinding` what the running calls carry (`CallOwn`): the
  cookie read long ago and the artifact about to be stored are of the call's
  binding and player. `Timely` adds to `ServedUnexpired` that an entry ends
  `SetDelay` after its artifact at most, and that an artifact to be answered from
  a row was unexpired when its call began (`CallTimely`).
* `AuthKeysOwned` and `FoundUnexpired` follow.

`TicketGateProofs`, for every set of requests, tickets, bindings, accounts, consumers,
versions and lists of profiles, and any collation, from `GateAssumption` (it types the
constants; a list has no duplicates; `None`, `NoId` and the ids that name no binding
are none of the others):

* `AdmitsTheEntitled`, a lemma without any state: each handler's conjunction of guards
  is equivalent to one definition of who is entitled. `DeniedEntitled` rests on it.
* `InvariantHolds`, with an `IInv` that says of each running RPC what its checks
  established (`CallSound`) and of each answer what it was given on (`AnswerSound`), in
  terms that other RPCs cannot undo: histories grow, and an id that is not in the table
  and not beyond the counter never comes back (`Grown`). The row a confined ticket was
  checked against may be gone when the authkey is issued; that it was the ticket's
  (`Owns`) stays true of `born`. `Identified` ties rows to `born`.
* `TypeCorrect`, `MinimumHighest`, `RevokedRefused`, `RevokedReason`, `DeniedEntitled`,
  `ConfinedOwn`, `DeletedRefused` follow, and `ChangesByEntitled`, an action property:
  each write is taken apart (`TransactChanges`, `StepChanges`) and found to be of the
  caller's binding.

`BindTransactionProofs`, for every set of requests, bindings, cookies and lists, any number of
transactions at once and every order of keys and bindings in an index, from
`LifecycleAssumption` and `OrderAssumption` (the two orders are orders):

* `LocksAreCallers`, by the invariant `LInv` (`TxnInvariant`). The property is not inductive
  alone: an RPC that ends takes one transaction with it, so there must be no second
  (`OneEach`), RPCs of one statement must have none (`TxnSound`), and a clean-up that has
  outlived its transaction must hold no locks, so that InnoDB never picks it as a victim
  (`NoDetachedVictim`). What the statements write plays no part.
* `ImplementsLifecycle`: `TxnSpec => Implements`. All that needs work is `Commit`: what a
  transaction has written, statement by statement and against tables that others were
  changing, must be the one step `TxnCommit`, `DeleteWipe` or `ConfirmSet` makes of the
  tables *as they are at the commit* (`CommitIs`), guards included. `WriteInv` says so of each
  moment before: a transaction that may still commit (`Live`) holds a lock on every row it
  has written and every row it has scanned; what it sees is what its statements so far
  would make of the tables now (`CredentialsSoFar`, `DevicesSoFar`, `ProfilesSoFar`); what
  let it pass a check (no second colliding row, no other default, a profile to choose)
  is so still; it has the gaps of its scans. `LocksApart` says of two transactions that
  they lock no row both and that neither has added a row the other scanned for.
* The argument for `WriteInv` (`WritesInvariant`), by who moves. The others commit or write
  alone: they held the locks of what they change, and their inserts were kept out of the
  gaps of `t` (`CredentialMissed`, `DeviceMissed`, `ProfileMissed`: a row inserted where `t` has
  scanned makes an index entry in a gap `t` holds, unless `t` holds the row already), so
  the tables before and after agree on all that matters to `t` (`CredentialsSurvive`,
  `DevicesSurvive`, `ProfilesSurvive`). `t` does a statement: it has waited for the locks,
  and the new rows are what the statement makes of what it saw (`StatementC`, `StatementD`,
  `StatementP`, `StatementGaps`); that it has scanned none of the others' uncommitted rows
  follows since those are locked by them (`ScansOthers`). What a bind saves one profile at a time
  comes to one pass (`OthersTwice`), the two UPDATEs of a Confirm to one (`ChosenTwice`).
  The snapshot of a bind plays a part in one place: the default profile is looked for in
  it (`VisibleIn`), after the DELETE whose rows are locked (`VisibleAlike`).
* `RowsStaySound`: the clean-up of a deadlock victim, which `Implements` leaves
  out, may delete what was bound before, or put back a credential read earlier; but every
  row it leaves is sound by itself (`CleanUpAloneSound`), so that `KeysAgree`,
  `CredentialCoherent` and `MaterialIsTheBindings` hold with it as well. What it can break
  are relations between tables only.

`DeploymentProofs`, for every set of processes, configurations, secrets and tickets, from
`DeploymentAssumption` (it types the constants; the empty PEM holds no key):

* `ValidIsEnough`, a lemma about one configuration: what `Valid` asks for makes `Encrypts`
  true and `Accepts` true of one kind of ticket.
* `InvariantHolds`, with an `IInv` that adds to the properties that what runs was let
  through (`Configured`), and that an RPC is in a process with the secret of its row, whose
  status the history knows (`CallsSound`): a revalidation saves what it read long ago, so
  the row it carries must be sound by itself.
* `TypeCorrect`, `RunningReady`, `StatusAboutBlob` follow, and `SecretsRetired`, an action
  property: only `BindSave` and `RevalidateSave` write rows, of the secret of a process
  that runs.

The remaining theorems are of RPCs that do not overlap: their hypothesis is
`Overlap = FALSE`, the constant of the two models by which an RPC begins only when none
runs. The code does not serialise its RPCs; that these properties need it to is what the
interleavings of section 3 show, and the hypothesis makes it explicit. Statements still
fail anywhere, and RPCs of all bindings follow one another in any order.

`LifecycleSerialProofs`: `SerialInvariant`, `GraphFollows` and `PrimaryAlwaysExists`. The
invariant `SInv` has three parts, which hold up one another. `Alone`: one call at most.
`Fresh`: what it has read is still in the tables, and the account an update was compared
with is still the binding's, which `IInv` cannot say. `TablesSound`:
besides the two properties, a binding has one credential (`OnePerBinding`, though no index on
`account_profiles` or `device_records` says so of a key), each credential a device of its key,
and profiles are unique; without those a rebind would not find all it has to
forget. `GraphFollowsCredential` and `PrimaryExists` are stated of bindings that
are `Undisputed`: no other binding ever submitted a cookie of the same account. A bind
of an account that another binding holds takes its credential row and leaves its devices
and profiles (`Colliding`), with no overlap at all.

`AuthKeySerialProofs`: `SerialInvariant`, `ArtifactsCurrent`, `CacheMirrors`,
`IssuedOnceHolds`, by an `SInv` that says of both stores that they hold authkeys of the
credential there is, and that each entry of Redis has a row of its binding and player
(`EntriesHaveRows`). The last is what the properties do not say: a bind or delete finds the
entries to delete by the rows it sees, so an entry without one would be left. `CallCurrent`
says of the call that runs, step by step, what it has swept, purged or is about to store.

`LifecyclePromiseProofs`: `SummariesReadOnly` (`SummarySpec => Spec`, so all that was proved
of the lifecycle holds beside summaries), `SummaryTypes`; `SummariesAgree`, by an invariant
that says of every summary that the devices it has read are of one key (`ReadsOneKey`), and
of one no write fell into that what it has read is still so;
and `PromiseKept`, the refinement: `Init` is mapped to `Binding!Promised`, the beginning of a
call of `Owner` to `Ask`, its end to `End` with the effect of its own kind, or with none, and
anything else to a stutter. What an RPC was allowed on when it was asked must hold when
it ends: that is `Fresh`. Calls of other bindings are stutters because of
`[]Undisputed(Owner)`, which is
the theorem's second hypothesis; `serial`, which has one binding, checks it where
it holds by itself.

Only model-checked: `EveryCallEnds`, since TLAPS does not reason about fairness.

## 5. Plan

In this order:

1. `CredentialLifecycle`, its runs and proofs (done).
2. `AuthKeyArtifacts`, its runs and proofs (done), with those for RPCs that do not overlap.
3. `TicketGate`, its runs and proofs (done).
4. `BindTransaction`, `CredentialSummary`, `BindingPromise`, with both refinements, `KeepsPromise`
   and `Implements`, checked and proved (done).
5. `Deployment`, its run and proofs (done).
6. Still to do: to state what the clean-up of a deadlock victim leaves of the relations
   between the tables, and to prove the weaker promise an owner has in its presence.

Not modelled: migrations (only the unique keys they end with; an operator runs them, outside
of the program), the addresses of MySQL and Redis and their failure at the first use (which is
`Fail`), the health service, the tools of a developer's machine (`integration-doctor`,
`integrationenv`), generated
code, the mapping of results to messages beyond the rows a summary lists, and functions no RPC reaches
(`DeleteCredential`, `ConfirmPrimaryProfile` without scope,
`DeleteMissingByPlatformAccountID`, `ArtifactRepo.Get`).
