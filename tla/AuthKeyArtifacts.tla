-------------------------- MODULE AuthKeyArtifacts --------------------------
(***************************************************************************)
(* The authkeys platform-mihomo-service keeps: the MySQL table             *)
(* runtime_artifacts and, in front of it, Redis.  GetAuthKey fills both,   *)
(* Bind, Update and Delete empty both.  Nothing ties the two stores        *)
(* together, and nothing ties either to the credential the upstream        *)
(* platform issued the authkey for, so every call is split at each of its  *)
(* statements: the read of the credential, the GET, the SELECT, the call   *)
(* upstream, the INSERT, the SET; the snapshot a transaction opens, its    *)
(* DELETE, the DEL it sends to Redis before it commits, and the COMMIT.    *)
(*                                                                         *)
(* The credential of a binding is here its cookie only; the graph around   *)
(* it is CredentialLifecycle's, whose KeysAgree justifies reading it by    *)
(* binding.  Redis keys of the older form, by platform account id, are     *)
(* deleted by this code and written by no RPC: they are left out.          *)
(***************************************************************************)
EXTENDS Naturals

CONSTANTS
    Requests,      \* identities of RPCs; each is used for one call
    Bindings,      \* binding ids
    Accounts,      \* account ids the upstream platform knows
    Cookies,       \* cookie bundles
    AccountOf,     \* the account the upstream platform finds for a cookie
    Players,       \* player ids, the scope keys of authkeys
    Lifetimes,     \* the expires_in the upstream platform may answer
    SetDelay,      \* how long a SET may take from the client to Redis
    MaxTime,       \* bound: the clock stops here
    None,          \* no credential
    Ops,           \* the RPCs in play
    Overlap        \* FALSE: an RPC starts only when no other is running

ASSUME ArtifactsAssumption ==
    /\ AccountOf \in [Cookies -> Accounts]
    /\ Lifetimes \subseteq Nat
    /\ SetDelay \in Nat
    /\ MaxTime \in Nat
    /\ None \notin Cookies
    /\ Overlap \in BOOLEAN

VARIABLES
    credential,    \* binding -> the cookie in credential_records, or None
    artifacts,     \* runtime_artifacts, committed
    cache,         \* Redis: entries by (binding, player)
    now,           \* the clock of the service, MySQL and Redis
    inflight,      \* the running RPCs
    used,          \* the requests issued
    submitted,     \* history: <<binding, cookie>> sent to Bind or Update
    answers        \* history: what GetAuthKey answered

stores == <<artifacts, cache>>
vars == <<credential, artifacts, cache, now, inflight, used, submitted,
          answers>>

-----------------------------------------------------------------------------
(* Rows, entries and calls.                                                *)

Times == Nat

\* An authkey is known by what it was issued for.
AuthKey == [cookie : Cookies, player : Players]
Artifact == [binding : Bindings, player : Players, key : AuthKey,
             expires : Times]
\* The artifact, in JSON, under the key of a binding and a player.
CacheEntry == [binding : Bindings, player : Players, artifact : Artifact,
               until : Times]

\* cookie: of the credential read.  since: when the RPC began.
GetCall == [id : Requests, op : {"get"}, step : {"lookup", "select", "issue"},
            binding : Bindings, player : Players, cookie : Cookies,
            since : Times]
\* artifact is to be stored ("put") or cached ("fill" after a SELECT, "store"
\* after an INSERT); read: when the artifact was last looked at.
StoreCall == [id : Requests, op : {"get"}, step : {"put", "fill", "store"},
              binding : Bindings, player : Players, cookie : Cookies,
              since : Times, artifact : Artifact, read : Times]
\* seen: the players of the binding's artifacts in the snapshot.
WipeCall == [id : Requests, op : {"bind", "delete"},
             step : {"begun", "open", "swept", "purged"}, binding : Bindings,
             cookie : Cookies \cup {None}, seen : SUBSET Players]
RevalidateCall == [id : Requests, op : {"revalidate"}, binding : Bindings,
                   cookie : Cookies]
Calls == GetCall \cup StoreCall \cup WipeCall \cup RevalidateCall

Answer == [id : Requests, binding : Bindings, player : Players,
           cookie : Cookies, since : Times, key : AuthKey, expires : Times,
           found : BOOLEAN]

TypeOK ==
    /\ credential \in [Bindings -> Cookies \cup {None}]
    /\ artifacts \subseteq Artifact
    /\ cache \subseteq CacheEntry
    /\ now \in Times
    /\ inflight \subseteq Calls
    /\ used \subseteq Requests
    /\ submitted \subseteq Bindings \X Cookies
    /\ answers \subseteq Answer

-----------------------------------------------------------------------------
(* Statements.                                                             *)

\* What GET finds.  Mutants: a key without the player; without the binding.
LiveAnyPlayer(b, p) == {e \in cache : e.binding = b /\ e.until > now}
LiveAnyBinding(b, p) == {e \in cache : e.player = p /\ e.until > now}
Live(b, p) ==
    {e \in cache : e.binding = b /\ e.player = p /\ e.until > now}

\* What SELECT ... WHERE expires_at > now finds.  Mutants: expired rows too;
\* the comparison turned round.
RowsExpiredToo(b, p) == {a \in artifacts : a.binding = b /\ a.player = p}
RowsExpired(b, p) ==
    {a \in artifacts : a.binding = b /\ a.player = p /\ a.expires <= now}
Rows(b, p) ==
    {a \in artifacts : a.binding = b /\ a.player = p /\ a.expires > now}

CacheWithout(b, p) == {e \in cache : ~(e.binding = b /\ e.player = p)}

\* SET with the TTL computed at the time at, or DEL when it has run out.
Cached(a, at) ==
    CacheWithout(a.binding, a.player) \cup
        IF a.expires > at
        THEN {[binding |-> a.binding, player |-> a.player, artifact |-> a,
               until |-> now + (a.expires - at)]}
        ELSE {}

\* The upsert on (binding_id, artifact_type, scope_key).  Mutant: expires_at
\* is not among the columns written.
PutNoExpiry(a) ==
    {x \in artifacts : ~(x.binding = a.binding /\ x.player = a.player)}
        \cup {[a EXCEPT !.expires = None]}
PutArtifact(a) ==
    {x \in artifacts : ~(x.binding = a.binding /\ x.player = a.player)}
        \cup {a}

\* What the transaction call leaves of artifacts, and of the cache.  Mutant:
\* every entry.
Unswept(call) == {a \in artifacts : a.binding # call.binding}
PurgedNone(call) == cache
Purged(call) ==
    {e \in cache : ~(e.binding = call.binding /\ e.player \in call.seen)}

\* A transaction that has deleted a binding's rows holds their locks and
\* those of the gap around them until it ends: no row can be inserted.
Locked(b) ==
    \E call \in inflight : /\ call.op \in {"bind", "delete"}
                           /\ call.step \in {"swept", "purged"}
                           /\ call.binding = b

\* CredentialRepo.Save: the upsert fires on the binding or on the account;
\* with a row of each it fails.
Holders(b, cookie) ==
    {d \in Bindings : /\ credential[d] # None
                      /\ d = b \/ AccountOf[credential[d]] = AccountOf[cookie]}
CredentialAccepted(b, cookie) ==
    \A c, d \in Holders(b, cookie) : c = d
SaveCredential(b, cookie) ==
    [d \in Bindings |-> IF d = b THEN cookie
                        ELSE IF d \in Holders(b, cookie) THEN None
                        ELSE credential[d]]

-----------------------------------------------------------------------------
(* Actions.                                                                *)

\* Some bindings hold a credential of an account of their own.
Init ==
    /\ credential \in [Bindings -> Cookies \cup {None}]
    /\ \A b, d \in Bindings :
         /\ credential[b] # None /\ credential[d] # None
         /\ AccountOf[credential[b]] = AccountOf[credential[d]]
         => b = d
    /\ submitted = {<<b, credential[b]>> :
                       b \in {d \in Bindings : credential[d] # None}}
    /\ artifacts = {} /\ cache = {} /\ now = 0
    /\ inflight = {} /\ used = {} /\ answers = {}

Start(call) ==
    /\ call.op \in Ops
    /\ call.id \notin used
    /\ Overlap \/ inflight = {}
    /\ used' = used \cup {call.id}
    /\ inflight' = inflight \cup {call}
    /\ UNCHANGED <<credential, stores, now, answers>>

\* Any call, at any step, may be cut short: a statement fails, the deadline
\* passes, the process stops.  A transaction is rolled back, its DEL is not.
Fail(call) ==
    /\ inflight' = inflight \ {call}
    /\ UNCHANGED <<credential, stores, now, used, submitted, answers>>

Tick ==
    /\ now < MaxTime
    /\ now' = now + 1
    /\ UNCHANGED <<credential, stores, inflight, used, submitted, answers>>

Step(call, next) ==
    /\ inflight' = (inflight \ {call}) \cup {next}
    /\ UNCHANGED <<credential, now, used, submitted, answers>>

\* GetAuthKey answers with an artifact, found or just issued.
AnswerWith(call, a, found) ==
    /\ inflight' = inflight \ {call}
    /\ answers' = answers \cup
         {[id |-> call.id, binding |-> call.binding, player |-> call.player,
           cookie |-> call.cookie, since |-> call.since, key |-> a.key,
           expires |-> a.expires, found |-> found]}
    /\ UNCHANGED <<credential, artifacts, now, used, submitted>>

\* GetAuthKey reads the credential of the platform account id named.
GetAuthKey(r, b, p) ==
    /\ credential[b] # None
    /\ Start([id |-> r, op |-> "get", step |-> "lookup", binding |-> b,
              player |-> p, cookie |-> credential[b], since |-> now])
    /\ UNCHANGED submitted

CacheHit(call) ==
    /\ call.op = "get"
    /\ call.step = "lookup"
    /\ \E e \in Live(call.binding, call.player) :
         AnswerWith(call, e.artifact, TRUE)
    /\ UNCHANGED cache

\* The GET finds nothing or fails: both lead to the SELECT.
CacheMiss(call) ==
    /\ call.op = "get"
    /\ call.step = "lookup"
    /\ Step(call, [call EXCEPT !.step = "select"])
    /\ UNCHANGED stores

Storing(call, step, a) ==
    [id |-> call.id, op |-> "get", step |-> step, binding |-> call.binding,
     player |-> call.player, cookie |-> call.cookie, since |-> call.since,
     artifact |-> a, read |-> now]

RowFound(call) ==
    /\ call.op = "get"
    /\ call.step = "select"
    /\ \E a \in Rows(call.binding, call.player) :
         Step(call, Storing(call, "fill", a))
    /\ UNCHANGED stores

RowMissing(call) ==
    /\ call.op = "get"
    /\ call.step = "select"
    /\ Rows(call.binding, call.player) = {}
    /\ Step(call, [call EXCEPT !.step = "issue"])
    /\ UNCHANGED stores

\* The upstream platform issues an authkey for the cookie and the player.
Issue(call, lifetime) ==
    /\ call.op = "get"
    /\ call.step = "issue"
    /\ Step(call, Storing(call, "put",
              [binding |-> call.binding, player |-> call.player,
               key |-> [cookie |-> call.cookie, player |-> call.player],
               expires |-> now + lifetime]))
    /\ UNCHANGED stores

\* ArtifactRepo.Put, the INSERT, whatever became of the credential.
PutRow(call) ==
    /\ call.op = "get"
    /\ call.step = "put"
    /\ ~Locked(call.binding)
    /\ artifacts' = PutArtifact(call.artifact)
    /\ Step(call, [call EXCEPT !.step = "store", !.read = now])
    /\ UNCHANGED cache

\* The SET of Put: when it fails the RPC fails (Fail), the row stays.
Store(call, at) ==
    /\ call.op = "get"
    /\ call.step = "store"
    /\ call.read <= at /\ at <= now /\ now <= at + SetDelay
    /\ cache' = Cached(call.artifact, at)
    /\ AnswerWith(call, call.artifact, FALSE)

\* The SET was made, its answer was lost: the RPC fails.
StoreUnanswered(call, at) ==
    /\ call.op = "get"
    /\ call.step = "store"
    /\ call.read <= at /\ at <= now /\ now <= at + SetDelay
    /\ cache' = Cached(call.artifact, at)
    /\ inflight' = inflight \ {call}
    /\ UNCHANGED <<credential, artifacts, now, used, submitted, answers>>

\* The SET of GetByBindingID: its failure is ignored (FillSkipped).
Fill(call, at) ==
    /\ call.op = "get"
    /\ call.step = "fill"
    /\ call.read <= at /\ at <= now /\ now <= at + SetDelay
    /\ cache' = Cached(call.artifact, at)
    /\ AnswerWith(call, call.artifact, TRUE)
FillSkipped(call) ==
    /\ call.op = "get"
    /\ call.step = "fill"
    /\ AnswerWith(call, call.artifact, TRUE)
    /\ UNCHANGED cache

\* Bind and Update, once the upstream platform has accepted the cookie.
Bind(r, b, cookie) ==
    /\ Start([id |-> r, op |-> "bind", step |-> "begun", binding |-> b,
              cookie |-> cookie, seen |-> {}])
    /\ submitted' = submitted \cup {<<b, cookie>>}

\* Delete, once the binding was seen to hold the credential named.
Delete(r, b) ==
    /\ credential[b] # None
    /\ Start([id |-> r, op |-> "delete", step |-> "begun", binding |-> b,
              cookie |-> None, seen |-> {}])
    /\ UNCHANGED submitted

\* The first SELECT of the transaction fixes what
\* recordsForBindingCacheDeletion will see.
Open(call) ==
    /\ call.op \in {"bind", "delete"}
    /\ call.step = "begun"
    /\ Step(call, [call EXCEPT
              !.step = "open",
              !.seen = {a.player : a \in {x \in artifacts :
                                            x.binding = call.binding}}])
    /\ UNCHANGED stores

\* The DELETE, on the rows of now; rows another transaction has deleted are
\* locked, an empty gap is not.
Sweep(call) ==
    /\ call.op \in {"bind", "delete"}
    /\ call.step = "open"
    /\ Locked(call.binding) => \A a \in artifacts : a.binding # call.binding
    /\ Step(call, [call EXCEPT !.step = "swept"])
    /\ UNCHANGED stores

\* deleteCacheKeys, for the keys of the rows seen, before the COMMIT.
Purge(call) ==
    /\ call.op \in {"bind", "delete"}
    /\ call.step = "swept"
    /\ cache' = Purged(call)
    /\ Step(call, [call EXCEPT !.step = "purged"])
    /\ UNCHANGED artifacts

\* The writes to the other tables and the COMMIT.
Commit(call) ==
    /\ call.op \in {"bind", "delete"}
    /\ call.step = "purged"
    /\ call.op = "bind" => CredentialAccepted(call.binding, call.cookie)
    /\ credential' = IF call.op = "bind"
                     THEN SaveCredential(call.binding, call.cookie)
                     ELSE [credential EXCEPT ![call.binding] = None]
    /\ artifacts' = Unswept(call)
    /\ inflight' = inflight \ {call}
    /\ UNCHANGED <<cache, now, used, submitted, answers>>

\* Validate and Refresh read the credential and later save what they read;
\* artifacts are not their concern.
Revalidate(r, b) ==
    /\ credential[b] # None
    /\ Start([id |-> r, op |-> "revalidate", binding |-> b,
              cookie |-> credential[b]])
    /\ UNCHANGED submitted
RevalidateSave(call) ==
    /\ call.op = "revalidate"
    /\ CredentialAccepted(call.binding, call.cookie)
    /\ credential' = SaveCredential(call.binding, call.cookie)
    /\ inflight' = inflight \ {call}
    /\ UNCHANGED <<stores, now, used, submitted, answers>>

Arrive ==
    \E r \in Requests, b \in Bindings :
        \/ \E p \in Players : GetAuthKey(r, b, p)
        \/ \E cookie \in Cookies : Bind(r, b, cookie)
        \/ Delete(r, b)
        \/ Revalidate(r, b)

Look(call) == CacheHit(call) \/ CacheMiss(call) \/ RowFound(call)
              \/ RowMissing(call)

Keep(call) ==
    \/ \E lifetime \in Lifetimes : Issue(call, lifetime)
    \/ PutRow(call)
    \/ \E at \in 0..now : Store(call, at) \/ StoreUnanswered(call, at)
                          \/ Fill(call, at)
    \/ FillSkipped(call)

Wipe(call) == Open(call) \/ Sweep(call) \/ Purge(call) \/ Commit(call)
              \/ RevalidateSave(call)

Next ==
    \/ Arrive
    \/ Tick
    \/ \E call \in inflight : Look(call) \/ Keep(call) \/ Wipe(call)
                              \/ Fail(call)

Spec == Init /\ [][Next]_vars

-----------------------------------------------------------------------------
(* Properties.                                                             *)

IssuedFor(a) == /\ <<a.binding, a.key.cookie>> \in submitted
                /\ a.key.player = a.player

\* Whatever the calls do to one another, an authkey is stored, cached and
\* answered only for the binding whose cookie it was issued for, and only for
\* the player asked for: binding and scope key are part of the row's unique
\* key, of the SELECT and of the Redis key (cacheKeyByBinding).
AuthKeysStayInBinding ==
    /\ \A a \in artifacts : IssuedFor(a)
    /\ \A e \in cache : /\ e.artifact.binding = e.binding
                        /\ e.artifact.player = e.player
                        /\ IssuedFor(e.artifact)
    /\ \A x \in answers : /\ <<x.binding, x.key.cookie>> \in submitted
                          /\ x.key.player = x.player

\* A stored authkey is answered only by a call that began before it expired,
\* or after it by no more than a SET may take: the SELECT compares expires_at
\* and the TTL of the entry is what was left when the SET was sent.
ServedUnexpired ==
    \A x \in answers : x.found => x.expires + SetDelay > x.since

\* When calls do not overlap, whichever of their statements fail: the
\* authkeys stored for a binding that has a credential were issued for that
\* credential.  Bind, Update and Delete empty both stores of the binding.
ArtifactsAreCurrent ==
    \A b \in Bindings : credential[b] # None =>
        /\ \A a \in artifacts : a.binding = b => a.key.cookie = credential[b]
        /\ \A p \in Players : \A e \in Live(b, p) :
               e.artifact.key.cookie = credential[b]

\* When calls do not overlap: Redis answers with nothing that MySQL does not
\* hold, but for what has expired.
CacheMirrorsRows ==
    \A e \in cache :
        e.until > now /\ e.artifact.expires > now => e.artifact \in artifacts

\* When calls do not overlap: a call that finds an authkey does not have
\* another one issued; a row is replaced when it has expired and removed when
\* its binding is bound or deleted.
IssuedOnceStep ==
    \A a \in artifacts :
        \/ a \in artifacts'
        \/ a.expires <= now
        \/ \E call \in inflight : /\ call.op \in {"bind", "delete"}
                                  /\ call.binding = a.binding
IssuedOnce == [][IssuedOnceStep]_vars

(* What the repository says and overlapping RPCs break.                     *)

\* TestBindCredentialRebindInvalidatesBindingScopedArtifacts: after a rebind
\* no authkey of the earlier credential is found.
ReboundMeansInvalidated == inflight = {} => ArtifactsAreCurrent
=============================================================================
