------------------------- MODULE AuthKeySerialProofs -------------------------
(***************************************************************************)
(* Proofs about AuthKeyArtifacts when RPCs do not overlap, for every set   *)
(* of requests, bindings, cookies and players and every clock and          *)
(* lifetime: any of their statements may still fail, and any RPC be cut    *)
(* short between a statement in MySQL and one in Redis.                    *)
(***************************************************************************)
EXTENDS AuthKeyArtifactsProofs

-----------------------------------------------------------------------------
(* The invariant.                                                          *)

Alone == \A c, d \in inflight : c = d

\* What the one RPC that runs has read still holds, and what it has deleted
\* is gone: the cookie is the credential's; the artifact to cache is a row;
\* the artifact to store replaces no row that has not expired; the players
\* seen are all that have a row; a purged binding has no entry.
CallCurrent(call) ==
    /\ call.op \in {"get", "revalidate"} =>
         credential[call.binding] = call.cookie
    /\ call.op = "get" /\ call.step \in {"put", "fill", "store"} =>
         call.artifact.key.cookie = call.cookie
    /\ call.op = "get" /\ call.step \in {"fill", "store"} =>
         call.artifact \in artifacts
    /\ call.op = "get" /\ call.step \in {"issue", "put"} =>
         Rows(call.binding, call.player) = {}
    /\ call.op \in {"bind", "delete"} /\ call.step \in {"open", "swept"} =>
         \A a \in artifacts : a.binding = call.binding => a.player \in call.seen
    /\ call.op \in {"bind", "delete"} /\ call.step = "purged" =>
         \A e \in cache : e.binding # call.binding

\* Both stores hold what was issued for the credential that is there, be it
\* expired or not.
RowsCurrent ==
    \A a \in artifacts : credential[a.binding] # None =>
        a.key.cookie = credential[a.binding]
EntriesCurrent ==
    \A e \in cache : credential[e.binding] # None =>
        e.artifact.key.cookie = credential[e.binding]

\* Every entry has a row of its binding and player, by which a Bind or a
\* Delete finds it: an entry without one would outlive the credential.
EntriesHaveRows ==
    \A e \in cache : \E a \in artifacts :
        a.binding = e.binding /\ a.player = e.player

StoresAgree ==
    RowsCurrent /\ EntriesCurrent /\ EntriesHaveRows /\ CacheMirrorsRows

SInv == Alone /\ StoresAgree /\ \A call \in inflight : CallCurrent(call)

-----------------------------------------------------------------------------
(* One RPC at a time.                                                      *)

LEMMA OnlyOne ==
    ASSUME Alone, NEW call \in inflight
    PROVE  inflight = {call}
  BY DEF Alone

\* An RPC ends: only what it leaves in the stores matters.
LEMMA SerialEnds ==
    ASSUME SInv, NEW call \in inflight, inflight' = inflight \ {call},
           StoresAgree'
    PROVE  SInv'
<1>1. inflight' = {}
  BY OnlyOne DEF SInv
<1>2. QED
  BY <1>1 DEF SInv, Alone

\* An RPC goes on, with an eye on what it has read.
LEMMA SerialGoesOn ==
    ASSUME SInv, NEW call \in inflight, NEW next, Step(call, next),
           StoresAgree', CallCurrent(next)'
    PROVE  SInv'
<1>1. inflight' = {next}
  BY OnlyOne DEF SInv, Step
<1>2. QED
  BY <1>1 DEF SInv, Alone

\* A step that leaves the credentials and the rows alone and may take
\* entries from the cache.
LEMMA StoresKept ==
    ASSUME StoresAgree, credential' = credential, artifacts' = artifacts,
           now' = now, cache' \subseteq cache
    PROVE  StoresAgree'
  BY DEF StoresAgree, RowsCurrent, EntriesCurrent, EntriesHaveRows,
         CacheMirrorsRows

\* The entry a SET leaves is that of a row.
LEMMA StoresCached ==
    ASSUME TypeOK, StoresAgree, credential' = credential,
           artifacts' = artifacts, now' = now,
           NEW a \in artifacts, NEW at, cache' = Cached(a, at)
    PROVE  StoresAgree'
<1>1. \A e \in cache' : \/ e \in cache
                        \/ /\ e.binding = a.binding /\ e.player = a.player
                           /\ e.artifact = a
  BY CachedEntries
<1>2. RowsCurrent'
  BY DEF StoresAgree, RowsCurrent
<1>3. EntriesCurrent'
  BY <1>1 DEF StoresAgree, RowsCurrent, EntriesCurrent
<1>4. EntriesHaveRows'
  BY <1>1 DEF StoresAgree, EntriesHaveRows
<1>5. CacheMirrorsRows'
  BY <1>1 DEF StoresAgree, CacheMirrorsRows
<1>6. QED
  BY <1>2, <1>3, <1>4, <1>5 DEF StoresAgree

-----------------------------------------------------------------------------
(* The steps.                                                              *)

LEMMA SerialInit == Init => SInv
  BY DEF Init, SInv, Alone, StoresAgree, RowsCurrent, EntriesCurrent,
         EntriesHaveRows, CacheMirrorsRows

LEMMA SerialStart ==
    ASSUME Overlap = FALSE, SInv, NEW call, Start(call), CallCurrent(call)'
    PROVE  SInv'
<1>1. inflight' = {call} /\ UNCHANGED <<credential, artifacts, cache, now>>
  BY DEF Start, stores
<1>2. StoresAgree'
  BY <1>1, StoresKept DEF SInv
<1>3. QED
  BY <1>1, <1>2 DEF SInv, Alone

LEMMA SerialArrive ==
    ASSUME Overlap = FALSE, TypeOK, SInv, Arrive
    PROVE  SInv'
<1>1. PICK r \in Requests, b \in Bindings :
         \/ \E p \in Players : GetAuthKey(r, b, p)
         \/ \E cookie \in Cookies : Bind(r, b, cookie)
         \/ Delete(r, b)
         \/ Revalidate(r, b)
  BY DEF Arrive
<1>2. CASE \E p \in Players : GetAuthKey(r, b, p)
  <2>1. PICK p \in Players : GetAuthKey(r, b, p)
    BY <1>2
  <2>2. PICK call : call = [id |-> r, op |-> "get", step |-> "lookup",
                            binding |-> b, player |-> p,
                            cookie |-> credential[b], since |-> now]
    OBVIOUS
  <2>3. Start(call)
    BY <2>1, <2>2 DEF GetAuthKey
  <2>4. CallCurrent(call)'
    BY <2>2, <2>3 DEF Start, CallCurrent
  <2>5. QED
    BY <2>3, <2>4, SerialStart
<1>3. CASE \E cookie \in Cookies : Bind(r, b, cookie)
  <2>1. PICK cookie \in Cookies : Bind(r, b, cookie)
    BY <1>3
  <2>2. PICK call : call = [id |-> r, op |-> "bind", step |-> "begun",
                            binding |-> b, cookie |-> cookie, seen |-> {}]
    OBVIOUS
  <2>3. Start(call)
    BY <2>1, <2>2 DEF Bind
  <2>4. CallCurrent(call)'
    BY <2>2 DEF CallCurrent
  <2>5. QED
    BY <2>3, <2>4, SerialStart
<1>4. CASE Delete(r, b)
  <2>1. PICK call : call = [id |-> r, op |-> "delete", step |-> "begun",
                            binding |-> b, cookie |-> None, seen |-> {}]
    OBVIOUS
  <2>2. Start(call)
    BY <1>4, <2>1 DEF Delete
  <2>3. CallCurrent(call)'
    BY <2>1 DEF CallCurrent
  <2>4. QED
    BY <2>2, <2>3, SerialStart
<1>5. CASE Revalidate(r, b)
  <2>1. PICK call : call = [id |-> r, op |-> "revalidate", binding |-> b,
                            cookie |-> credential[b]]
    OBVIOUS
  <2>2. Start(call)
    BY <1>5, <2>1 DEF Revalidate
  <2>3. CallCurrent(call)'
    BY <2>1, <2>2 DEF Start, CallCurrent
  <2>4. QED
    BY <2>2, <2>3, SerialStart
<1>6. QED
  BY <1>1, <1>2, <1>3, <1>4, <1>5

\* The GET and the SELECT.
LEMMA SerialLook ==
    ASSUME IInv, SInv, NEW call \in inflight, Look(call)
    PROVE  SInv'
<1>0. /\ call \in Calls /\ CallCurrent(call) /\ StoresAgree
      /\ TypeOK /\ call.op = "get"
  BY DEF IInv, TypeOK, SInv, Look, CacheHit, CacheMiss, RowFound, RowMissing
<1>1. CASE CacheHit(call)
  <2>1. /\ UNCHANGED <<credential, artifacts, cache, now>>
        /\ inflight' = inflight \ {call}
    BY <1>1 DEF CacheHit, AnswerWith
  <2>2. StoresAgree'
    BY <1>0, <2>1, StoresKept
  <2>3. QED
    BY <2>1, <2>2, SerialEnds
<1>2. CASE CacheMiss(call)
  <2>1. call \in GetCall
    BY <1>0, <1>2, CallKinds DEF CacheMiss
  <2>2. PICK next : next = [call EXCEPT !.step = "select"]
    OBVIOUS
  <2>3. Step(call, next) /\ UNCHANGED <<credential, artifacts, cache, now>>
    BY <1>2, <2>2 DEF CacheMiss, Step, stores
  <2>4. CallCurrent(next)'
    BY <1>0, <2>1, <2>2, <2>3 DEF CallCurrent, GetCall
  <2>5. QED
    BY <1>0, <2>3, <2>4, StoresKept, SerialGoesOn
<1>3. CASE RowFound(call)
  <2>1. PICK a \in Rows(call.binding, call.player) :
           Step(call, Storing(call, "fill", a))
    BY <1>3 DEF RowFound
  <2>2. PICK next : next = Storing(call, "fill", a)
    OBVIOUS
  <2>3. Step(call, next) /\ UNCHANGED <<credential, artifacts, cache, now>>
    BY <1>3, <2>1, <2>2 DEF RowFound, Step, stores
  <2>4. /\ a \in artifacts /\ a.binding = call.binding
        /\ credential[call.binding] = call.cookie
    BY <1>0, <2>1 DEF Rows, CallCurrent
  <2>5. call.cookie # None
    BY <1>0, <1>3, CallKinds, ArtifactsAssumption DEF RowFound, GetCall
  <2>6. a.key.cookie = call.cookie
    BY <1>0, <2>4, <2>5 DEF StoresAgree, RowsCurrent
  <2>7. CallCurrent(next)'
    BY <1>0, <2>2, <2>3, <2>4, <2>6 DEF CallCurrent, Storing
  <2>8. QED
    BY <1>0, <2>3, <2>7, StoresKept, SerialGoesOn
<1>4. CASE RowMissing(call)
  <2>1. call \in GetCall
    BY <1>0, <1>4, CallKinds DEF RowMissing
  <2>2. PICK next : next = [call EXCEPT !.step = "issue"]
    OBVIOUS
  <2>3. Step(call, next) /\ UNCHANGED <<credential, artifacts, cache, now>>
    BY <1>4, <2>2 DEF RowMissing, Step, stores
  <2>4. Rows(call.binding, call.player) = {}
    BY <1>4 DEF RowMissing
  <2>5. CallCurrent(next)'
    BY <1>0, <2>1, <2>2, <2>3, <2>4 DEF CallCurrent, GetCall, Rows
  <2>6. QED
    BY <1>0, <2>3, <2>5, StoresKept, SerialGoesOn
<1>5. QED
  BY <1>1, <1>2, <1>3, <1>4 DEF Look

\* The call upstream, the INSERT, the SET.
LEMMA SerialKeep ==
    ASSUME IInv, SInv, NEW call \in inflight, Keep(call)
    PROVE  SInv'
<1>0. /\ call \in Calls /\ CallCurrent(call) /\ CallOwn(call) /\ StoresAgree
      /\ TypeOK /\ now \in Nat
  BY DEF IInv, TypeOK, SInv, Own, Times
<1>1. ASSUME NEW lifetime \in Lifetimes, Issue(call, lifetime)
      PROVE  SInv'
  <2>1. PICK next : next = Storing(call, "put", IssuedArtifact(call, lifetime))
    OBVIOUS
  <2>2. /\ Step(call, next) /\ call.op = "get"
        /\ UNCHANGED <<credential, artifacts, cache, now>>
    BY <1>1, <2>1 DEF Issue, IssuedArtifact, Step, stores
  <2>3. CallCurrent(next)'
    BY <1>0, <1>1, <2>1, <2>2
       DEF CallCurrent, Storing, IssuedArtifact, Issue, Rows
  <2>4. QED
    BY <1>0, <2>2, <2>3, StoresKept, SerialGoesOn
<1>2. CASE PutRow(call)
  <2> DEFINE a == call.artifact
  <2>1. /\ call.op = "get" /\ call.step = "put" /\ call \in StoreCall
        /\ artifacts' = PutArtifact(a) /\ UNCHANGED <<credential, cache, now>>
    BY <1>0, <1>2, CallKinds DEF PutRow, Step
  <2>2. PICK next : next = [call EXCEPT !.step = "store", !.read = now]
    OBVIOUS
  <2>3. /\ Step(call, next) /\ next.op = "get" /\ next.step = "store"
        /\ next.binding = call.binding /\ next.cookie = call.cookie
        /\ next.artifact = a
    BY <1>2, <2>1, <2>2 DEF PutRow, StoreCall
  <2>4. /\ a.binding = call.binding /\ a.player = call.player
        /\ a.key.cookie = call.cookie /\ credential[call.binding] = call.cookie
        /\ Rows(call.binding, call.player) = {}
    BY <1>0, <2>1 DEF CallOwn, CallCurrent
  <2> HIDE DEF a
  <2>5. \A x : x \in artifacts' <=>
           \/ x = a
           \/ x \in artifacts /\ ~(x.binding = a.binding /\ x.player = a.player)
    BY <2>1 DEF PutArtifact
  <2>6. RowsCurrent'
    BY <1>0, <2>1, <2>4, <2>5 DEF StoresAgree, RowsCurrent
  <2>7. EntriesCurrent'
    BY <1>0, <2>1 DEF StoresAgree, EntriesCurrent
  <2>8. EntriesHaveRows'
    BY <1>0, <2>1, <2>5 DEF StoresAgree, EntriesHaveRows
  <2>9. CacheMirrorsRows'
    <3>1. SUFFICES ASSUME NEW e \in cache, e.until > now,
                          e.artifact.expires > now
                   PROVE  e.artifact \in artifacts'
      BY <2>1 DEF CacheMirrorsRows
    <3>2. e.artifact \in artifacts
      BY <1>0, <3>1 DEF StoresAgree, CacheMirrorsRows
    <3>3. ~(e.artifact.binding = a.binding /\ e.artifact.player = a.player)
      BY <2>4, <3>1, <3>2 DEF Rows
    <3>4. QED
      BY <2>5, <3>2, <3>3
  <2>10. CallCurrent(next)'
    BY <2>1, <2>3, <2>4, <2>5 DEF CallCurrent
  <2>11. QED
    BY <2>3, <2>6, <2>7, <2>8, <2>9, <2>10, SerialGoesOn DEF StoresAgree
<1>3. ASSUME NEW at \in 0..now,
             Store(call, at) \/ StoreUnanswered(call, at) \/ Fill(call, at)
      PROVE  SInv'
  <2>1. /\ call.artifact \in artifacts /\ cache' = Cached(call.artifact, at)
        /\ inflight' = inflight \ {call}
        /\ UNCHANGED <<credential, artifacts, now>>
    BY <1>0, <1>3 DEF Store, StoreUnanswered, Fill, AnswerWith, CallCurrent
  <2>2. StoresAgree'
    BY <1>0, <2>1, StoresCached
  <2>3. QED
    BY <2>1, <2>2, SerialEnds
<1>4. CASE FillSkipped(call)
  <2>1. /\ UNCHANGED <<credential, artifacts, cache, now>>
        /\ inflight' = inflight \ {call}
    BY <1>4 DEF FillSkipped, AnswerWith
  <2>2. QED
    BY <1>0, <2>1, StoresKept, SerialEnds
<1>5. QED
  BY <1>1, <1>2, <1>3, <1>4 DEF Keep

\* The COMMIT of a Bind or a Delete: no authkey of the binding is left, and
\* no other binding gains a credential.
LEMMA SerialCommit ==
    ASSUME IInv, SInv, NEW call \in inflight, Commit(call)
    PROVE  StoresAgree'
<1>0. /\ call \in WipeCall /\ call.binding \in Bindings /\ TypeOK
      /\ CallCurrent(call) /\ StoresAgree
  BY CallKinds DEF IInv, TypeOK, SInv, Commit
<1>1. /\ artifacts' = {a \in artifacts : a.binding # call.binding}
      /\ cache' = cache /\ now' = now
      /\ \A e \in cache : e.binding # call.binding
  BY <1>0 DEF Commit, Unswept, CallCurrent
<1>2. \A d \in Bindings : d # call.binding =>
         credential'[d] = None \/ credential'[d] = credential[d]
  <2>1. CASE call.op = "bind"
    BY <2>1 DEF Commit, SaveCredential
  <2>2. CASE call.op # "bind"
    BY <1>0, <2>2 DEF Commit, TypeOK
  <2>3. QED
    BY <2>1, <2>2
<1>3. /\ \A a \in artifacts : a.binding \in Bindings
      /\ \A e \in cache : e.binding \in Bindings
  BY <1>0 DEF TypeOK, Artifact, CacheEntry
<1>4. RowsCurrent'
  BY <1>0, <1>1, <1>2, <1>3 DEF StoresAgree, RowsCurrent
<1>5. EntriesCurrent'
  BY <1>0, <1>1, <1>2, <1>3 DEF StoresAgree, EntriesCurrent
<1>6. EntriesHaveRows'
  BY <1>0, <1>1 DEF StoresAgree, EntriesHaveRows
<1>7. CacheMirrorsRows'
  BY <1>0, <1>1
     DEF StoresAgree, CacheMirrorsRows, IInv, Own, AuthKeysStayInBinding
<1>8. QED
  BY <1>4, <1>5, <1>6, <1>7 DEF StoresAgree

\* A revalidation saves the credential it has read: it is still there.
LEMMA SerialRevalidate ==
    ASSUME IInv, SInv, NEW call \in inflight, RevalidateSave(call)
    PROVE  UNCHANGED <<credential, artifacts, cache, now>>
<1>1. /\ call \in RevalidateCall /\ credential \in [Bindings -> Cookies \cup {None}]
      /\ credential[call.binding] = call.cookie
  BY CallKinds DEF IInv, TypeOK, SInv, RevalidateSave, CallCurrent
<1>2. call.binding \in Bindings /\ call.cookie # None
  BY <1>1, ArtifactsAssumption DEF RevalidateCall
<1>3. call.binding \in Holders(call.binding, call.cookie)
  BY <1>1, <1>2 DEF Holders
<1>4. \A d \in Holders(call.binding, call.cookie) : d = call.binding
  BY <1>3 DEF RevalidateSave, CredentialAccepted
<1>5. SaveCredential(call.binding, call.cookie) = credential
  BY <1>1, <1>4 DEF SaveCredential
<1>6. QED
  BY <1>5 DEF RevalidateSave, stores

\* The transactions.
LEMMA SerialWipe ==
    ASSUME IInv, SInv, NEW call \in inflight, Wipe(call)
    PROVE  SInv'
<1>0. /\ call \in Calls /\ CallCurrent(call) /\ StoresAgree /\ TypeOK
  BY DEF IInv, TypeOK, SInv
<1>1. CASE Open(call)
  <2>1. call \in WipeCall
    BY <1>0, <1>1, CallKinds DEF Open
  <2>2. PICK seen : seen = {a.player : a \in {x \in artifacts :
                                                x.binding = call.binding}}
    OBVIOUS
  <2>3. PICK next : next = [call EXCEPT !.step = "open", !.seen = seen]
    OBVIOUS
  <2>4. Step(call, next) /\ UNCHANGED <<credential, artifacts, cache, now>>
    BY <1>1, <2>2, <2>3 DEF Open, Step, stores
  <2>5. CallCurrent(next)'
    BY <2>1, <2>2, <2>3, <2>4 DEF CallCurrent, WipeCall
  <2>6. QED
    BY <1>0, <2>4, <2>5, StoresKept, SerialGoesOn
<1>2. CASE Sweep(call)
  <2>1. call \in WipeCall
    BY <1>0, <1>2, CallKinds DEF Sweep
  <2>2. PICK next : next = [call EXCEPT !.step = "swept"]
    OBVIOUS
  <2>3. Step(call, next) /\ UNCHANGED <<credential, artifacts, cache, now>>
    BY <1>2, <2>2 DEF Sweep, Step, stores
  <2>4. call.step = "open"
    BY <1>2 DEF Sweep
  <2>5. CallCurrent(next)'
    BY <1>0, <2>1, <2>2, <2>3, <2>4 DEF CallCurrent, WipeCall
  <2>6. QED
    BY <1>0, <2>3, <2>5, StoresKept, SerialGoesOn
<1>3. CASE Purge(call)
  <2>1. call \in WipeCall /\ call.step = "swept"
    BY <1>0, <1>3, CallKinds DEF Purge
  <2>2. PICK next : next = [call EXCEPT !.step = "purged"]
    OBVIOUS
  <2>3. /\ Step(call, next) /\ UNCHANGED <<credential, artifacts, now>>
        /\ cache' = Purged(call)
    BY <1>3, <2>2 DEF Purge, Step
  <2>4. \A e \in cache' : e.binding # call.binding
    BY <1>0, <2>1, <2>3
       DEF Purged, CallCurrent, StoresAgree, EntriesHaveRows, WipeCall
  <2>5. CallCurrent(next)'
    BY <2>1, <2>2, <2>4 DEF CallCurrent, WipeCall
  <2>6. cache' \subseteq cache
    BY <2>3 DEF Purged
  <2>7. QED
    BY <1>0, <2>3, <2>5, <2>6, StoresKept, SerialGoesOn
<1>4. CASE Commit(call)
  BY <1>4, SerialCommit, SerialEnds DEF Commit
<1>5. CASE RevalidateSave(call)
  BY <1>0, <1>5, SerialRevalidate, StoresKept, SerialEnds DEF RevalidateSave
<1>6. QED
  BY <1>1, <1>2, <1>3, <1>4, <1>5 DEF Wipe

\* Time passes: rows and entries expire, none comes back.
LEMMA SerialTick == ASSUME IInv, SInv, Tick PROVE SInv'
<1>1. /\ UNCHANGED <<credential, artifacts, cache, inflight>>
      /\ now' = now + 1 /\ now \in Nat
  BY DEF Tick, stores, IInv, TypeOK, Times
<1>2. /\ \A a \in artifacts : a.expires \in Nat
      /\ \A e \in cache : e.until \in Nat /\ e.artifact.expires \in Nat
  BY DEF IInv, TypeOK, Artifact, CacheEntry, Times
<1>3. StoresAgree'
  <2>1. CacheMirrorsRows'
    BY <1>1, <1>2 DEF SInv, StoresAgree, CacheMirrorsRows
  <2>2. RowsCurrent' /\ EntriesCurrent' /\ EntriesHaveRows'
    BY <1>1 DEF SInv, StoresAgree, RowsCurrent, EntriesCurrent, EntriesHaveRows
  <2>3. QED
    BY <2>1, <2>2 DEF StoresAgree
<1>4. ASSUME NEW call \in inflight PROVE CallCurrent(call)'
  <2>1. Rows(call.binding, call.player)' \subseteq Rows(call.binding, call.player)
    BY <1>1, <1>2 DEF Rows
  <2>2. QED
    BY <1>1, <2>1 DEF SInv, CallCurrent
<1>5. QED
  BY <1>1, <1>3, <1>4 DEF SInv, Alone

LEMMA SerialNext == Overlap = FALSE /\ IInv /\ SInv /\ [Next]_vars => SInv'
<1> SUFFICES ASSUME Overlap = FALSE, IInv, SInv, [Next]_vars PROVE SInv'
  OBVIOUS
<1>1. CASE Arrive
  BY <1>1, SerialArrive DEF IInv
<1>2. CASE Tick
  BY <1>2, SerialTick
<1>3. ASSUME NEW call \in inflight, Look(call) \/ Keep(call) \/ Wipe(call)
      PROVE  SInv'
  BY <1>3, SerialLook, SerialKeep, SerialWipe
<1>4. ASSUME NEW call \in inflight, Fail(call)
      PROVE  SInv'
  <2>1. UNCHANGED <<credential, artifacts, cache, now>>
        /\ inflight' = inflight \ {call}
    BY <1>4 DEF Fail, stores
  <2>2. QED
    BY <2>1, StoresKept, SerialEnds DEF SInv
<1>5. CASE UNCHANGED vars
  <2>1. UNCHANGED <<credential, artifacts, cache, now, inflight>>
    BY <1>5 DEF vars, stores
  <2>2. StoresAgree'
    BY <2>1, StoresKept DEF SInv
  <2>3. \A call \in inflight : CallCurrent(call)'
    BY <2>1 DEF SInv, CallCurrent, Rows
  <2>4. QED
    BY <2>1, <2>2, <2>3 DEF SInv, Alone
<1>6. QED
  BY <1>1, <1>2, <1>3, <1>4, <1>5 DEF Next

-----------------------------------------------------------------------------
(* The theorems.                                                           *)

\* One RPC at a time: what it has read is current, and MySQL and Redis agree
\* with the credential and with each other.
THEOREM SerialInvariant ==
    ASSUME Overlap = FALSE
    PROVE  Spec => []SInv
<1>1. Init => SInv
  BY SerialInit
<1>2. IInv /\ SInv /\ [Next]_vars => SInv'
  BY SerialNext
<1>3. QED
  BY <1>1, <1>2, InvariantHolds, PTL DEF Spec

\* Whatever fails half way, after a Bind, an Update or a Delete neither
\* store holds an authkey of a credential that is gone.
THEOREM ArtifactsCurrent ==
    ASSUME Overlap = FALSE
    PROVE  Spec => []ArtifactsAreCurrent
<1>1. IInv /\ SInv => ArtifactsAreCurrent
  BY DEF SInv, StoresAgree, RowsCurrent, EntriesCurrent, ArtifactsAreCurrent, Live
<1>2. QED
  BY <1>1, SerialInvariant, InvariantHolds, PTL

\* An entry of Redis that has not expired, of an authkey that has not
\* expired, is a row of MySQL.
THEOREM CacheMirrors ==
    ASSUME Overlap = FALSE
    PROVE  Spec => []CacheMirrorsRows
<1>1. SInv => CacheMirrorsRows
  BY DEF SInv, StoresAgree
<1>2. QED
  BY <1>1, SerialInvariant, PTL

\* A stored authkey is replaced only when it has expired, and deleted only
\* by a Bind, an Update or a Delete of its binding: GetAuthKey never has the
\* upstream platform issue one it could have found.
THEOREM IssuedOnceHolds ==
    ASSUME Overlap = FALSE
    PROVE  Spec => IssuedOnce
<1>1. IInv /\ SInv /\ [Next]_vars => [IssuedOnceStep]_vars
  <2> SUFFICES ASSUME IInv, SInv, Next, NEW a \in artifacts, a \notin artifacts',
                      ~(a.expires <= now)
               PROVE  \E call \in inflight :
                         /\ call.op \in {"bind", "delete"}
                         /\ call.binding = a.binding
    BY DEF IssuedOnceStep
  <2>1. PICK call \in inflight : PutRow(call) \/ Commit(call)
    <3>1. ~Arrive /\ ~Tick
      BY DEF Arrive, GetAuthKey, Bind, Delete, Revalidate, Start, Tick, stores
    <3>2. \A call \in inflight : ~Look(call) /\ ~Fail(call)
      BY DEF Look, CacheHit, CacheMiss, RowFound, RowMissing, AnswerWith,
             Fail, stores
    <3>3. \A call \in inflight : Keep(call) => PutRow(call)
      BY DEF Keep, Issue, Store, StoreUnanswered, Fill, FillSkipped,
             AnswerWith, stores
    <3>4. \A call \in inflight : Wipe(call) => Commit(call)
      BY DEF Wipe, Open, Sweep, Purge, RevalidateSave, stores
    <3>5. QED
      BY <3>1, <3>2, <3>3, <3>4 DEF Next
  <2>2. CASE Commit(call)
    BY <2>2 DEF Commit, Unswept
  <2>3. CASE PutRow(call)
    <3>1. CallCurrent(call) /\ CallOwn(call)
      BY DEF SInv, IInv, Own
    <3>2. /\ a.binding = call.binding /\ a.player = call.player
          /\ Rows(call.binding, call.player) = {}
      BY <2>3, <3>1 DEF PutRow, PutArtifact, CallCurrent, CallOwn
    <3>3. a.expires \in Nat /\ now \in Nat
      BY DEF IInv, TypeOK, Artifact, Times
    <3>4. QED
      BY <3>2, <3>3 DEF Rows
  <2>4. QED
    BY <2>1, <2>2, <2>3
<1>2. QED
  BY <1>1, SerialInvariant, InvariantHolds, PTL DEF Spec, IssuedOnce
=============================================================================
