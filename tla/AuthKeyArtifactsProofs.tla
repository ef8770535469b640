----------------------- MODULE AuthKeyArtifactsProofs -----------------------
(***************************************************************************)
(* Proofs about AuthKeyArtifacts: for every set of requests, bindings,     *)
(* cookies and players, every clock and lifetime, however many RPCs        *)
(* overlap and wherever they fail.                                         *)
(***************************************************************************)
EXTENDS AuthKeyArtifacts, TLAPS

-----------------------------------------------------------------------------
(* The invariant.                                                          *)

\* What a running call carries was submitted for its binding: the cookie it
\* read or was given, and the artifact it is about to store.
CallOwn(call) ==
    /\ call.op = "get" => <<call.binding, call.cookie>> \in submitted
    /\ call.op = "revalidate" => <<call.binding, call.cookie>> \in submitted
    /\ call.op = "bind" => <<call.binding, call.cookie>> \in submitted
    /\ call.op = "get" /\ call.step \in {"put", "fill", "store"} =>
         /\ call.artifact.binding = call.binding
         /\ call.artifact.player = call.player
         /\ IssuedFor(call.artifact)

Own ==
    /\ AuthKeysStayInBinding
    /\ \A call \in inflight : CallOwn(call)
    /\ \A b \in Bindings :
         credential[b] # None => <<b, credential[b]>> \in submitted

\* An entry of the cache ends with its artifact, or a SET later; a call that
\* has found an artifact found it unexpired, after it began.
CallTimely(call) ==
    call.op = "get" =>
        /\ call.since <= now
        /\ call.step = "fill" => call.artifact.expires > call.since

Timely ==
    /\ ServedUnexpired
    /\ \A e \in cache : e.until <= e.artifact.expires + SetDelay
    /\ \A call \in inflight : CallTimely(call)

IInv == TypeOK /\ Own /\ Timely

-----------------------------------------------------------------------------
(* The kinds of calls.                                                     *)

LEMMA CallKinds ==
    ASSUME NEW call \in Calls
    PROVE  /\ call.id \in Requests
           /\ call.binding \in Bindings
           /\ call.op \in {"get", "bind", "delete", "revalidate"}
           /\ call.op = "get" /\ call.step \in {"lookup", "select", "issue"}
                => call \in GetCall
           /\ call.op = "get" /\ call.step \in {"put", "fill", "store"}
                => call \in StoreCall
           /\ call.op \in {"bind", "delete"} => call \in WipeCall
           /\ call.op = "revalidate" => call \in RevalidateCall
  BY DEF Calls, GetCall, StoreCall, WipeCall, RevalidateCall

\* The entry a SET leaves, if any, is the artifact under its own key.
LEMMA CachedTypes ==
    ASSUME NEW a \in Artifact, NEW at \in Nat, now \in Nat,
           cache \subseteq CacheEntry
    PROVE  Cached(a, at) \subseteq CacheEntry
  BY DEF Cached, CacheWithout, CacheEntry, Artifact, Times

LEMMA CachedEntries ==
    ASSUME NEW a, NEW at, NEW e \in Cached(a, at)
    PROVE  \/ e \in cache
           \/ /\ e.binding = a.binding /\ e.player = a.player
              /\ e.artifact = a /\ a.expires > at
              /\ e.until = now + (a.expires - at)
  BY DEF Cached, CacheWithout

\* A binding's credential is lost, kept or the one saved.
LEMMA SaveCredentialTypes ==
    ASSUME TypeOK, NEW b \in Bindings, NEW cookie \in Cookies
    PROVE  /\ SaveCredential(b, cookie) \in [Bindings -> Cookies \cup {None}]
           /\ \A d \in Bindings : \/ SaveCredential(b, cookie)[d] = None
                                  \/ SaveCredential(b, cookie)[d] = credential[d]
                                  \/ d = b /\ SaveCredential(b, cookie)[d] = cookie
  BY DEF TypeOK, SaveCredential

-----------------------------------------------------------------------------
(* Type correctness.                                                       *)

LEMMA TypeInit == Init => TypeOK
  BY DEF Init, TypeOK, Times

\* What an authkey is issued as.
IssuedArtifact(call, lifetime) ==
    [binding |-> call.binding, player |-> call.player,
     key |-> [cookie |-> call.cookie, player |-> call.player],
     expires |-> now + lifetime]

LEMMA StoringTypes ==
    ASSUME NEW call \in GetCall, NEW a \in Artifact, now \in Times,
           NEW step \in {"put", "fill", "store"}
    PROVE  Storing(call, step, a) \in StoreCall
  BY DEF Storing, GetCall, StoreCall

LEMMA TypeArrive == ASSUME TypeOK, Arrive PROVE TypeOK'
<1> USE DEF TypeOK
<1>1. PICK r \in Requests, b \in Bindings :
         \/ \E p \in Players : GetAuthKey(r, b, p)
         \/ \E cookie \in Cookies : Bind(r, b, cookie)
         \/ Delete(r, b)
         \/ Revalidate(r, b)
  BY DEF Arrive
<1>2. ASSUME NEW call \in Calls, Start(call), submitted' \subseteq Bindings \X Cookies
      PROVE  TypeOK'
  <2>1. call.id \in Requests
    BY CallKinds
  <2>2. QED
    BY <1>2, <2>1 DEF Start, stores
<1>3. CASE \E p \in Players : GetAuthKey(r, b, p)
  <2>1. PICK p \in Players : GetAuthKey(r, b, p)
    BY <1>3
  <2>2. [id |-> r, op |-> "get", step |-> "lookup", binding |-> b,
         player |-> p, cookie |-> credential[b], since |-> now] \in Calls
    BY <2>1 DEF GetAuthKey, Calls, GetCall
  <2>3. QED
    BY <1>2, <2>1, <2>2 DEF GetAuthKey
<1>4. CASE \E cookie \in Cookies : Bind(r, b, cookie)
  <2>1. PICK cookie \in Cookies : Bind(r, b, cookie)
    BY <1>4
  <2>2. [id |-> r, op |-> "bind", step |-> "begun", binding |-> b,
         cookie |-> cookie, seen |-> {}] \in Calls
    BY DEF Calls, WipeCall
  <2>3. QED
    BY <1>2, <2>1, <2>2 DEF Bind
<1>5. CASE Delete(r, b)
  <2>1. [id |-> r, op |-> "delete", step |-> "begun", binding |-> b,
         cookie |-> None, seen |-> {}] \in Calls
    BY DEF Calls, WipeCall
  <2>2. QED
    BY <1>2, <1>5, <2>1 DEF Delete
<1>6. CASE Revalidate(r, b)
  <2>1. [id |-> r, op |-> "revalidate", binding |-> b,
         cookie |-> credential[b]] \in Calls
    BY <1>6 DEF Revalidate, Calls, RevalidateCall
  <2>2. QED
    BY <1>2, <1>6, <2>1 DEF Revalidate
<1>7. QED
  BY <1>1, <1>3, <1>4, <1>5, <1>6

LEMMA TypeAnswer ==
    ASSUME TypeOK, NEW call \in inflight, NEW a \in Artifact,
           NEW found \in BOOLEAN,
           call \in GetCall \cup StoreCall,
           AnswerWith(call, a, found), cache' \subseteq CacheEntry
    PROVE  TypeOK'
<1>1. [id |-> call.id, binding |-> call.binding, player |-> call.player,
       cookie |-> call.cookie, since |-> call.since, key |-> a.key,
       expires |-> a.expires, found |-> found] \in Answer
  BY DEF GetCall, StoreCall, Answer, Artifact
<1>2. QED
  BY <1>1 DEF TypeOK, AnswerWith

LEMMA TypeStep ==
    ASSUME TypeOK, NEW call \in inflight, NEW next \in Calls,
           Step(call, next), artifacts' \subseteq Artifact,
           cache' \subseteq CacheEntry
    PROVE  TypeOK'
  BY DEF TypeOK, Step

LEMMA TypeLook == ASSUME TypeOK, NEW call \in inflight, Look(call)
                  PROVE  TypeOK'
<1>0. call \in Calls
  BY DEF TypeOK
<1>1. CASE CacheHit(call)
  <2>1. PICK e \in Live(call.binding, call.player) :
           AnswerWith(call, e.artifact, TRUE)
    BY <1>1 DEF CacheHit
  <2>2. e.artifact \in Artifact /\ call \in GetCall
    BY <1>0, <1>1, <2>1, CallKinds DEF CacheHit, Live, TypeOK, CacheEntry
  <2>3. cache' \subseteq CacheEntry
    BY <1>1 DEF CacheHit, TypeOK
  <2>4. QED
    BY <2>1, <2>2, <2>3, TypeAnswer
<1>2. CASE CacheMiss(call)
  <2>1. call \in GetCall
    BY <1>0, <1>2, CallKinds DEF CacheMiss
  <2>2. [call EXCEPT !.step = "select"] \in Calls
    BY <2>1 DEF GetCall, Calls
  <2>3. QED
    BY <1>2, <2>2, TypeStep DEF CacheMiss, stores, TypeOK
<1>3. CASE RowFound(call)
  <2>1. PICK a \in Rows(call.binding, call.player) :
           Step(call, Storing(call, "fill", a))
    BY <1>3 DEF RowFound
  <2>2. call \in GetCall /\ a \in Artifact
    BY <1>0, <1>3, <2>1, CallKinds DEF RowFound, Rows, TypeOK
  <2>3. Storing(call, "fill", a) \in Calls
    BY <2>2, StoringTypes DEF Calls, TypeOK
  <2>4. QED
    BY <1>3, <2>1, <2>3, TypeStep DEF RowFound, stores, TypeOK
<1>4. CASE RowMissing(call)
  <2>1. call \in GetCall
    BY <1>0, <1>4, CallKinds DEF RowMissing
  <2>2. [call EXCEPT !.step = "issue"] \in Calls
    BY <2>1 DEF GetCall, Calls
  <2>3. QED
    BY <1>4, <2>2, TypeStep DEF RowMissing, stores, TypeOK
<1>5. QED
  BY <1>1, <1>2, <1>3, <1>4 DEF Look

LEMMA TypeKeep == ASSUME TypeOK, NEW call \in inflight, Keep(call)
                  PROVE  TypeOK'
<1>0. call \in Calls /\ now \in Nat /\ cache \subseteq CacheEntry
  BY DEF TypeOK, Times
<1>1. ASSUME NEW lifetime \in Lifetimes, Issue(call, lifetime)
      PROVE  TypeOK'
  <2>1. call \in GetCall
    BY <1>0, <1>1, CallKinds DEF Issue
  <2>2. IssuedArtifact(call, lifetime) \in Artifact
    BY <1>0, <2>1, ArtifactsAssumption
       DEF IssuedArtifact, Artifact, AuthKey, GetCall, Times
  <2>3. Storing(call, "put", IssuedArtifact(call, lifetime)) \in Calls
    BY <1>0, <2>1, <2>2, StoringTypes DEF Calls, Times
  <2>4. Step(call, Storing(call, "put", IssuedArtifact(call, lifetime)))
    BY <1>1 DEF Issue, IssuedArtifact
  <2>5. QED
    BY <1>1, <2>3, <2>4, TypeStep DEF Issue, stores, TypeOK
<1>2. CASE call.op = "get" /\ call.step \in {"put", "fill", "store"}
  <2>1. call \in StoreCall /\ call.artifact \in Artifact
    BY <1>0, <1>2, CallKinds DEF StoreCall
  <2>2. ASSUME NEW at \in 0..now
        PROVE  Cached(call.artifact, at) \subseteq CacheEntry
    BY <1>0, <2>1, CachedTypes
  <2>3. CASE PutRow(call)
    <3>1. [call EXCEPT !.step = "store", !.read = now] \in Calls
      BY <1>0, <2>1 DEF StoreCall, Calls, Times
    <3>2. artifacts' \subseteq Artifact
      BY <2>1, <2>3 DEF PutRow, PutArtifact, TypeOK
    <3>3. QED
      BY <1>0, <2>3, <3>1, <3>2, TypeStep DEF PutRow
  <2>4. ASSUME NEW at \in 0..now,
               Store(call, at) \/ StoreUnanswered(call, at) \/ Fill(call, at)
        PROVE  TypeOK'
    <3>1. cache' \subseteq CacheEntry
      BY <2>2, <2>4 DEF Store, StoreUnanswered, Fill
    <3>2. CASE StoreUnanswered(call, at)
      BY <3>1, <3>2 DEF StoreUnanswered, TypeOK
    <3>3. CASE Store(call, at)
      BY <2>1, <3>1, <3>3, TypeAnswer DEF Store
    <3>4. CASE Fill(call, at)
      BY <2>1, <3>1, <3>4, TypeAnswer DEF Fill
    <3>5. QED
      BY <2>4, <3>2, <3>3, <3>4
  <2>5. CASE FillSkipped(call)
    BY <1>0, <2>1, <2>5, TypeAnswer DEF FillSkipped
  <2>6. CASE \E lifetime \in Lifetimes : Issue(call, lifetime)
    BY <1>1, <2>6
  <2>7. QED
    BY <2>3, <2>4, <2>5, <2>6 DEF Keep
<1>3. QED
  BY <1>1, <1>2
     DEF Keep, Issue, PutRow, Store, StoreUnanswered, Fill, FillSkipped

LEMMA TypeWipe == ASSUME TypeOK, NEW call \in inflight, Wipe(call)
                  PROVE  TypeOK'
<1>0. call \in Calls
  BY DEF TypeOK
<1>1. CASE Open(call) \/ Sweep(call) \/ Purge(call)
  <2>1. call \in WipeCall
    BY <1>0, <1>1, CallKinds DEF Open, Sweep, Purge
  <2>2. \A step \in {"open", "swept", "purged"}, seen \in SUBSET Players :
           /\ [call EXCEPT !.step = step] \in Calls
           /\ [call EXCEPT !.step = step, !.seen = seen] \in Calls
    BY <2>1 DEF WipeCall, Calls
  <2>3. {a.player : a \in {x \in artifacts : x.binding = call.binding}}
           \subseteq Players
    BY DEF TypeOK, Artifact
  <2>4. CASE Open(call)
    BY <2>2, <2>3, <2>4, TypeStep DEF Open, stores, TypeOK
  <2>5. CASE Sweep(call)
    BY <2>2, <2>5, TypeStep DEF Sweep, stores, TypeOK
  <2>6. CASE Purge(call)
    BY <2>2, <2>6, TypeStep DEF Purge, Purged, TypeOK
  <2>7. QED
    BY <1>1, <2>4, <2>5, <2>6
<1>2. CASE Commit(call)
  <2>1. call \in WipeCall /\ call.binding \in Bindings
    BY <1>0, <1>2, CallKinds DEF Commit
  <2>2. credential' \in [Bindings -> Cookies \cup {None}]
    <3>1. CASE call.op = "delete"
      BY <1>2, <2>1, <3>1 DEF Commit, TypeOK
    <3>2. CASE call.op = "bind"
      <4>1. credential' = SaveCredential(call.binding, call.cookie)
        BY <1>2, <3>2 DEF Commit
      <4>2. call.cookie \in Cookies \cup {None}
        BY <2>1 DEF WipeCall
      <4>3. QED
        BY <2>1, <4>1, <4>2 DEF SaveCredential, TypeOK
    <3>3. QED
      BY <1>2, <3>1, <3>2 DEF Commit
  <2>3. QED
    BY <1>2, <2>2 DEF Commit, Unswept, TypeOK
<1>3. CASE RevalidateSave(call)
  <2>1. call \in RevalidateCall
    BY <1>0, <1>3, CallKinds DEF RevalidateSave
  <2>2. credential' \in [Bindings -> Cookies \cup {None}]
    BY <1>3, <2>1, SaveCredentialTypes DEF RevalidateSave, RevalidateCall
  <2>3. QED
    BY <1>3, <2>2 DEF RevalidateSave, stores, TypeOK
<1>4. QED
  BY <1>1, <1>2, <1>3 DEF Wipe

LEMMA TypeNext == ASSUME TypeOK, [Next]_vars PROVE TypeOK'
<1>1. CASE Arrive
  BY <1>1, TypeArrive
<1>2. CASE Tick
  BY <1>2 DEF Tick, TypeOK, stores, Times
<1>3. ASSUME NEW call \in inflight,
             Look(call) \/ Keep(call) \/ Wipe(call) \/ Fail(call)
      PROVE  TypeOK'
  <2>1. CASE Fail(call)
    BY <2>1 DEF Fail, TypeOK, stores
  <2>2. QED
    BY <1>3, <2>1, TypeLook, TypeKeep, TypeWipe
<1>4. CASE UNCHANGED vars
  BY <1>4 DEF vars, stores, TypeOK
<1>5. QED
  BY <1>1, <1>2, <1>3, <1>4 DEF Next

-----------------------------------------------------------------------------
(* Authkeys stay in their binding.                                         *)

\* A step that stores only artifacts of the binding and player they were
\* issued for, and answers only with those, keeps the property.
LEMMA OwnKept ==
    ASSUME Own, submitted \subseteq submitted',
           \A a \in artifacts' : a \in artifacts \/ IssuedFor(a),
           \A e \in cache' : \/ e \in cache
                             \/ /\ e.artifact.binding = e.binding
                                /\ e.artifact.player = e.player
                                /\ IssuedFor(e.artifact),
           \A x \in answers' : \/ x \in answers
                               \/ /\ <<x.binding, x.key.cookie>> \in submitted
                                  /\ x.key.player = x.player,
           \A call \in inflight' : \/ call \in inflight
                                   \/ CallOwn(call)'
    PROVE  /\ AuthKeysStayInBinding'
           /\ \A call \in inflight' : CallOwn(call)'
<1>1. AuthKeysStayInBinding'
  BY DEF Own, AuthKeysStayInBinding, IssuedFor
<1>2. ASSUME NEW call \in inflight PROVE CallOwn(call)'
  BY <1>2 DEF Own, CallOwn, IssuedFor
<1>3. QED
  BY <1>1, <1>2

LEMMA OwnStep ==
    ASSUME Own, NEW call \in inflight, NEW next, Step(call, next),
           CallOwn(next)', cache' \subseteq cache,
           \A a \in artifacts' : a \in artifacts \/ IssuedFor(a)
    PROVE  Own'
  BY OwnKept DEF Step, Own

LEMMA OwnStart ==
    ASSUME Own, NEW call, Start(call), CallOwn(call)',
           submitted \subseteq submitted'
    PROVE  Own'
<1>1. UNCHANGED <<credential, artifacts, cache, answers>>
  BY DEF Start, stores
<1>2. \A c \in inflight' : c \in inflight \/ CallOwn(c)'
  BY DEF Start
<1>3. QED
  BY <1>1, <1>2, OwnKept DEF Own

LEMMA OwnInit == Init => Own
  BY DEF Init, Own, AuthKeysStayInBinding

LEMMA OwnArrive == ASSUME TypeOK, Own, Arrive PROVE Own'
<1>1. PICK r \in Requests, b \in Bindings :
         \/ \E p \in Players : GetAuthKey(r, b, p)
         \/ \E cookie \in Cookies : Bind(r, b, cookie)
         \/ Delete(r, b)
         \/ Revalidate(r, b)
  BY DEF Arrive
<1>2. CASE \E p \in Players : GetAuthKey(r, b, p)
  <2>1. PICK p \in Players : GetAuthKey(r, b, p)
    BY <1>2
  <2>a. PICK call : call = [id |-> r, op |-> "get", step |-> "lookup",
                            binding |-> b, player |-> p,
                            cookie |-> credential[b], since |-> now]
    OBVIOUS
  <2>2. Start(call) /\ credential[b] # None /\ submitted' = submitted
    BY <2>a, <2>1 DEF GetAuthKey
  <2>3. <<b, credential[b]>> \in submitted'
    BY <2>2 DEF Own
  <2>4. CallOwn(call)'
    BY <2>a, <2>3 DEF CallOwn
  <2>5. QED
    BY <2>2, <2>4, OwnStart
<1>3. CASE \E cookie \in Cookies : Bind(r, b, cookie)
  <2>1. PICK cookie \in Cookies : Bind(r, b, cookie)
    BY <1>3
  <2> DEFINE call == [id |-> r, op |-> "bind", step |-> "begun",
                      binding |-> b, cookie |-> cookie, seen |-> {}]
  <2>2. Start(call) /\ submitted' = submitted \cup {<<b, cookie>>}
    BY <2>1 DEF Bind
  <2>3. CallOwn(call)'
    BY <2>2 DEF CallOwn
  <2>4. QED
    BY <2>2, <2>3, OwnStart
<1>4. CASE Delete(r, b)
  <2> DEFINE call == [id |-> r, op |-> "delete", step |-> "begun",
                      binding |-> b, cookie |-> None, seen |-> {}]
  <2>1. Start(call) /\ submitted' = submitted /\ CallOwn(call)'
    BY <1>4 DEF Delete, CallOwn
  <2>2. QED
    BY <2>1, OwnStart
<1>5. CASE Revalidate(r, b)
  <2>a. PICK call : call = [id |-> r, op |-> "revalidate", binding |-> b,
                            cookie |-> credential[b]]
    OBVIOUS
  <2>1. Start(call) /\ credential[b] # None /\ submitted' = submitted
    BY <1>5, <2>a DEF Revalidate
  <2>2. <<b, credential[b]>> \in submitted'
    BY <2>1 DEF Own
  <2>3. CallOwn(call)'
    BY <2>a, <2>2 DEF CallOwn
  <2>4. QED
    BY <2>1, <2>3, OwnStart
<1>6. QED
  BY <1>1, <1>2, <1>3, <1>4, <1>5

LEMMA OwnLook == ASSUME TypeOK, Own, NEW call \in inflight, Look(call)
                 PROVE  Own'
<1>0. CallOwn(call)
  BY DEF Own
<1>1. CASE CacheHit(call)
  <2>1. PICK e \in Live(call.binding, call.player) :
           AnswerWith(call, e.artifact, TRUE)
    BY <1>1 DEF CacheHit
  <2>2. /\ <<call.binding, e.artifact.key.cookie>> \in submitted
        /\ e.artifact.key.player = call.player
    BY DEF Live, Own, AuthKeysStayInBinding, IssuedFor
  <2>3. \A x \in answers' : \/ x \in answers
                            \/ /\ <<x.binding, x.key.cookie>> \in submitted
                               /\ x.key.player = x.player
    BY <2>1, <2>2 DEF AnswerWith
  <2>4. QED
    BY <1>1, <2>1, <2>3, OwnKept DEF CacheHit, AnswerWith, Own
<1>2. CASE CacheMiss(call)
  <2>1. CallOwn([call EXCEPT !.step = "select"])'
    BY <1>0, <1>2 DEF CacheMiss, Step, CallOwn
  <2>2. QED
    BY <1>2, <2>1, OwnStep DEF CacheMiss, stores
<1>3. CASE RowFound(call)
  <2>1. PICK a \in Rows(call.binding, call.player) :
           Step(call, Storing(call, "fill", a))
    BY <1>3 DEF RowFound
  <2>2. /\ a.binding = call.binding /\ a.player = call.player
        /\ <<call.binding, a.key.cookie>> \in submitted
        /\ a.key.player = call.player
    BY <2>1 DEF Rows, Own, AuthKeysStayInBinding, IssuedFor
  <2>3. PICK next : next = Storing(call, "fill", a)
    OBVIOUS
  <2>4. CallOwn(next)'
    BY <1>0, <1>3, <2>1, <2>2, <2>3
       DEF RowFound, Step, CallOwn, Storing, IssuedFor
  <2>5. QED
    BY <1>3, <2>1, <2>3, <2>4, OwnStep DEF RowFound, stores
<1>4. CASE RowMissing(call)
  <2>1. CallOwn([call EXCEPT !.step = "issue"])'
    BY <1>0, <1>4 DEF RowMissing, Step, CallOwn
  <2>2. QED
    BY <1>4, <2>1, OwnStep DEF RowMissing, stores
<1>5. QED
  BY <1>1, <1>2, <1>3, <1>4 DEF Look

\* The answer of a call that carries an artifact of its own.
LEMMA OwnAnswer ==
    ASSUME Own, NEW call \in inflight, NEW found,
           call.op = "get", call.step \in {"put", "fill", "store"},
           AnswerWith(call, call.artifact, found),
           cache' = cache \/ \E at \in Nat : cache' = Cached(call.artifact, at)
    PROVE  Own'
<1>1. /\ call.artifact.binding = call.binding
      /\ call.artifact.player = call.player
      /\ IssuedFor(call.artifact)
  BY DEF Own, CallOwn
<1>2. \A x \in answers' : \/ x \in answers
                          \/ /\ <<x.binding, x.key.cookie>> \in submitted
                             /\ x.key.player = x.player
  BY <1>1 DEF AnswerWith, IssuedFor
<1>3. \A e \in cache' : \/ e \in cache
                        \/ /\ e.artifact.binding = e.binding
                           /\ e.artifact.player = e.player
                           /\ IssuedFor(e.artifact)
  BY <1>1, CachedEntries
<1>4. QED
  BY <1>2, <1>3, OwnKept DEF AnswerWith, Own

LEMMA OwnKeep == ASSUME TypeOK, Own, NEW call \in inflight, Keep(call)
                 PROVE  Own'
<1>0. CallOwn(call) /\ now \in Nat
  BY DEF Own, TypeOK, Times
<1>1. ASSUME NEW lifetime \in Lifetimes, Issue(call, lifetime)
      PROVE  Own'
  <2>1. PICK next : next = Storing(call, "put", IssuedArtifact(call, lifetime))
    OBVIOUS
  <2>2. Step(call, next) /\ call.op = "get"
    BY <1>1, <2>1 DEF Issue, IssuedArtifact
  <2>3. CallOwn(next)'
    BY <1>0, <2>1, <2>2 DEF Step, CallOwn, Storing, IssuedArtifact, IssuedFor
  <2>4. QED
    BY <1>1, <2>2, <2>3, OwnStep DEF Issue, stores
<1>2. CASE PutRow(call)
  <2>1. IssuedFor(call.artifact)
    BY <1>0, <1>2 DEF PutRow, CallOwn
  <2>2. PICK next : next = [call EXCEPT !.step = "store", !.read = now]
    OBVIOUS
  <2>3. call \in StoreCall
    BY <1>2, CallKinds DEF PutRow, TypeOK
  <2>4. CallOwn(next)'
    BY <1>0, <1>2, <2>2, <2>3 DEF PutRow, Step, CallOwn, IssuedFor, StoreCall
  <2>5. QED
    BY <1>2, <2>1, <2>2, <2>4, OwnStep DEF PutRow, PutArtifact
<1>3. ASSUME NEW at \in 0..now,
             Store(call, at) \/ StoreUnanswered(call, at) \/ Fill(call, at)
      PROVE  Own'
  <2>1. at \in Nat
    BY <1>0
  <2>2. CASE Store(call, at)
    BY <2>1, <2>2, OwnAnswer DEF Store
  <2>3. CASE Fill(call, at)
    BY <2>1, <2>3, OwnAnswer DEF Fill
  <2>4. CASE StoreUnanswered(call, at)
    <3>1. \A e \in cache' : \/ e \in cache
                            \/ /\ e.artifact.binding = e.binding
                               /\ e.artifact.player = e.player
                               /\ IssuedFor(e.artifact)
      BY <1>0, <2>4, CachedEntries DEF StoreUnanswered, CallOwn
    <3>2. QED
      BY <2>4, <3>1, OwnKept DEF StoreUnanswered, Own
  <2>5. QED
    BY <1>3, <2>2, <2>3, <2>4
<1>4. CASE FillSkipped(call)
  BY <1>4, OwnAnswer DEF FillSkipped
<1>5. QED
  BY <1>1, <1>2, <1>3, <1>4 DEF Keep

LEMMA OwnWipe == ASSUME TypeOK, Own, NEW call \in inflight, Wipe(call)
                 PROVE  Own'
<1>0. CallOwn(call) /\ call \in Calls
  BY DEF Own, TypeOK
<1>1. CASE Open(call) \/ Sweep(call) \/ Purge(call)
  <2>1. PICK next : /\ Step(call, next) /\ next.op = call.op
                    /\ next.binding = call.binding
                    /\ next.cookie = call.cookie
    <3>1. call \in WipeCall
      BY <1>0, <1>1, CallKinds DEF Open, Sweep, Purge
    <3>2. CASE Open(call)
      <4>1. PICK seen :
               Step(call, [call EXCEPT !.step = "open", !.seen = seen])
        BY <3>2 DEF Open
      <4>2. PICK next : next = [call EXCEPT !.step = "open", !.seen = seen]
        OBVIOUS
      <4>3. /\ next.op = call.op /\ next.binding = call.binding
            /\ next.cookie = call.cookie
        BY <3>1, <4>2 DEF WipeCall
      <4>4. QED
        BY <4>1, <4>2, <4>3
    <3>3. CASE Sweep(call)
      BY <3>1, <3>3 DEF Sweep, WipeCall
    <3>4. CASE Purge(call)
      BY <3>1, <3>4 DEF Purge, WipeCall
    <3>5. QED
      BY <1>1, <3>2, <3>3, <3>4
  <2>2. call.op \in {"bind", "delete"}
    BY <1>1 DEF Open, Sweep, Purge
  <2>3. CallOwn(next)'
    BY <1>0, <2>1, <2>2 DEF CallOwn, Step
  <2>4. artifacts' = artifacts /\ cache' \subseteq cache
    BY <1>1 DEF Open, Sweep, Purge, Purged, stores
  <2>5. QED
    BY <2>1, <2>3, <2>4, OwnStep
<1>2. CASE Commit(call) \/ RevalidateSave(call)
  <2>1. /\ artifacts' \subseteq artifacts /\ cache' = cache
        /\ inflight' \subseteq inflight /\ UNCHANGED <<submitted, answers>>
    BY <1>2 DEF Commit, RevalidateSave, Unswept, stores
  <2>2. \A b \in Bindings : \/ credential'[b] = None
                            \/ credential'[b] = credential[b]
                            \/ <<b, credential'[b]>> \in submitted
    <3>0. call.binding \in Bindings
      BY <1>0, CallKinds
    <3>1. CASE Commit(call) /\ call.op = "delete"
      BY <3>0, <3>1 DEF Commit, TypeOK
    <3>2. CASE credential' = SaveCredential(call.binding, call.cookie)
               /\ call.op \in {"bind", "revalidate"}
      BY <1>0, <3>0, <3>2 DEF SaveCredential, CallOwn
    <3>3. QED
      BY <1>2, <3>1, <3>2 DEF Commit, RevalidateSave
  <2>3. QED
    BY <2>1, <2>2, OwnKept DEF Own
<1>3. QED
  BY <1>1, <1>2 DEF Wipe

LEMMA OwnNext == ASSUME TypeOK, Own, [Next]_vars PROVE Own'
<1>1. CASE Arrive
  BY <1>1, OwnArrive
<1>2. ASSUME NEW call \in inflight,
             Look(call) \/ Keep(call) \/ Wipe(call)
      PROVE  Own'
  BY <1>2, OwnLook, OwnKeep, OwnWipe
<1>3. CASE Tick \/ (\E call \in inflight : Fail(call)) \/ UNCHANGED vars
  <2>1. /\ UNCHANGED <<credential, artifacts, cache, submitted, answers>>
        /\ inflight' \subseteq inflight
    BY <1>3 DEF Tick, Fail, vars, stores
  <2>2. QED
    BY <2>1, OwnKept DEF Own
<1>4. QED
  BY <1>1, <1>2, <1>3 DEF Next

-----------------------------------------------------------------------------
(* A found authkey has not expired.                                        *)

LEMMA CallTimes ==
    ASSUME TypeOK, NEW call \in inflight, call.op = "get"
    PROVE  /\ call.since \in Nat
           /\ call.step \in {"put", "fill", "store"} =>
                call.artifact.expires \in Nat
<1>1. call \in GetCall \cup StoreCall
  BY DEF TypeOK, Calls, WipeCall, RevalidateCall
<1>2. QED
  BY <1>1 DEF GetCall, StoreCall, Artifact, Times

LEMMA TimelyInit == Init => Timely
  BY DEF Init, Timely, ServedUnexpired

\* A step of one call that leaves the clock alone.
LEMMA TimelyKept ==
    ASSUME Timely, now' = now,
           \A e \in cache' : \/ e \in cache
                             \/ e.until <= e.artifact.expires + SetDelay,
           \A x \in answers' : \/ x \in answers
                               \/ x.found => x.expires + SetDelay > x.since,
           \A call \in inflight' : call \in inflight \/ CallTimely(call)
    PROVE  Timely'
  BY DEF Timely, ServedUnexpired, CallTimely

LEMMA TimelyArrive == ASSUME TypeOK, Timely, Arrive PROVE Timely'
<1>1. PICK r \in Requests, b \in Bindings :
         \/ \E p \in Players : GetAuthKey(r, b, p)
         \/ \E cookie \in Cookies : Bind(r, b, cookie)
         \/ Delete(r, b)
         \/ Revalidate(r, b)
  BY DEF Arrive
<1>2. ASSUME NEW call, Start(call), CallTimely(call)
      PROVE  Timely'
  BY <1>2, TimelyKept DEF Start, stores
<1>3. now \in Nat
  BY DEF TypeOK, Times
<1>4. CASE \E p \in Players : GetAuthKey(r, b, p)
  BY <1>2, <1>3, <1>4 DEF GetAuthKey, CallTimely
<1>5. CASE \E cookie \in Cookies : Bind(r, b, cookie)
  BY <1>2, <1>5 DEF Bind, CallTimely
<1>6. CASE Delete(r, b)
  BY <1>2, <1>6 DEF Delete, CallTimely
<1>7. CASE Revalidate(r, b)
  BY <1>2, <1>7 DEF Revalidate, CallTimely
<1>8. QED
  BY <1>1, <1>4, <1>5, <1>6, <1>7

LEMMA TimelyStep ==
    ASSUME Timely, NEW call \in inflight, NEW next, Step(call, next),
           CallTimely(next), cache' \subseteq cache
    PROVE  Timely'
  BY TimelyKept DEF Step

LEMMA TimelyLook ==
    ASSUME TypeOK, Timely, NEW call \in inflight, Look(call)
    PROVE  Timely'
<1>0. CallTimely(call) /\ now \in Nat /\ SetDelay \in Nat
  BY ArtifactsAssumption DEF Timely, TypeOK, Times
<1>1. CASE CacheHit(call)
  <2>1. PICK e \in Live(call.binding, call.player) :
           AnswerWith(call, e.artifact, TRUE)
    BY <1>1 DEF CacheHit
  <2>2. /\ e \in cache /\ e.until > now
        /\ e.until \in Nat /\ e.artifact.expires \in Nat
    BY DEF Live, TypeOK, CacheEntry, Artifact, Times
  <2>3. call.since <= now /\ call.since \in Nat
    BY <1>0, <1>1, CallTimes DEF CacheHit, CallTimely
  <2>4. e.artifact.expires + SetDelay > call.since
    BY <1>0, <2>2, <2>3 DEF Timely
  <2>5. QED
    BY <1>1, <2>1, <2>4, TimelyKept DEF CacheHit, AnswerWith
<1>2. CASE CacheMiss(call)
  <2>1. call \in GetCall
    BY <1>2, CallKinds DEF CacheMiss, TypeOK
  <2>2. CallTimely([call EXCEPT !.step = "select"])
    BY <1>0, <2>1 DEF CallTimely, GetCall
  <2>3. QED
    BY <1>2, <2>2, TimelyStep DEF CacheMiss, stores
<1>3. CASE RowFound(call)
  <2>1. PICK a \in Rows(call.binding, call.player) :
           Step(call, Storing(call, "fill", a))
    BY <1>3 DEF RowFound
  <2>2. a.expires > now /\ a.expires \in Nat
    BY DEF Rows, TypeOK, Artifact, Times
  <2>3. call.since <= now /\ call.since \in Nat
    BY <1>0, <1>3, CallTimes DEF RowFound, CallTimely
  <2>4. CallTimely(Storing(call, "fill", a))
    BY <1>0, <2>2, <2>3 DEF CallTimely, Storing
  <2>5. QED
    BY <1>3, <2>1, <2>4, TimelyStep DEF RowFound, stores
<1>4. CASE RowMissing(call)
  <2>1. call \in GetCall
    BY <1>4, CallKinds DEF RowMissing, TypeOK
  <2>2. CallTimely([call EXCEPT !.step = "issue"])
    BY <1>0, <2>1 DEF CallTimely, GetCall
  <2>3. QED
    BY <1>4, <2>2, TimelyStep DEF RowMissing, stores
<1>5. QED
  BY <1>1, <1>2, <1>3, <1>4 DEF Look

LEMMA TimelyKeep ==
    ASSUME TypeOK, Timely, NEW call \in inflight, Keep(call)
    PROVE  Timely'
<1>0. CallTimely(call) /\ now \in Nat /\ SetDelay \in Nat
  BY ArtifactsAssumption DEF Timely, TypeOK, Times
<1>1. ASSUME NEW lifetime \in Lifetimes, Issue(call, lifetime)
      PROVE  Timely'
  <2>1. Step(call, Storing(call, "put", IssuedArtifact(call, lifetime)))
    BY <1>1 DEF Issue, IssuedArtifact
  <2>2. CallTimely(Storing(call, "put", IssuedArtifact(call, lifetime)))
    BY <1>0, <1>1 DEF Issue, CallTimely, Storing
  <2>3. QED
    BY <1>1, <2>1, <2>2, TimelyStep DEF Issue, stores
<1>2. CASE PutRow(call)
  <2>1. call \in StoreCall
    BY <1>2, CallKinds DEF PutRow, TypeOK
  <2>2. CallTimely([call EXCEPT !.step = "store", !.read = now])
    BY <1>0, <2>1 DEF CallTimely, StoreCall
  <2>3. QED
    BY <1>2, <2>2, TimelyStep DEF PutRow
<1>3. ASSUME NEW at \in 0..now,
             Store(call, at) \/ StoreUnanswered(call, at) \/ Fill(call, at)
      PROVE  Timely'
  <2>a. at \in Nat
    BY <1>0
  <2>b. /\ call.op = "get" /\ call.step \in {"fill", "store"}
        /\ now <= at + SetDelay
    BY <1>3 DEF Store, StoreUnanswered, Fill
  <2>c. cache' = Cached(call.artifact, at)
    BY <1>3 DEF Store, StoreUnanswered, Fill
  <2>1. /\ call.op = "get" /\ call.step \in {"put", "fill", "store"}
        /\ now <= at + SetDelay /\ at \in Nat
        /\ cache' = Cached(call.artifact, at)
    BY <2>a, <2>b, <2>c
  <2>2. call.artifact.expires \in Nat /\ call.since \in Nat
    BY <2>1, CallTimes
  <2>3. \A e \in cache' : \/ e \in cache
                          \/ e.until <= e.artifact.expires + SetDelay
    <3>1. SUFFICES ASSUME NEW e \in cache', e \notin cache
                   PROVE  e.until <= e.artifact.expires + SetDelay
      OBVIOUS
    <3>2. e.artifact = call.artifact /\ e.until = now + (e.artifact.expires - at)
      BY <2>1, <3>1, CachedEntries
    <3>3. QED
      BY <1>0, <2>1, <2>2, <3>2
  <2>4. CASE StoreUnanswered(call, at)
    BY <2>3, <2>4, TimelyKept DEF StoreUnanswered
  <2>5. CASE Store(call, at)
    BY <2>3, <2>5, TimelyKept DEF Store, AnswerWith
  <2>6. CASE Fill(call, at)
    <3>1. call.artifact.expires + SetDelay > call.since
      BY <1>0, <2>2, <2>6 DEF Fill, CallTimely
    <3>2. QED
      BY <2>3, <2>6, <3>1, TimelyKept DEF Fill, AnswerWith
  <2>7. QED
    BY <1>3, <2>4, <2>5, <2>6
<1>4. CASE FillSkipped(call)
  <2>1. call.artifact.expires \in Nat /\ call.since \in Nat
    BY <1>4, CallTimes DEF FillSkipped
  <2>2. call.artifact.expires + SetDelay > call.since
    BY <1>0, <1>4, <2>1 DEF FillSkipped, CallTimely
  <2>3. QED
    BY <1>4, <2>2, TimelyKept DEF FillSkipped, AnswerWith
<1>5. QED
  BY <1>1, <1>2, <1>3, <1>4 DEF Keep

LEMMA TimelyWipe ==
    ASSUME TypeOK, Timely, NEW call \in inflight, Wipe(call)
    PROVE  Timely'
<1>1. CASE Open(call) \/ Sweep(call) \/ Purge(call)
  <2>1. call \in WipeCall
    BY <1>1, CallKinds DEF Open, Sweep, Purge, TypeOK
  <2>2. \A step, seen :
           /\ CallTimely([call EXCEPT !.step = step])
           /\ CallTimely([call EXCEPT !.step = step, !.seen = seen])
    BY <2>1 DEF CallTimely, WipeCall
  <2>3. cache' \subseteq cache
    BY <1>1 DEF Open, Sweep, Purge, Purged, stores
  <2>4. QED
    BY <1>1, <2>2, <2>3, TimelyStep DEF Open, Sweep, Purge
<1>2. CASE Commit(call) \/ RevalidateSave(call)
  BY <1>2, TimelyKept DEF Commit, RevalidateSave, stores
<1>3. QED
  BY <1>1, <1>2 DEF Wipe

LEMMA TimelyNext == ASSUME TypeOK, Timely, [Next]_vars PROVE Timely'
<1>1. CASE Arrive
  BY <1>1, TimelyArrive
<1>2. ASSUME NEW call \in inflight, Look(call) \/ Keep(call) \/ Wipe(call)
      PROVE  Timely'
  BY <1>2, TimelyLook, TimelyKeep, TimelyWipe
<1>3. CASE (\E call \in inflight : Fail(call)) \/ UNCHANGED vars
  BY <1>3, TimelyKept DEF Fail, vars, stores
<1>4. CASE Tick
  <2>1. /\ UNCHANGED <<cache, answers, inflight>>
        /\ now' = now + 1 /\ now \in Nat
    BY <1>4 DEF Tick, stores, TypeOK, Times
  <2>2. \A call \in inflight : CallTimely(call)'
    BY <2>1, CallTimes DEF Timely, CallTimely
  <2>3. QED
    BY <2>1, <2>2 DEF Timely, ServedUnexpired
<1>5. QED
  BY <1>1, <1>2, <1>3, <1>4 DEF Next

-----------------------------------------------------------------------------
(* The theorems.                                                           *)

\* The strengthened invariant: types, ownership and times, of the stores and
\* of what the running calls are about to put there.
THEOREM InvariantHolds == Spec => []IInv
<1>1. Init => IInv
  BY TypeInit, OwnInit, TimelyInit DEF IInv
<1>2. IInv /\ [Next]_vars => IInv'
  BY TypeNext, OwnNext, TimelyNext DEF IInv
<1>3. QED
  BY <1>1, <1>2, PTL DEF Spec

\* The stores, the calls and the answers are of their types.
THEOREM TypeCorrect == Spec => []TypeOK
<1>1. IInv => TypeOK
  BY DEF IInv
<1>2. QED
  BY <1>1, InvariantHolds, PTL

\* However the statements of GetAuthKey, Bind, Update and Delete interleave
\* and fail, an authkey is stored, cached and answered only for the binding
\* that submitted the cookie it was issued for and for the player asked for.
THEOREM AuthKeysOwned == Spec => []AuthKeysStayInBinding
<1>1. IInv => AuthKeysStayInBinding
  BY DEF IInv, Own
<1>2. QED
  BY <1>1, InvariantHolds, PTL

\* An authkey found in either store is answered to no call that began a
\* SET's delay or more after it expired.
THEOREM FoundUnexpired == Spec => []ServedUnexpired
<1>1. IInv => ServedUnexpired
  BY DEF IInv, Timely
<1>2. QED
  BY <1>1, InvariantHolds, PTL
=============================================================================
