----------------------- MODULE LifecyclePromiseProofs -----------------------
(***************************************************************************)
(* Proofs about LifecyclePromise: when RPCs do not overlap, the three      *)
(* tables keep what BindingPromise promises each binding whose accounts    *)
(* nobody else submits, and summaries do not mix accounts in a list.       *)
(***************************************************************************)
EXTENDS LifecyclePromise, LifecycleSerialProofs

-----------------------------------------------------------------------------
(* Summaries leave the lifecycle alone.                                    *)

LEMMA ReadsOnly == [SummaryNext]_summaryVars => [Next]_vars
  BY DEF SummaryNext, Read, ReadCredential, ReadDevices, ReadProfiles,
         summaryVars

THEOREM SummariesReadOnly == SummarySpec => Spec
<1>1. SummaryInit => Init
  BY DEF SummaryInit
<1>2. QED
  BY <1>1, ReadsOnly, PTL DEF SummarySpec, Spec

LEMMA ReadTypes ==
    ASSUME SummaryTypeOK, Read
    PROVE  summaries' \subseteq Summary /\ asked' \subseteq Readers
<1>1. ASSUME NEW r \in Readers, NEW by \in Sources, NEW row \in credentials,
             ReadCredential(r, by, row)
      PROVE  summaries' \subseteq Summary /\ asked' \subseteq Readers
  <2>1. row \in CredentialRow /\ applied \subseteq Requests
    BY DEF SummaryTypeOK, TypeOK
  <2>2. [id |-> r, by |-> by, step |-> "devices", credential |-> row,
         devices |-> {}, seen |-> applied] \in Summary
    BY <2>1 DEF Summary
  <2>3. QED
    BY <1>1, <2>2 DEF ReadCredential, SummaryTypeOK
<1>2. ASSUME NEW s \in summaries, ReadDevices(s)
      PROVE  summaries' \subseteq Summary /\ asked' \subseteq Readers
  <2>1. s \in Summary /\ Listed(s, devices) \subseteq DeviceRow
    BY DEF SummaryTypeOK, TypeOK, Listed
  <2>2. [s EXCEPT !.step = "profiles", !.devices = Listed(s, devices)] \in Summary
    BY <2>1 DEF Summary
  <2>3. QED
    BY <1>2, <2>2 DEF ReadDevices, SummaryTypeOK
<1>3. ASSUME NEW s \in summaries, ReadProfiles(s)
      PROVE  summaries' \subseteq Summary /\ asked' \subseteq Readers
  BY <1>3 DEF ReadProfiles, SummaryTypeOK
<1>4. QED
  BY <1>1, <1>2, <1>3 DEF Read

\* Every summary holds rows of the tables' types, read by a reader once.
THEOREM SummaryTypes == SummarySpec => []SummaryTypeOK
<1>1. SummaryInit => SummaryTypeOK
  BY TypeInit DEF SummaryInit, SummaryTypeOK
<1>2. SummaryTypeOK /\ [SummaryNext]_summaryVars => SummaryTypeOK'
  <2> SUFFICES ASSUME SummaryTypeOK, [SummaryNext]_summaryVars
               PROVE  SummaryTypeOK'
    OBVIOUS
  <2>1. TypeOK'
    BY ReadsOnly, TypeNext DEF SummaryTypeOK
  <2>2. summaries' \subseteq Summary /\ asked' \subseteq Readers
    BY ReadTypes DEF SummaryTypeOK, SummaryNext, summaryVars
  <2>3. QED
    BY <2>1, <2>2 DEF SummaryTypeOK
<1>3. QED
  BY <1>1, <1>2, PTL DEF SummarySpec

-----------------------------------------------------------------------------
(* A summary no write fell into.                                           *)

\* What a summary has read is still so, unless a write was made since.
StillSo(s) ==
    /\ s.seen \subseteq applied
    /\ s.seen = applied =>
         /\ s.credential \in credentials
         /\ s.step = "profiles" => s.devices = Listed(s, devices)

Quiet == \A s \in summaries : StillSo(s)

\* A write is counted in applied, and never twice.
LEMMA WritesCount ==
    ASSUME IInv, [Next]_vars
    PROVE  \/ UNCHANGED <<tables, applied>>
           \/ \E id : id \notin applied /\ applied' = applied \cup {id}
<1>1. CASE Begin
  BY <1>1 DEF Begin, Bind, Update, Revalidate, Delete, UpsertDevice, Confirm, Start
<1>2. ASSUME NEW call \in inflight, TxnOpen(call) \/ Fail(call)
      PROVE  UNCHANGED <<tables, applied>>
  BY <1>2 DEF TxnOpen, Fail
<1>3. ASSUME NEW call \in inflight, Writes(call)
      PROVE  \E id : id \notin applied /\ applied' = applied \cup {id}
  <2>1. applied' = applied \cup {call.id}
    BY <1>3 DEF Writes, TxnCommit, RevalidateSave, DeleteWipe, DeviceSave,
                ConfirmSet, Finish
  <2>2. call.id \notin applied
    BY DEF IInv, Sound, CallsAgree
  <2>3. QED
    BY <2>1, <2>2
<1>4. CASE UNCHANGED vars
  BY <1>4 DEF vars, tables
<1>5. QED
  BY <1>1, <1>2, <1>3, <1>4 DEF Next, Continue, Writes

LEMMA QuietNext ==
    SummaryTypeOK /\ IInv /\ Quiet /\ [SummaryNext]_summaryVars => Quiet'
<1> SUFFICES ASSUME SummaryTypeOK, IInv, Quiet, [SummaryNext]_summaryVars
             PROVE  Quiet'
  OBVIOUS
<1>1. ASSUME UNCHANGED summaries PROVE Quiet'
  <2>1. [Next]_vars
    BY ReadsOnly
  <2>2. CASE UNCHANGED <<tables, applied>>
    BY <1>1, <2>2 DEF Quiet, StillSo, Listed, tables
  <2>3. CASE \E id : id \notin applied /\ applied' = applied \cup {id}
    BY <1>1, <2>3 DEF Quiet, StillSo
  <2>4. QED
    BY <2>1, <2>2, <2>3, WritesCount
<1>2. ASSUME Read PROVE Quiet'
  <2>0. UNCHANGED <<credentials, devices, applied>>
    BY <1>2 DEF Read, ReadCredential, ReadDevices, ReadProfiles, vars
  <2>1. \A s : StillSo(s) => StillSo(s)'
    BY <2>0 DEF StillSo, Listed
  <2>2. ASSUME NEW r \in Readers, NEW by \in Sources, NEW row \in credentials,
               ReadCredential(r, by, row)
        PROVE  Quiet'
    <3>1. PICK s : s = [id |-> r, by |-> by, step |-> "devices",
                        credential |-> row, devices |-> {}, seen |-> applied]
      OBVIOUS
    <3>2. StillSo(s)
      BY <3>1 DEF StillSo
    <3>3. summaries' = summaries \cup {s}
      BY <2>2, <3>1 DEF ReadCredential
    <3>4. QED
      BY <2>1, <3>2, <3>3 DEF Quiet
  <2>3. ASSUME NEW s \in summaries, ReadDevices(s) PROVE Quiet'
    <3>1. PICK t : t = [s EXCEPT !.step = "profiles", !.devices = Listed(s, devices)]
      OBVIOUS
    <3>2. s \in Summary
      BY DEF SummaryTypeOK
    <3>3. /\ t.seen = s.seen /\ t.credential = s.credential /\ t.by = s.by
          /\ t.devices = Listed(s, devices)
      BY <3>1, <3>2 DEF Summary
    <3>4. StillSo(t)
      BY <3>3 DEF Quiet, StillSo, Listed
    <3>5. summaries' = (summaries \ {s}) \cup {t}
      BY <2>3, <3>1 DEF ReadDevices
    <3>6. QED
      BY <2>1, <3>4, <3>5 DEF Quiet
  <2>4. ASSUME NEW s \in summaries, ReadProfiles(s) PROVE Quiet'
    BY <2>1, <2>4 DEF ReadProfiles, Quiet
  <2>5. QED
    BY <1>2, <2>2, <2>3, <2>4 DEF Read
<1>3. QED
  BY <1>1, <1>2 DEF SummaryNext, summaryVars

LEMMA QuietHolds == SummarySpec => []Quiet
<1>1. SummaryInit => Quiet
  BY DEF SummaryInit, Quiet
<1>2. QED
  BY <1>1, QuietNext, SummaryTypes, SummariesReadOnly, InvariantHolds, PTL
     DEF SummarySpec

\* Reading by the binding and reading by the key find the same rows.
LEMMA ListedOf ==
    ASSUME IInv, SInv, NEW s, s.credential \in credentials,
           Undisputed(s.credential.binding)
    PROVE  /\ Listed(s, devices) = Of(devices, s.credential.binding)
           /\ Listed(s, profiles) = Of(profiles, s.credential.binding)
<1> DEFINE b == s.credential.binding
<1>1. \A row \in devices \cup profiles :
         row.binding = b => row.key = s.credential.key
  BY DEF SInv, TablesSound, OnePerBinding, GraphFollowsCredential
<1>2. \A row \in devices \cup profiles :
         row.key = s.credential.key => row.binding = b
  BY DEF IInv, Sound, CredentialSound, InScope
<1>3. QED
  BY <1>1, <1>2 DEF Listed, Of

-----------------------------------------------------------------------------
(* A summary writes fell into.                                             *)

\* Every list a summary has read was of one account when it was read.
OneKeyRead(s) ==
    /\ InScope(s.credential.key, s.credential.binding)
    /\ s.step = "profiles" /\ Undisputed(s.credential.binding) =>
         SameKey(s.devices)

ReadsOneKey == \A s \in summaries : OneKeyRead(s)

\* Reading by the binding finds the rows of its one account; reading by the
\* key finds them too, or none.
LEMMA ListedOne ==
    ASSUME IInv, SInv, NEW s, InScope(s.credential.key, s.credential.binding),
           Undisputed(s.credential.binding)
    PROVE  /\ SameKey(Listed(s, devices)) /\ SameKey(Listed(s, profiles))
           /\ HasOnePrimary(Listed(s, profiles))
<1> DEFINE b == s.credential.binding
<1>1. /\ \A p, q \in Of(devices, b) \cup Of(profiles, b) : p.key = q.key
      /\ \A p \in Of(profiles, b) : \E q \in Of(profiles, b) : q.default
      /\ UniqueProfiles(Of(profiles, b))
  <2>1. BindingSound(b)
    BY ByBinding DEF SInv
  <2>2. QED
    BY <2>1 DEF BindingSound
<1>2. \A row \in devices \cup profiles :
         row.key = s.credential.key => row.binding = b
  BY DEF IInv, Sound, InScope
<1>3. Listed(s, devices) \subseteq Of(devices, b)
  BY <1>2 DEF Listed, Of
<1>4. Listed(s, profiles) = Of(profiles, b) \/ Listed(s, profiles) = {}
  <2>1. CASE s.by = "binding"
    BY <2>1 DEF Listed, Of
  <2>2. CASE s.by # "binding"
    BY <1>1, <1>2, <2>2 DEF Listed, Of
  <2>3. QED
    BY <2>1, <2>2
<1>5. HasOnePrimary(Of(profiles, b))
  <2> SUFFICES ASSUME Of(profiles, b) # {}
               PROVE  \E p \in Of(profiles, b) :
                        {q \in Of(profiles, b) : q.default} = {p}
    BY DEF HasOnePrimary
  <2>1. PICK p \in Of(profiles, b) : p.default
    BY <1>1
  <2>2. \A q \in Of(profiles, b) : q.default => q = p
    BY <1>1, <2>1 DEF UniqueProfiles, Of
  <2>3. QED
    BY <2>1, <2>2
<1>6. QED
  BY <1>1, <1>3, <1>4, <1>5 DEF SameKey, HasOnePrimary

LEMMA ReadsOneKeyNext ==
    SummaryTypeOK /\ IInv /\ SInv /\ ReadsOneKey /\ [SummaryNext]_summaryVars
      => ReadsOneKey'
<1> SUFFICES ASSUME SummaryTypeOK, IInv, SInv, ReadsOneKey,
                    [SummaryNext]_summaryVars
             PROVE  ReadsOneKey'
  OBVIOUS
<1>1. submitted \subseteq submitted'
  BY ReadsOnly DEF Next, Begin, Bind, Update, Revalidate, Delete, UpsertDevice,
       Confirm, Continue, TxnOpen, TxnCommit, RevalidateSave, DeleteWipe,
       DeviceSave, ConfirmSet, Fail, Finish, history, vars
<1>2. \A s : OneKeyRead(s) => OneKeyRead(s)'
  BY <1>1, UndisputedBefore DEF OneKeyRead, InScope, SameKey
<1>3. ASSUME UNCHANGED summaries PROVE ReadsOneKey'
  BY <1>2, <1>3 DEF ReadsOneKey
<1>4. ASSUME NEW r \in Readers, NEW by \in Sources, NEW row \in credentials,
             ReadCredential(r, by, row)
      PROVE  ReadsOneKey'
  <2>1. PICK s : s = [id |-> r, by |-> by, step |-> "devices",
                      credential |-> row, devices |-> {}, seen |-> applied]
    OBVIOUS
  <2>2. OneKeyRead(s)
    BY <2>1 DEF OneKeyRead, IInv, Sound, CredentialSound
  <2>3. summaries' = summaries \cup {s}
    BY <1>4, <2>1 DEF ReadCredential
  <2>4. QED
    BY <1>2, <2>2, <2>3 DEF ReadsOneKey
<1>5. ASSUME NEW s \in summaries, ReadDevices(s) PROVE ReadsOneKey'
  <2>1. PICK t : t = [s EXCEPT !.step = "profiles", !.devices = Listed(s, devices)]
    OBVIOUS
  <2>2. s \in Summary
    BY DEF SummaryTypeOK
  <2>3. t.credential = s.credential /\ t.devices = Listed(s, devices)
    BY <2>1, <2>2 DEF Summary
  <2>4. OneKeyRead(t)
    BY <2>3, ListedOne DEF ReadsOneKey, OneKeyRead
  <2>5. summaries' = (summaries \ {s}) \cup {t}
    BY <1>5, <2>1 DEF ReadDevices
  <2>6. QED
    BY <1>2, <2>4, <2>5 DEF ReadsOneKey
<1>6. ASSUME NEW s \in summaries, ReadProfiles(s) PROVE ReadsOneKey'
  BY <1>2, <1>6 DEF ReadProfiles, ReadsOneKey
<1>7. QED
  BY <1>3, <1>4, <1>5, <1>6 DEF SummaryNext, Read, summaryVars

LEMMA ReadsOneKeyHolds ==
    ASSUME Overlap = FALSE PROVE SummarySpec => []ReadsOneKey
<1>1. SummaryInit => ReadsOneKey
  BY DEF SummaryInit, ReadsOneKey
<1>2. QED
  BY <1>1, ReadsOneKeyNext, SummaryTypes, SummariesReadOnly, InvariantHolds,
     SerialInvariant, PTL DEF SummarySpec

LEMMA ShowsOne ==
    SummaryTypeOK /\ IInv /\ SInv /\ Quiet /\ ReadsOneKey => OneAccount
<1> SUFFICES ASSUME SummaryTypeOK, IInv, SInv, Quiet, ReadsOneKey,
                    NEW s \in Answering, Undisputed(s.credential.binding)
             PROVE  /\ SameKey(Answer(s).devices) /\ SameKey(Answer(s).profiles)
                    /\ HasOnePrimary(Answer(s).profiles)
                    /\ s.seen = applied =>
                         /\ Answer(s).devices # {}
                         /\ \A row \in Answer(s).devices \cup Answer(s).profiles :
                              row.key = s.credential.key
  BY DEF OneAccount
<1> DEFINE b == s.credential.binding
<1>1. Answer(s).devices = s.devices /\ Answer(s).profiles = Listed(s, profiles)
  BY DEF Answer
<1>2. SameKey(s.devices) /\ InScope(s.credential.key, b)
  BY DEF Answering, ReadsOneKey, OneKeyRead
<1>3. SameKey(Listed(s, profiles)) /\ HasOnePrimary(Listed(s, profiles))
  BY <1>2, ListedOne
<1>4. ASSUME s.seen = applied
      PROVE  /\ Answer(s).devices # {}
             /\ \A row \in Answer(s).devices \cup Answer(s).profiles :
                  row.key = s.credential.key
  <2>1. s.credential \in credentials /\ s.devices = Listed(s, devices)
    BY <1>4 DEF Answering, Quiet, StillSo
  <2>2. /\ Answer(s).devices = Of(devices, b)
        /\ Answer(s).profiles = Of(profiles, b)
    BY <1>1, <2>1, ListedOf
  <2>3. BindingSound(b) /\ s.credential \in Of(credentials, b)
    BY <2>1, ByBinding DEF SInv, Of
  <2>4. QED
    BY <2>2, <2>3 DEF BindingSound
<1>5. QED
  BY <1>1, <1>2, <1>3, <1>4

\* GetCredentialSummary and the answer of UpdateCredential, three SELECTs
\* without a transaction, never mix two accounts in one list, whichever
\* writes fall between them, and always show one primary profile among those
\* they show; when no write falls between them the lists are those of the
\* credential shown.
THEOREM SummariesAgree ==
    ASSUME Overlap = FALSE PROVE SummarySpec => SummariesShowOneAccount
<1>1. SummaryTypeOK /\ IInv /\ SInv /\ Quiet /\ ReadsOneKey
        /\ [SummaryNext]_summaryVars => [OneAccount]_summaryVars
  BY ShowsOne
<1>2. QED
  BY <1>1, SummaryTypes, SummariesReadOnly, InvariantHolds, SerialInvariant,
     QuietHolds, ReadsOneKeyHolds, PTL DEF SummarySpec, SummariesShowOneAccount

-----------------------------------------------------------------------------
(* The promise.                                                            *)

\* What BindingPromise sees of the tables and of the calls.
HeldIn(creds) == {HeldOf(c) : c \in Owned(creds)}
KnownIn(devs) == {d.device : d \in Owned(devs)}
ListedIn(rows) == {p.ident : p \in Owned(rows)}
PrimaryIn(rows) == {p.ident : p \in {p \in Owned(rows) : p.default}}
PendingIn(calls) == {Asked(call) : call \in Owned(calls)}

LEMMA OwnedOf == \A rows : Owned(rows) = Of(rows, Owner)
  BY DEF Owned, Of

\* What the owner of a call asked for.
LEMMA AskedOf ==
    /\ \A call \in BindCall :
         Asked(call) = [op |-> call.op, cookie |-> call.cookie,
                        device |-> call.device, found |-> call.found]
    /\ \A call \in RevalidateCall \cup DeleteCall : Asked(call) = [op |-> call.op]
    /\ \A call \in DeviceCall :
         Asked(call) = [op |-> call.op, device |-> call.device]
    /\ \A call \in ConfirmCall :
         Asked(call) = [op |-> call.op, player |-> call.player]
<1>1. \A call \in BindCall :
         Asked(call) = [op |-> call.op, cookie |-> call.cookie,
                        device |-> call.device, found |-> call.found]
  BY DEF BindCall, Asked
<1>2. \A call \in RevalidateCall \cup DeleteCall : Asked(call) = [op |-> call.op]
  BY DEF RevalidateCall, DeleteCall, Asked
<1>3. \A call \in DeviceCall :
         Asked(call) = [op |-> call.op, device |-> call.device]
  BY DEF DeviceCall, Asked
<1>4. \A call \in ConfirmCall :
         Asked(call) = [op |-> call.op, player |-> call.player]
  BY DEF ConfirmCall, Asked
<1>5. QED
  BY <1>1, <1>2, <1>3, <1>4

LEMMA InitPromised == Init => Binding!Promised
<1> SUFFICES ASSUME Init PROVE Binding!Promised
  OBVIOUS
<1>0. PICK bound \in SUBSET Bindings :
       \E kind \in [bound -> Kinds], cookie \in [bound -> Cookies],
          device \in [bound -> Devices], found \in [bound -> Discoveries] :
            Seeded(bound, kind, cookie, device, found)
  BY DEF Init
<1>1. PICK kind \in [bound -> Kinds], cookie \in [bound -> Cookies],
           device \in [bound -> Devices], found \in [bound -> Discoveries] :
              Seeded(bound, kind, cookie, device, found)
  BY <1>0
<1> DEFINE cred(b) == SeedCredential(kind[b], b, cookie[b])
           dev(b) == SeedDevice(kind[b], b, cookie[b], device[b])
           seed(b, i) == SeedProfile(kind[b], b, cookie[b], found[b][i], i = 1)
<1>2. /\ credentials = {cred(b) : b \in bound}
      /\ devices = {dev(b) : b \in bound}
      /\ \A p : p \in profiles <=> \E b \in bound : \E i \in DOMAIN found[b] : p = seed(b, i)
  BY <1>1 DEF Seeded
<1>3. \A b : /\ cred(b).binding = b
             /\ HeldOf(cred(b)) =
                  Binding!Credential(cookie[b], kind[b] = "hoyo_ref")
             /\ dev(b).binding = b /\ dev(b).device = device[b]
  BY DEF SeedCredential, SeedDevice, SeedKey, HeldOf, Binding!Credential
<1>4. \A b, i : /\ seed(b, i).binding = b /\ seed(b, i).ident = found[b][i]
                /\ seed(b, i).default = (i = 1)
  BY DEF SeedProfile
<1> HIDE DEF cred, dev, seed
<1>a. PendingIn(inflight) = {}
  BY DEF Init, PendingIn, Owned
<1>5. CASE Owner \notin bound
  <2>1. Owned(credentials) = {} /\ Owned(devices) = {} /\ Owned(profiles) = {}
    BY <1>2, <1>3, <1>4, <1>5 DEF Owned
  <2>2. QED
    BY <1>a, <2>1 DEF Binding!Promised, PendingIn
<1>6. CASE Owner \in bound
  <2>1. Owned(credentials) = {cred(Owner)} /\ Owned(devices) = {dev(Owner)}
    BY <1>2, <1>3, <1>6 DEF Owned
  <2>2. Owned(profiles) = {seed(Owner, i) : i \in DOMAIN found[Owner]}
    BY <1>2, <1>4, <1>6 DEF Owned
  <2>3. cookie[Owner] \in Cookies /\ device[Owner] \in Devices
        /\ found[Owner] \in Discoveries /\ (kind[Owner] = "hoyo_ref") \in BOOLEAN
    BY <1>6
  <2>4. /\ HeldIn(credentials) =
             {Binding!Credential(cookie[Owner], kind[Owner] = "hoyo_ref")}
        /\ KnownIn(devices) = {device[Owner]}
    BY <1>3, <2>1 DEF HeldIn, KnownIn
  <2>5. ListedIn(profiles) = {found[Owner][i] : i \in DOMAIN found[Owner]}
    BY <1>4, <2>2 DEF ListedIn
  <2>6. PrimaryIn(profiles) = {found[Owner][i] : i \in DOMAIN found[Owner] \cap {1}}
    <3> DEFINE chosen == {p \in Owned(profiles) : p.default}
    <3>1. \A p : p \in chosen <=>
             \E i \in DOMAIN found[Owner] \cap {1} : p = seed(Owner, i)
      <4>1. \A i : seed(Owner, i).default <=> i = 1
        BY <1>4
      <4>2. QED
        BY <2>2, <4>1
    <3> HIDE DEF chosen
    <3>2. {p.ident : p \in chosen} =
            {found[Owner][i] : i \in DOMAIN found[Owner] \cap {1}}
      BY <1>4, <3>1
    <3>3. QED
      BY <3>2 DEF PrimaryIn, chosen
  <2> DEFINE old == kind[Owner] = "hoyo_ref"
  <2>7. \E cook \in Cookies, legacy \in BOOLEAN :
           HeldIn(credentials) = {Binding!Credential(cook, legacy)}
    BY <2>3, <2>4
  <2>8. QED
    BY <1>a, <2>3, <2>4, <2>5, <2>6, <2>7
       DEF Binding!Promised, Binding!Reported, Binding!First, HeldIn, KnownIn,
           ListedIn, PrimaryIn, PendingIn
<1>7. QED
  BY <1>5, <1>6

\* The owner's rows, kept, are what the promise saw before.
LEMMA SeenKept ==
    ASSUME Of(credentials', Owner) = Of(credentials, Owner),
           Of(devices', Owner) = Of(devices, Owner),
           Of(profiles', Owner) = Of(profiles, Owner)
    PROVE  UNCHANGED Binding!graph
<1>1. /\ Owned(credentials') = Owned(credentials)
      /\ Owned(devices') = Owned(devices)
      /\ Owned(profiles') = Owned(profiles)
  BY OwnedOf
<1>2. QED
  BY <1>1 DEF Binding!graph, Owned

\* The promise tells by account and form of the id what the tables tell by
\* the key.
LEMMA HoldsByKey ==
    ASSUME IInv, NEW cookie \in Cookies
    PROVE  Binding!HoldsAccountOf(cookie) <=>
             \E c \in Of(credentials, Owner) : c.key = BoundKey(Owner, cookie)
<1>1. \A c \in Of(credentials, Owner) :
         /\ c.key \in Keys /\ c.key.binding = Owner
         /\ c.key.account = AccountOf[c.cookie]
  BY DEF IInv, TypeOK, Sound, CredentialSound, InScope, CredentialRow, Of
<1>2. ASSUME NEW c \in Of(credentials, Owner)
      PROVE  c.key = BoundKey(Owner, cookie) <=>
               /\ AccountOf[HeldOf(c).cookie] = AccountOf[cookie]
               /\ ~HeldOf(c).legacy
  <2>1. \A k \in Keys : k = BoundKey(Owner, cookie) <=>
           /\ k.kind = "binding" /\ k.binding = Owner
           /\ k.account = AccountOf[cookie]
    BY DEF Keys, BoundKey
  <2>2. /\ HeldOf(c).cookie = c.cookie
        /\ HeldOf(c).legacy <=> c.key.kind = "hoyo_ref"
    BY DEF HeldOf
  <2>3. c.key.kind \in {"binding", "hoyo_ref"}
    BY <1>1 DEF Keys, Kinds
  <2>4. QED
    BY <1>1, <2>1, <2>2, <2>3
<1>3. QED
  BY <1>2, OwnedOf DEF Binding!HoldsAccountOf

LEMMA HoldsSome ==
    (\E c \in credentials : c.binding = Owner) <=> HeldIn(credentials) # {}
  BY DEF HeldIn, Owned

\* An RPC of the owner begins: nothing is changed yet.
LEMMA AskPromised ==
    ASSUME Overlap = FALSE, NEW call, Start(call),
           call.binding = Owner =>
             Asked(call) \in Binding!Asks /\ Binding!Allowed(Asked(call))
    PROVE  Binding!Keep \/ UNCHANGED Binding!promised
<1>1. inflight = {} /\ inflight' = {call} /\ UNCHANGED tables
  BY DEF Start
<1>2. UNCHANGED Binding!graph
  BY <1>1, SeenKept DEF tables
<1>3. PendingIn(inflight) = {}
  BY <1>1 DEF PendingIn, Owned
<1>4. CASE call.binding = Owner
  <2>1. PendingIn(inflight') = {Asked(call)}
    BY <1>1, <1>4 DEF PendingIn, Owned
  <2>2. Binding!Ask(Asked(call))
    BY <1>2, <1>3, <1>4, <2>1 DEF Binding!Ask, PendingIn, Owned
  <2>3. QED
    BY <1>4, <2>2 DEF Binding!Keep
<1>5. CASE call.binding # Owner
  <2>1. PendingIn(inflight') = {}
    BY <1>1, <1>5 DEF PendingIn, Owned
  <2>2. QED
    BY <1>2, <1>3, <2>1 DEF Binding!promised, PendingIn, Owned
<1>6. QED
  BY <1>4, <1>5

LEMMA BeginPromised ==
    ASSUME Overlap = FALSE, IInv, SInv, Undisputed(Owner), Begin
    PROVE  Binding!Keep \/ UNCHANGED Binding!promised
<1>0. \A c \in credentials : c.binding = Owner => HeldIn(credentials) # {}
  BY HoldsSome
<1>1. ASSUME NEW r \in Requests, NEW b \in Bindings, NEW cookie \in Cookies,
             NEW device \in Devices, NEW found \in Discoveries,
             Bind(r, b, cookie, device, found)
      PROVE  Binding!Keep \/ UNCHANGED Binding!promised
  <2>1. PICK call : call = [id |-> r, op |-> "bind", step |-> "prepared",
                      binding |-> b, cookie |-> cookie, device |-> device,
                      found |-> found, creds |-> {}, rows |-> {}]
    OBVIOUS
  <2>2. call \in BindCall /\ Start(call)
    BY <1>1, <2>1 DEF Bind, BindCall
  <2>3. Asked(call) = [op |-> "bind", cookie |-> cookie, device |-> device,
                       found |-> found]
    BY <2>1, <2>2, AskedOf
  <2>4. Asked(call) \in Binding!Asks /\ Binding!Allowed(Asked(call))
    BY <2>3 DEF Binding!Asks, Binding!Allowed
  <2>5. QED
    BY <2>2, <2>4, AskPromised
<1>2. ASSUME NEW r \in Requests, NEW row \in credentials,
             NEW cookie \in Cookies, NEW device \in Devices,
             NEW found \in Discoveries, Update(r, row, cookie, device, found)
      PROVE  Binding!Keep \/ UNCHANGED Binding!promised
  <2>1. PICK call : call = [id |-> r, op |-> "update", step |-> "prepared",
                      binding |-> row.key.binding, cookie |-> cookie,
                      device |-> device, found |-> found, creds |-> {},
                      rows |-> {}]
    OBVIOUS
  <2>2. row.key.binding = row.binding /\ row.binding \in Bindings
    BY DEF IInv, TypeOK, Sound, CredentialSound, InScope, CredentialRow
  <2>3. call \in BindCall /\ Start(call)
    BY <1>2, <2>1, <2>2 DEF Update, BindCall
  <2>4. Asked(call) = [op |-> "update", cookie |-> cookie,
                       device |-> device, found |-> found]
    BY <2>1, <2>3, AskedOf
  <2>5. ASSUME call.binding = Owner PROVE Binding!Allowed(Asked(call))
    <3>1. row \in Of(credentials, Owner) /\ row.key = BoundKey(Owner, cookie)
      BY <1>2, <2>1, <2>2, <2>5 DEF Update, Of
    <3>2. Binding!HoldsAccountOf(cookie) /\ HeldIn(credentials) # {}
      BY <1>0, <3>1, HoldsByKey DEF Of
    <3>3. QED
      BY <2>4, <3>2 DEF Binding!Allowed, HeldIn, Owned
  <2>6. Asked(call) \in Binding!Asks
    BY <2>4 DEF Binding!Asks
  <2>7. QED
    BY <2>3, <2>5, <2>6, AskPromised
<1>3. ASSUME NEW r \in Requests, NEW row \in credentials,
             NEW op \in {"validate", "refresh"}, Revalidate(r, op, row)
      PROVE  Binding!Keep \/ UNCHANGED Binding!promised
  <2>1. PICK call : call = [id |-> r, op |-> op, binding |-> row.binding,
                            row |-> row]
    OBVIOUS
  <2>2. row \in CredentialRow /\ row.binding \in Bindings
    BY DEF IInv, TypeOK, CredentialRow
  <2>3. call \in RevalidateCall /\ Start(call)
    BY <1>3, <2>1, <2>2 DEF Revalidate, RevalidateCall
  <2>4. Asked(call) = [op |-> op]
    BY <2>1, <2>3, AskedOf
  <2>5. call.binding = Owner => HeldIn(credentials) # {}
    BY <1>0, <2>1
  <2>6. call.binding = Owner =>
          Asked(call) \in Binding!Asks /\ Binding!Allowed(Asked(call))
    BY <2>4, <2>5 DEF Binding!Asks, Binding!Allowed, HeldIn, Owned
  <2>7. QED
    BY <2>3, <2>6, AskPromised
<1>4. ASSUME NEW r \in Requests, NEW row \in credentials, Delete(r, row)
      PROVE  Binding!Keep \/ UNCHANGED Binding!promised
  <2>1. PICK call : call = [id |-> r, op |-> "delete",
                            binding |-> row.binding, key |-> row.key]
    OBVIOUS
  <2>2. row.binding \in Bindings /\ row.key \in Keys
    BY DEF IInv, TypeOK, CredentialRow
  <2>3. call \in DeleteCall /\ Start(call)
    BY <1>4, <2>1, <2>2 DEF Delete, DeleteCall
  <2>4. Asked(call) = [op |-> "delete"]
    BY <2>1, <2>3, AskedOf
  <2>5. call.binding = Owner => HeldIn(credentials) # {}
    BY <1>0, <2>1
  <2>6. call.binding = Owner =>
          Asked(call) \in Binding!Asks /\ Binding!Allowed(Asked(call))
    BY <2>4, <2>5 DEF Binding!Asks, Binding!Allowed, HeldIn, Owned
  <2>7. QED
    BY <2>3, <2>6, AskPromised
<1>5. ASSUME NEW r \in Requests, NEW row \in credentials,
             NEW device \in Devices, UpsertDevice(r, row, device)
      PROVE  Binding!Keep \/ UNCHANGED Binding!promised
  <2>1. PICK call : call = [id |-> r, op |-> "device", binding |-> row.binding,
                            key |-> row.key, device |-> device]
    OBVIOUS
  <2>2. row.binding \in Bindings /\ row.key \in Keys
    BY DEF IInv, TypeOK, CredentialRow
  <2>3. call \in DeviceCall /\ Start(call)
    BY <1>5, <2>1, <2>2 DEF UpsertDevice, DeviceCall
  <2>4. Asked(call) = [op |-> "device", device |-> device]
    BY <2>1, <2>3, AskedOf
  <2>5. call.binding = Owner => HeldIn(credentials) # {}
    BY <1>0, <2>1
  <2>6. call.binding = Owner =>
          Asked(call) \in Binding!Asks /\ Binding!Allowed(Asked(call))
    BY <2>4, <2>5 DEF Binding!Asks, Binding!Allowed, HeldIn, Owned
  <2>7. QED
    BY <2>3, <2>6, AskPromised
<1>6. ASSUME NEW r \in Requests, NEW row \in profiles, Confirm(r, row)
      PROVE  Binding!Keep \/ UNCHANGED Binding!promised
  <2>1. PICK call : call = [id |-> r, op |-> "confirm", binding |-> row.binding,
                            key |-> row.key, player |-> PlayerOf[row.ident]]
    OBVIOUS
  <2>2. row.binding \in Bindings /\ row.key \in Keys /\ row.ident \in Idents
    BY DEF IInv, TypeOK, ProfileRow
  <2>3. PlayerOf[row.ident] \in Players
    BY <2>2, LifecycleAssumption
  <2>4. call \in ConfirmCall /\ Start(call)
    BY <1>6, <2>1, <2>2, <2>3 DEF Confirm, ConfirmCall
  <2>5. Asked(call) = [op |-> "confirm", player |-> PlayerOf[row.ident]]
    BY <2>1, <2>4, AskedOf
  <2>6. ASSUME call.binding = Owner PROVE Binding!Allowed(Asked(call))
    <3>1. row.ident \in ListedIn(profiles)
      BY <2>1, <2>6 DEF ListedIn, Owned
    <3>2. HeldIn(credentials) # {}
      BY <1>0, <1>6, <2>1, <2>6 DEF SInv, TablesSound, GraphFollowsCredential
    <3>3. QED
      BY <2>5, <3>1, <3>2 DEF Binding!Allowed, HeldIn, ListedIn, Owned
  <2>7. Asked(call) \in Binding!Asks
    BY <2>3, <2>5 DEF Binding!Asks
  <2>8. QED
    BY <2>4, <2>6, <2>7, AskPromised
<1>7. QED
  BY <1>1, <1>2, <1>3, <1>4, <1>5, <1>6 DEF Begin

\* An RPC of the owner ends, with its effect or none.
LEMMA EndPromised ==
    ASSUME SInv, NEW call \in inflight, inflight' = inflight \ {call},
           call.binding = Owner,
           \/ Binding!Bound(Asked(call)) \/ Binding!Revalidated(Asked(call))
           \/ Binding!DeviceSeen(Asked(call))
           \/ Binding!PrimaryChosen(Asked(call))
           \/ Binding!Deleted(Asked(call))
           \/ UNCHANGED Binding!graph
    PROVE  Binding!Keep
<1>1. inflight = {call} /\ inflight' = {}
  BY OnlyOne DEF SInv
<1>2. PendingIn(inflight) = {Asked(call)} /\ PendingIn(inflight') = {}
  BY <1>1 DEF PendingIn, Owned
<1>3. Binding!End(Asked(call))
  BY <1>2 DEF Binding!End, PendingIn, Owned
<1>4. QED
  BY <1>2, <1>3 DEF Binding!Keep, PendingIn, Owned

\* A call of another binding that ends is not seen.
LEMMA OthersPromised ==
    ASSUME IInv, NEW call \in inflight, Writes(call) \/ Fail(call),
           call.binding # Owner, Undisputed(Owner)
    PROVE  UNCHANGED Binding!promised
<1>1. UNCHANGED Binding!graph
  <2>1. CASE Writes(call)
    BY <2>1, OthersKept, SeenKept
  <2>2. CASE Fail(call)
    BY <2>2, SeenKept DEF Fail, tables
  <2>3. QED
    BY <2>1, <2>2
<1>2. inflight' = inflight \ {call}
  BY WritesFinish DEF Fail
<1>3. Owned(inflight') = Owned(inflight)
  BY <1>2 DEF Owned
<1>4. QED
  BY <1>1, <1>3 DEF Binding!promised, Owned

\* A bind or an update of the owner.
LEMMA BindPromised ==
    ASSUME IInv, SInv, NEW call \in inflight, TxnCommit(call),
           call.binding = Owner, Undisputed(Owner)
    PROVE  Binding!Bound(Asked(call))
<1>1. call \in BindCall /\ call.op \in {"bind", "update"} /\ call.step = "open"
  BY CallKinds DEF TxnCommit, IInv, TypeOK
<1>2. /\ Asked(call).op = call.op /\ Asked(call).cookie = call.cookie
      /\ Asked(call).device = call.device /\ Asked(call).found = call.found
  BY <1>1, AskedOf
<1>3. call.cookie \in Cookies /\ CallKey(call) = BoundKey(Owner, call.cookie)
  BY <1>1 DEF BindCall, CallKey
<1> DEFINE holds == Binding!HoldsAccountOf(call.cookie)
<1>4. holds <=> \E c \in Of(credentials, Owner) : c.key = CallKey(call)
  BY <1>3, HoldsByKey
<1> HIDE DEF holds
<1>5. call.op = "update" => holds
  BY <1>4 DEF SInv, Fresh, Of
<1>6. HeldIn(credentials') = {Binding!Credential(call.cookie, FALSE)}
  <2>1. Owned(credentials') = {BoundRow(call)}
    BY BindCredential, OwnedOf
  <2>2. HeldOf(BoundRow(call)) = Binding!Credential(call.cookie, FALSE)
    BY DEF HeldOf, BoundRow, CallKey, BoundKey, Binding!Credential
  <2>3. QED
    BY <2>1, <2>2 DEF HeldIn
<1>7. /\ BoundDevice(call) \in Of(devices', Owner)
      /\ \A d \in Of(devices', Owner) :
            \/ d = BoundDevice(call)
            \/ d \in Of(devices, Owner) /\ d.key \notin Replaced(call)
      /\ \A d \in Of(devices, Owner) : d.key \notin Replaced(call) =>
            d.device = call.device \/ d \in Of(devices', Owner)
      /\ BoundDevice(call).device = call.device
  BY BindCredential DEF BoundDevice
<1>8. BindingSound(Owner) /\ call.creds = Of(credentials, Owner)
  BY <1>1, ByBinding DEF SInv, Fresh
<1>9. KnownIn(devices') =
         {call.device} \cup IF holds THEN KnownIn(devices) ELSE {}
  <2>1. CASE holds
    <3>1. Replaced(call) = {}
      BY <1>4, <1>8, <2>1 DEF BindingSound, Replaced
    <3>2. QED
      BY <1>7, <2>1, <3>1, OwnedOf DEF KnownIn
  <2>2. CASE ~holds
    <3>1. ASSUME NEW d \in Of(devices, Owner) PROVE d.key \in Replaced(call)
      <4>1. PICK c \in Of(credentials, Owner) : c.key = d.key
        BY <1>8 DEF BindingSound
      <4>2. QED
        BY <1>4, <1>8, <2>2, <4>1 DEF Replaced
    <3>2. Of(devices', Owner) = {BoundDevice(call)}
      BY <1>7, <3>1
    <3>3. QED
      BY <1>7, <2>2, <3>2, OwnedOf DEF KnownIn
  <2>3. QED
    BY <2>1, <2>2
<1>10. Owned(profiles') = Listing(call)
  BY BindProfiles, OwnedOf
<1> DEFINE new(i) == NewProfile(call, call.found[i], i = 1)
           chosen == {p \in Owned(profiles') : p.default}
<1>a. Owned(profiles') = {new(i) : i \in DOMAIN call.found}
  BY <1>10 DEF Listing
<1>b. \A i : new(i).ident = call.found[i] /\ new(i).default = (i = 1)
  BY DEF NewProfile
<1> HIDE DEF new
<1>11. ListedIn(profiles') = {call.found[i] : i \in DOMAIN call.found}
  BY <1>a, <1>b DEF ListedIn
<1>c. \A p : p \in chosen <=> \E i \in DOMAIN call.found \cap {1} : p = new(i)
  BY <1>a, <1>b
<1> HIDE DEF chosen
<1>12. PrimaryIn(profiles') = {call.found[i] : i \in DOMAIN call.found \cap {1}}
  <2>1. {p.ident : p \in chosen} = {call.found[i] : i \in DOMAIN call.found \cap {1}}
    BY <1>b, <1>c
  <2>2. QED
    BY <2>1 DEF PrimaryIn, chosen
<1>13. holds <=> Binding!HoldsAccountOf(Asked(call).cookie)
  BY <1>2 DEF holds
<1>14. QED
  <2>1. /\ Asked(call).op \in {"bind", "update"}
        /\ Asked(call).op = "update" => Binding!HoldsAccountOf(Asked(call).cookie)
    BY <1>1, <1>2, <1>5, <1>13
  <2>2. HeldIn(credentials') = {Binding!Credential(Asked(call).cookie, FALSE)}
    BY <1>2, <1>6
  <2>3. KnownIn(devices') = {Asked(call).device} \cup
           IF Binding!HoldsAccountOf(Asked(call).cookie) THEN KnownIn(devices) ELSE {}
    BY <1>2, <1>9, <1>13
  <2>4. /\ ListedIn(profiles') = Binding!Reported(Asked(call).found)
        /\ PrimaryIn(profiles') = Binding!First(Asked(call).found)
    BY <1>2, <1>11, <1>12 DEF Binding!Reported, Binding!First
  <2>5. QED
    BY <2>1, <2>2, <2>3, <2>4
       DEF Binding!Bound, HeldIn, KnownIn, ListedIn, PrimaryIn, Owned

LEMMA RevalidatePromised ==
    ASSUME IInv, SInv, NEW call \in inflight, NEW status \in Statuses,
           RevalidateSave(call, status), call.binding = Owner
    PROVE  Binding!Revalidated(Asked(call))
<1> DEFINE row == RevalidatedRow(call, status)
           before == HeldOf(call.row)
           good == call.op = "refresh" /\ status = "active"
<1>1. /\ call.op \in {"validate", "refresh"} /\ call \in RevalidateCall
      /\ call.row \in CredentialRow
  BY RevalidatedSame DEF RevalidateSave
<1>2. Asked(call).op = call.op
  BY <1>1, AskedOf
<1>3. Owned(credentials) = {call.row} /\ Owned(credentials') = {row}
  BY RevalidateLeaves, OwnedOf
<1>4. HeldOf(row) = [cookie |-> before.cookie, legacy |-> before.legacy,
                     status |-> status, refreshed |-> before.refreshed \/ good]
  <2>1. /\ row.cookie = call.row.cookie /\ row.key = call.row.key
        /\ row.status = status
        /\ row.refreshed = (call.row.refreshed \/ good)
    BY <1>1 DEF RevalidatedRow, CredentialRow
  <2>2. /\ before.cookie = call.row.cookie
        /\ before.refreshed = call.row.refreshed
        /\ before.legacy = (call.row.key.kind = "hoyo_ref")
    BY DEF HeldOf
  <2> HIDE DEF row, before, good
  <2>3. QED
    BY <2>1, <2>2 DEF HeldOf
<1>5. HeldIn(credentials) = {before} /\ HeldIn(credentials') = {HeldOf(row)}
  BY <1>3 DEF HeldIn
<1>6. devices' = devices /\ profiles' = profiles
  BY DEF RevalidateSave
<1> HIDE DEF row, before
<1>7. \E h \in HeldIn(credentials), s \in Statuses :
         HeldIn(credentials') =
            {[cookie |-> h.cookie, legacy |-> h.legacy, status |-> s,
              refreshed |-> h.refreshed \/ (Asked(call).op = "refresh"
                                            /\ s = "active")]}
  BY <1>2, <1>4, <1>5
<1>8. QED
  BY <1>1, <1>2, <1>6, <1>7 DEF Binding!Revalidated, HeldIn, Owned

LEMMA DevicePromised ==
    ASSUME IInv, SInv, NEW call \in inflight, DeviceSave(call),
           call.binding = Owner
    PROVE  Binding!DeviceSeen(Asked(call))
<1>0. PICK row : row = [binding |-> Owner, device |-> call.device,
                        key |-> call.key]
  OBVIOUS
<1>1. call \in DeviceCall
  BY CallKinds DEF DeviceSave, IInv, TypeOK
<1>2. Asked(call).op = "device" /\ Asked(call).device = call.device
  BY <1>1, AskedOf DEF DeviceSave
<1>3. HeldIn(credentials) # {}
  BY HoldsSome DEF SInv, Fresh, DeviceSave
<1>4. \A d : d \in Owned(devices') <=>
         d = row \/ (d \in Owned(devices) /\ d.device # call.device)
  BY <1>0 DEF DeviceSave, SaveDevice, Owned
<1>5. KnownIn(devices') = KnownIn(devices) \cup {call.device}
  BY <1>0, <1>4 DEF KnownIn
<1>6. credentials' = credentials /\ profiles' = profiles
  BY DEF DeviceSave
<1>7. QED
  BY <1>2, <1>3, <1>5, <1>6 DEF Binding!DeviceSeen, HeldIn, KnownIn, Owned

LEMMA ConfirmPromised ==
    ASSUME IInv, SInv, NEW call \in inflight, ConfirmSet(call),
           call.binding = Owner, Undisputed(Owner)
    PROVE  Binding!PrimaryChosen(Asked(call))
<1> DEFINE put(q) == [q EXCEPT !.default = Chosen(call, q)]
<1>1. call \in ConfirmCall
  BY CallKinds DEF ConfirmSet, IInv, TypeOK
<1>2. Asked(call).op = "confirm" /\ Asked(call).player = call.player
  BY <1>1, AskedOf DEF ConfirmSet
<1>3. PICK p \in profiles : Chosen(call, p)
  BY DEF ConfirmSet
<1>4. p \in Of(profiles, Owner) /\ p.key = call.key
      /\ PlayerOf[p.ident] = call.player
  BY <1>3 DEF Chosen, Of
<1>5. \A q \in Of(profiles, Owner) : q.key = call.key
  <2>1. BindingSound(Owner)
    BY ByBinding DEF SInv
  <2>2. QED
    BY <1>4, <2>1 DEF BindingSound
<1>6. /\ \A q \in profiles : /\ put(q).binding = q.binding
                             /\ put(q).ident = q.ident
                             /\ put(q).default = Chosen(call, q)
      /\ profiles' = {IF q.binding = Owner THEN put(q) ELSE q : q \in profiles}
  BY DEF ConfirmSet, SetDefault, IInv, TypeOK, ProfileRow
<1> HIDE DEF put
<1>7. Owned(profiles') = {put(q) : q \in Owned(profiles)}
  <2>1. \A q \in Owned(profiles) : put(q) \in Owned(profiles')
    BY <1>6 DEF Owned
  <2>2. \A q \in Owned(profiles') : \E r \in Owned(profiles) : q = put(r)
    BY <1>6 DEF Owned
  <2>3. QED
    BY <2>1, <2>2
<1>8. ASSUME NEW q \in Owned(profiles), PlayerOf[q.ident] = call.player
      PROVE  q.ident = p.ident
  <2>1. Chosen(call, q) /\ q \in profiles
    BY <1>5, <1>8, OwnedOf DEF Chosen, Owned, Of
  <2>2. /\ put(p) \in profiles' /\ put(q) \in profiles'
        /\ put(p).default /\ put(q).default
        /\ put(p).binding = Owner /\ put(q).binding = Owner
    BY <1>3, <1>4, <1>6, <2>1 DEF Of, Owned, Chosen
  <2>3. put(p) = put(q)
    BY <2>2 DEF ConfirmSet, UniqueProfiles
  <2>4. QED
    BY <1>3, <1>6, <2>1, <2>3
<1>9. {j \in ListedIn(profiles) : PlayerOf[j] = call.player} = {p.ident}
      /\ p.ident \in ListedIn(profiles)
  BY <1>4, <1>8, OwnedOf DEF ListedIn
<1>10. PrimaryIn(profiles') = {p.ident}
  <2>1. p \in Owned(profiles) /\ put(p).default /\ put(p).ident = p.ident
    BY <1>3, <1>4, <1>6, OwnedOf
  <2>2. ASSUME NEW q \in Owned(profiles), put(q).default
        PROVE  put(q).ident = p.ident
    BY <1>6, <1>8, <2>2 DEF Owned, Chosen
  <2>3. QED
    BY <1>7, <2>1, <2>2 DEF PrimaryIn
<1>11. ListedIn(profiles') = ListedIn(profiles)
  BY <1>6, <1>7 DEF ListedIn, Owned
<1>12. credentials' = credentials /\ devices' = devices
  BY DEF ConfirmSet
<1>13. QED
  BY <1>2, <1>9, <1>10, <1>11, <1>12
     DEF Binding!PrimaryChosen, ListedIn, PrimaryIn, Owned

LEMMA DeletePromised ==
    ASSUME IInv, NEW call \in inflight, DeleteWipe(call), call.binding = Owner
    PROVE  Binding!Deleted(Asked(call))
<1>1. call \in DeleteCall
  BY CallKinds DEF DeleteWipe, IInv, TypeOK
<1>2. Asked(call).op = "delete"
  BY <1>1, AskedOf DEF DeleteWipe
<1>3. Owned(credentials') = {} /\ Owned(devices') = {} /\ Owned(profiles') = {}
  BY DEF DeleteWipe, Owned
<1>4. /\ HeldIn(credentials') = {} /\ KnownIn(devices') = {}
      /\ ListedIn(profiles') = {} /\ PrimaryIn(profiles') = {}
  BY <1>3 DEF HeldIn, KnownIn, ListedIn, PrimaryIn
<1>5. QED
  BY <1>2, <1>4 DEF Binding!Deleted, HeldIn, KnownIn, ListedIn, PrimaryIn, Owned

\* The snapshot a transaction takes is no part of what was asked for.
LEMMA OpenPromised ==
    ASSUME IInv, NEW call \in inflight, TxnOpen(call)
    PROVE  UNCHANGED Binding!promised
<1>1. call \in BindCall
  BY CallKinds DEF TxnOpen, IInv, TypeOK
<1> DEFINE opened == [call EXCEPT
                !.step = "open",
                !.creds = {c \in credentials : c.binding = call.binding},
                !.rows = {p \in profiles : p.binding = call.binding}]
<1>2. inflight' = (inflight \ {call}) \cup {opened} /\ UNCHANGED tables
  BY DEF TxnOpen
<1>3. Asked(opened) = Asked(call) /\ opened.binding = call.binding
  BY <1>1 DEF BindCall, Asked
<1> HIDE DEF opened
<1>4. PendingIn(inflight') = PendingIn(inflight)
  <2>1. \A c \in Owned(inflight) : c = call \/ c \in Owned(inflight')
    BY <1>2 DEF Owned
  <2>2. \A c \in Owned(inflight') : c = opened \/ c \in Owned(inflight)
    BY <1>2 DEF Owned
  <2>3. call \in Owned(inflight) <=> opened \in Owned(inflight')
    BY <1>2, <1>3 DEF Owned
  <2>4. QED
    BY <1>3, <2>1, <2>2, <2>3 DEF PendingIn
<1>5. UNCHANGED Binding!graph
  BY <1>2, SeenKept DEF tables
<1>6. QED
  BY <1>4, <1>5 DEF Binding!promised, PendingIn, Owned

LEMMA NextPromised ==
    Overlap = FALSE /\ IInv /\ SInv /\ Undisputed(Owner) /\ [Next]_vars
      => [Binding!Keep]_(Binding!promised)
<1> SUFFICES ASSUME Overlap = FALSE, IInv, SInv, Undisputed(Owner), [Next]_vars
             PROVE  Binding!Keep \/ UNCHANGED Binding!promised
  OBVIOUS
<1>1. CASE Begin
  BY <1>1, BeginPromised
<1>2. ASSUME NEW call \in inflight, TxnOpen(call)
      PROVE  UNCHANGED Binding!promised
  BY <1>2, OpenPromised
<1>3. ASSUME NEW call \in inflight, Writes(call) \/ Fail(call)
      PROVE  Binding!Keep \/ UNCHANGED Binding!promised
  <2>1. CASE call.binding # Owner
    BY <1>3, <2>1, OthersPromised
  <2>2. CASE call.binding = Owner
    <3>1. inflight' = inflight \ {call}
      BY <1>3, WritesFinish DEF Fail
    <3>2. CASE TxnCommit(call)
      BY <2>2, <3>1, <3>2, BindPromised, EndPromised
    <3>3. ASSUME NEW status \in Statuses, RevalidateSave(call, status)
          PROVE  Binding!Keep
      BY <2>2, <3>1, <3>3, RevalidatePromised, EndPromised
    <3>4. CASE DeleteWipe(call)
      BY <2>2, <3>1, <3>4, DeletePromised, EndPromised
    <3>5. CASE DeviceSave(call)
      BY <2>2, <3>1, <3>5, DevicePromised, EndPromised
    <3>6. CASE ConfirmSet(call)
      BY <2>2, <3>1, <3>6, ConfirmPromised, EndPromised
    <3>7. CASE Fail(call)
      <4>1. UNCHANGED Binding!graph
        BY <3>7, SeenKept DEF Fail, tables
      <4>2. QED
        BY <2>2, <3>1, <4>1, EndPromised
    <3>8. QED
      BY <1>3, <3>2, <3>3, <3>4, <3>5, <3>6, <3>7 DEF Writes
  <2>3. QED
    BY <2>1, <2>2
<1>4. CASE UNCHANGED vars
  <2>1. UNCHANGED tables /\ inflight' = inflight
    BY <1>4 DEF vars, tables
  <2>2. UNCHANGED Binding!graph
    BY <2>1, SeenKept DEF tables
  <2>3. QED
    BY <2>1, <2>2 DEF Binding!promised, Owned
<1>5. QED
  BY <1>1, <1>2, <1>3, <1>4 DEF Next, Continue, Writes

\* For the owner of a binding whose accounts nobody else submits, the three
\* tables and all the RPCs over them, failed ones and other tenants' ones
\* among them, implement BindingPromise: every RPC of the owner changes
\* exactly what it is for, one that fails changes nothing, and nobody else's
\* changes anything.
THEOREM PromiseKept ==
    ASSUME Overlap = FALSE
    PROVE  Spec /\ []Undisputed(Owner) => KeepsPromise
<1>1. Init => Binding!Promised
  BY InitPromised
<1>2. IInv /\ SInv /\ Undisputed(Owner) /\ [Next]_vars
        => [Binding!Keep]_(Binding!promised)
  BY NextPromised
<1>3. QED
  BY <1>1, <1>2, InvariantHolds, SerialInvariant, PTL
     DEF Spec, KeepsPromise, Binding!Promise
=============================================================================
