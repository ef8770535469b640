------------------------ MODULE LifecycleSerialProofs ------------------------
(***************************************************************************)
(* Proofs about CredentialLifecycle when RPCs do not overlap: for every    *)
(* set of requests, bindings, accounts, cookies, devices and profiles, and *)
(* wherever an RPC fails.                                                  *)
(***************************************************************************)
EXTENDS CredentialLifecycleProofs

-----------------------------------------------------------------------------
(* The invariant.                                                          *)

Alone == \A c, d \in inflight : c = d

\* What the one RPC that runs has read is still there.
Fresh(call) ==
    /\ call.op \in {"validate", "refresh"} => call.row \in credentials
    /\ call.op = "device" =>
         \E c \in credentials : c.binding = call.binding /\ c.key = call.key
    /\ call.op = "update" =>
         \E c \in credentials : c.binding = call.binding /\ c.key = CallKey(call)
    /\ call.op \in {"bind", "update"} /\ call.step = "open" =>
         call.creds = Of(credentials, call.binding)
           /\ call.rows = Of(profiles, call.binding)

OnePerBinding == \A c, d \in credentials : c.binding = d.binding => c = d

\* A credential has a device that was stored with it or since.
HasDevice ==
    \A c \in credentials : \E d \in devices :
        d.binding = c.binding /\ d.key = c.key

TablesSound ==
    /\ OnePerBinding /\ HasDevice /\ UniqueProfiles(profiles)
    /\ GraphFollowsCredential /\ PrimaryExists

SInv == Alone /\ TablesSound /\ \A call \in inflight : Fresh(call)

-----------------------------------------------------------------------------
(* The initial state.                                                      *)

LEMMA SerialInit == Init => SInv
<1> SUFFICES ASSUME Init PROVE SInv
  OBVIOUS
<1>0. PICK bound \in SUBSET Bindings :
       \E kind \in [bound -> Kinds], cookie \in [bound -> Cookies],
          device \in [bound -> Devices], found \in [bound -> Discoveries] :
            Seeded(bound, kind, cookie, device, found)
  BY DEF Init
<1>1. PICK kind \in [bound -> Kinds], cookie \in [bound -> Cookies],
           device \in [bound -> Devices], found \in [bound -> Discoveries] :
              Seeded(bound, kind, cookie, device, found)
  BY <1>0
<1> DEFINE cred(b) == SeedCredential(kind[b], b, cookie[b])
           dev(b) == SeedDevice(kind[b], b, cookie[b], device[b])
           seed(b, i) == SeedProfile(kind[b], b, cookie[b], found[b][i], i = 1)
<1>2. /\ \A c \in credentials : \E b \in bound : c = cred(b)
      /\ \A b \in bound : cred(b) \in credentials
      /\ \A d \in devices : \E b \in bound : d = dev(b)
      /\ \A b \in bound : dev(b) \in devices
  BY <1>1 DEF Seeded
<1>a. \A b \in bound : /\ cred(b).binding = b /\ dev(b).binding = b
                      /\ dev(b).key = cred(b).key
  BY DEF SeedCredential, SeedDevice
<1>b. \A b \in bound : \A i : /\ seed(b, i).binding = b
                              /\ seed(b, i).key = cred(b).key
  BY DEF SeedCredential, SeedProfile
<1>3. \A p \in profiles : \E b \in bound : \E i \in DOMAIN found[b] : p = seed(b, i)
  BY <1>1 DEF Seeded
<1>4. \A b \in bound : \A i \in DOMAIN found[b] : seed(b, i) \in profiles
  BY <1>1 DEF Seeded
<1>5. OnePerBinding
  <2> HIDE DEF cred, dev, seed
  <2>1. QED
    BY <1>2, <1>a DEF OnePerBinding
<1>6. HasDevice
  <2> HIDE DEF cred, dev, seed
  <2>1. QED
    BY <1>2, <1>a DEF HasDevice
<1>7. UniqueProfiles(profiles)
  <2>1. SUFFICES ASSUME NEW p \in profiles, NEW q \in profiles,
                        p.binding = q.binding, p # q
                 PROVE  p.ident # q.ident /\ ~(p.default /\ q.default)
    BY DEF UniqueProfiles
  <2>a. PICK b \in bound : \E i \in DOMAIN found[b] : p = seed(b, i)
    BY <1>3
  <2>2. PICK i \in DOMAIN found[b] : p = seed(b, i)
    BY <2>a
  <2>3. PICK j \in DOMAIN found[b] : q = seed(b, j)
    BY <1>3, <2>1, <2>2 DEF SeedProfile
  <2>4. i # j
    BY <2>1, <2>2, <2>3
  <2>5. found[b][i] # found[b][j]
    BY <2>4, LifecycleAssumption DEF Injective
  <2>6. QED
    BY <2>2, <2>3, <2>4, <2>5 DEF SeedProfile
<1>8. GraphFollowsCredential
  <2> HIDE DEF cred, dev, seed
  <2>1. \A d \in devices : \E b \in bound :
           d.binding = cred(b).binding /\ d.key = cred(b).key
    BY <1>2, <1>a
  <2>2. \A p \in profiles : \E b \in bound :
           p.binding = cred(b).binding /\ p.key = cred(b).key
    BY <1>3, <1>a, <1>b
  <2>3. QED
    BY <1>2, <2>1, <2>2 DEF GraphFollowsCredential
<1>9. PrimaryExists
  <2>1. SUFFICES ASSUME NEW p \in profiles
                 PROVE  \E q \in profiles : q.binding = p.binding /\ q.default
    BY DEF PrimaryExists
  <2>a. PICK b \in bound : \E i \in DOMAIN found[b] : p = seed(b, i)
    BY <1>3
  <2>2. PICK i \in DOMAIN found[b] : p = seed(b, i)
    BY <2>a
  <2>3. 1 \in DOMAIN found[b]
    BY LifecycleAssumption
  <2>4. seed(b, 1) \in profiles /\ seed(b, 1).binding = p.binding
    BY <1>4, <2>2, <2>3 DEF SeedProfile
  <2>5. seed(b, 1).default
    BY DEF SeedProfile
  <2>6. QED
    BY <2>4, <2>5
<1>10. QED
  BY <1>5, <1>6, <1>7, <1>8, <1>9 DEF Init, SInv, Alone, TablesSound

-----------------------------------------------------------------------------
(* Steps that leave the tables alone.                                      *)

LEMMA OnlyOne ==
    ASSUME Alone, NEW call \in inflight
    PROVE  inflight = {call}
  BY DEF Alone

\* A binding that is undisputed later is so now.
LEMMA UndisputedBefore ==
    ASSUME submitted \subseteq submitted'
    PROVE  \A b : Undisputed(b)' => Undisputed(b)
  BY DEF Undisputed

LEMMA TablesKept ==
    ASSUME TablesSound, UNCHANGED tables, submitted \subseteq submitted'
    PROVE  TablesSound'
<1>1. UNCHANGED <<credentials, devices, profiles>>
  BY DEF tables
<1>2. GraphFollowsCredential' /\ PrimaryExists'
  BY <1>1, UndisputedBefore DEF TablesSound, GraphFollowsCredential, PrimaryExists
<1>3. OnePerBinding' /\ HasDevice' /\ UniqueProfiles(profiles)'
  BY <1>1 DEF TablesSound, OnePerBinding, HasDevice, UniqueProfiles
<1>4. QED
  BY <1>2, <1>3 DEF TablesSound

LEMMA SerialStart ==
    ASSUME Overlap = FALSE, SInv, NEW call, Start(call), Fresh(call),
           submitted \subseteq submitted'
    PROVE  SInv'
<1>1. inflight' = {call} /\ UNCHANGED tables
  BY DEF Start
<1>2. Fresh(call)'
  BY <1>1 DEF Fresh, tables, Of
<1>3. QED
  BY <1>1, <1>2, TablesKept DEF SInv, Alone

LEMMA SerialBegin == ASSUME Overlap = FALSE, IInv, SInv, Begin PROVE SInv'
<1>1. ASSUME NEW r \in Requests, NEW b \in Bindings, NEW cookie \in Cookies,
             NEW device \in Devices, NEW found \in Discoveries,
             Bind(r, b, cookie, device, found)
      PROVE  SInv'
  <2>1. PICK call : call = [id |-> r, op |-> "bind", step |-> "prepared",
                      binding |-> b, cookie |-> cookie, device |-> device,
                      found |-> found, creds |-> {}, rows |-> {}]
    OBVIOUS
  <2>2. Start(call) /\ submitted \subseteq submitted'
    BY <1>1, <2>1 DEF Bind
  <2>3. QED
    BY <2>1, <2>2, SerialStart DEF Fresh
<1>2. ASSUME NEW r \in Requests, NEW row \in credentials,
             NEW cookie \in Cookies, NEW device \in Devices,
             NEW found \in Discoveries, Update(r, row, cookie, device, found)
      PROVE  SInv'
  <2>1. PICK call : call = [id |-> r, op |-> "update", step |-> "prepared",
                      binding |-> row.key.binding, cookie |-> cookie,
                      device |-> device, found |-> found, creds |-> {},
                      rows |-> {}]
    OBVIOUS
  <2>2. Start(call) /\ submitted \subseteq submitted'
    BY <1>2, <2>1 DEF Update
  <2>3. /\ call.op = "update" /\ call.step = "prepared"
        /\ CallKey(call) = BoundKey(row.key.binding, cookie)
        /\ call.binding = row.key.binding
    BY <2>1 DEF CallKey
  <2>4. row.binding = call.binding /\ row.key = CallKey(call)
    BY <1>2, <2>3 DEF Update, IInv, Sound, CredentialSound, InScope
  <2>5. Fresh(call)
    BY <2>3, <2>4 DEF Fresh
  <2>6. QED
    BY <2>2, <2>5, SerialStart
<1>3. ASSUME NEW r \in Requests, NEW row \in credentials,
             NEW op \in {"validate", "refresh"}, Revalidate(r, op, row)
      PROVE  SInv'
  <2>1. PICK call : call = [id |-> r, op |-> op, binding |-> row.binding,
                            row |-> row]
    OBVIOUS
  <2>2. Start(call) /\ submitted' = submitted
    BY <1>3, <2>1 DEF Revalidate
  <2>3. QED
    BY <2>1, <2>2, SerialStart DEF Fresh
<1>4. ASSUME NEW r \in Requests, NEW row \in credentials, Delete(r, row)
      PROVE  SInv'
  <2>1. PICK call : call = [id |-> r, op |-> "delete",
                            binding |-> row.binding, key |-> row.key]
    OBVIOUS
  <2>2. Start(call) /\ submitted' = submitted
    BY <1>4, <2>1 DEF Delete
  <2>3. QED
    BY <2>1, <2>2, SerialStart DEF Fresh
<1>5. ASSUME NEW r \in Requests, NEW row \in credentials,
             NEW device \in Devices, UpsertDevice(r, row, device)
      PROVE  SInv'
  <2>1. PICK call : call = [id |-> r, op |-> "device", binding |-> row.binding,
                            key |-> row.key, device |-> device]
    OBVIOUS
  <2>2. Start(call) /\ submitted' = submitted
    BY <1>5, <2>1 DEF UpsertDevice
  <2>3. QED
    BY <2>1, <2>2, SerialStart DEF Fresh
<1>6. ASSUME NEW r \in Requests, NEW row \in profiles, Confirm(r, row)
      PROVE  SInv'
  <2>1. PICK call : call = [id |-> r, op |-> "confirm", binding |-> row.binding,
                            key |-> row.key, player |-> PlayerOf[row.ident]]
    OBVIOUS
  <2>2. Start(call) /\ submitted' = submitted
    BY <1>6, <2>1 DEF Confirm
  <2>3. QED
    BY <2>1, <2>2, SerialStart DEF Fresh
<1>7. QED
  BY <1>1, <1>2, <1>3, <1>4, <1>5, <1>6 DEF Begin

LEMMA SerialOpen ==
    ASSUME IInv, SInv, NEW call \in inflight, TxnOpen(call)
    PROVE  SInv'
<1>1. call \in BindCall
  BY CallKinds DEF TxnOpen, IInv, TypeOK
<1>2. PICK opened : opened = [call EXCEPT
                !.step = "open",
                !.creds = {c \in credentials : c.binding = call.binding},
                !.rows = {p \in profiles : p.binding = call.binding}]
  OBVIOUS
<1>3. /\ opened.op = call.op /\ opened.binding = call.binding
      /\ CallKey(opened) = CallKey(call)
      /\ opened.creds = Of(credentials, call.binding)
      /\ opened.rows = Of(profiles, call.binding)
  BY <1>1, <1>2 DEF BindCall, Of, CallKey
<1>4. inflight' = {opened} /\ UNCHANGED <<tables, submitted>>
  BY <1>2, OnlyOne DEF TxnOpen, SInv, history
<1>5. Fresh(opened)'
  <2>1. UNCHANGED <<credentials, profiles>> /\ CallKey(opened)' = CallKey(call)
    BY <1>3, <1>4 DEF tables, CallKey, BoundKey
  <2>2. opened.op \in {"bind", "update"}
    BY <1>1, <1>3 DEF BindCall
  <2>3. QED
    BY <1>3, <2>1, <2>2 DEF SInv, Fresh, Of
<1>6. QED
  BY <1>4, <1>5, TablesKept DEF SInv, Alone

\* An RPC ends: only what it leaves in the tables matters.
LEMMA SerialEnds ==
    ASSUME SInv, NEW call \in inflight, inflight' = inflight \ {call},
           TablesSound'
    PROVE  SInv'
<1>1. inflight' = {}
  BY OnlyOne DEF SInv
<1>2. QED
  BY <1>1 DEF SInv, Alone

-----------------------------------------------------------------------------
(* One binding at a time.                                                  *)

BindingSound(b) ==
    /\ \A c, d \in Of(credentials, b) : c = d
    /\ \A c \in Of(credentials, b) : \E d \in Of(devices, b) : d.key = c.key
    /\ UniqueProfiles(Of(profiles, b))
    /\ Undisputed(b) =>
         /\ \A row \in Of(devices, b) \cup Of(profiles, b) :
              \E c \in Of(credentials, b) : c.key = row.key
         /\ \A p \in Of(profiles, b) : \E q \in Of(profiles, b) : q.default

LEMMA ByBinding == TablesSound <=> \A b : BindingSound(b)
<1>1. ASSUME TablesSound, NEW b PROVE BindingSound(b)
  <2>1. /\ \A c, d \in Of(credentials, b) : c = d
        /\ \A c \in Of(credentials, b) : \E d \in Of(devices, b) : d.key = c.key
    BY <1>1 DEF TablesSound, OnePerBinding, HasDevice, Of
  <2>2. UniqueProfiles(Of(profiles, b))
    BY <1>1 DEF TablesSound, UniqueProfiles, Of
  <2>3. ASSUME Undisputed(b)
        PROVE  /\ \A row \in Of(devices, b) \cup Of(profiles, b) :
                    \E c \in Of(credentials, b) : c.key = row.key
               /\ \A p \in Of(profiles, b) : \E q \in Of(profiles, b) : q.default
    BY <1>1, <2>3 DEF TablesSound, GraphFollowsCredential, PrimaryExists, Of
  <2>4. QED
    BY <2>1, <2>2, <2>3 DEF BindingSound
<1>2. ASSUME \A b : BindingSound(b) PROVE TablesSound
  <2>1. OnePerBinding
    <3>1. SUFFICES ASSUME NEW c \in credentials, NEW d \in credentials,
                          c.binding = d.binding
                   PROVE  c = d
      BY DEF OnePerBinding
    <3>2. BindingSound(c.binding)
      BY <1>2
    <3>3. QED
      BY <3>1, <3>2 DEF BindingSound, Of
  <2>2. HasDevice
    <3>1. SUFFICES ASSUME NEW c \in credentials
                   PROVE  \E d \in devices : d.binding = c.binding /\ d.key = c.key
      BY DEF HasDevice
    <3>2. BindingSound(c.binding)
      BY <1>2
    <3>3. QED
      BY <3>2 DEF BindingSound, Of
  <2>3. UniqueProfiles(profiles)
    <3>1. SUFFICES ASSUME NEW p \in profiles, NEW q \in profiles,
                          p.binding = q.binding, p # q
                   PROVE  p.ident # q.ident /\ ~(p.default /\ q.default)
      BY DEF UniqueProfiles
    <3>2. BindingSound(p.binding)
      BY <1>2
    <3>3. p \in Of(profiles, p.binding) /\ q \in Of(profiles, p.binding)
      BY <3>1 DEF Of
    <3>4. QED
      BY <3>1, <3>2, <3>3 DEF BindingSound, UniqueProfiles
  <2>4. GraphFollowsCredential
    <3>1. SUFFICES ASSUME NEW row \in devices \cup profiles,
                          Undisputed(row.binding)
                   PROVE  \E c \in credentials :
                             c.binding = row.binding /\ c.key = row.key
      BY DEF GraphFollowsCredential
    <3>2. BindingSound(row.binding)
      BY <1>2
    <3>3. row \in Of(devices, row.binding) \cup Of(profiles, row.binding)
      BY DEF Of
    <3>4. PICK c \in Of(credentials, row.binding) : c.key = row.key
      BY <3>1, <3>2, <3>3 DEF BindingSound
    <3>5. QED
      BY <3>4 DEF Of
  <2>5. PrimaryExists
    <3>1. SUFFICES ASSUME NEW p \in profiles, Undisputed(p.binding)
                   PROVE  \E q \in profiles : q.binding = p.binding /\ q.default
      BY DEF PrimaryExists
    <3>2. BindingSound(p.binding)
      BY <1>2
    <3>3. p \in Of(profiles, p.binding)
      BY DEF Of
    <3>4. PICK q \in Of(profiles, p.binding) : q.default
      BY <3>1, <3>2, <3>3 DEF BindingSound
    <3>5. QED
      BY <3>4 DEF Of
  <2>6. QED
    BY <2>1, <2>2, <2>3, <2>4, <2>5 DEF TablesSound
<1>3. QED
  BY <1>1, <1>2

\* Writes of another binding may take the credential, and nothing else, and
\* that only when the account is disputed.
LEMMA OthersSound ==
    ASSUME IInv, NEW call \in inflight, Writes(call),
           NEW b, b # call.binding, BindingSound(b)
    PROVE  BindingSound(b)'
<1>1. /\ Of(devices', b) = Of(devices, b)
      /\ Of(profiles', b) = Of(profiles, b)
      /\ Undisputed(b) => Of(credentials', b) = Of(credentials, b)
  BY OthersKept
<1>2. Of(credentials', b) \subseteq Of(credentials, b)
  <2>1. CASE TxnCommit(call)
    BY <2>1 DEF TxnCommit, CredentialsAfter, SaveCredential, BoundRow, Of
  <2>2. ASSUME NEW status \in Statuses, RevalidateSave(call, status)
        PROVE  Of(credentials', b) \subseteq Of(credentials, b)
    <3>1. RevalidatedRow(call, status).binding = call.binding
      BY <2>2, RevalidatedSame DEF RevalidateSave
    <3>2. QED
      BY <2>2, <3>1 DEF RevalidateSave, SaveCredential, Of
  <2>3. CASE DeleteWipe(call) \/ DeviceSave(call) \/ ConfirmSet(call)
    BY <2>3 DEF DeleteWipe, DeviceSave, ConfirmSet, Of
  <2>4. QED
    BY <2>1, <2>2, <2>3 DEF Writes
<1>3. Undisputed(b)' <=> Undisputed(b)
  BY WritesFinish DEF Undisputed
<1> DEFINE creds == Of(credentials, b)
           after == Of(credentials', b)
           devs == Of(devices, b)
           profs == Of(profiles, b)
<1>4. /\ \A c, d \in after : c = d
      /\ \A c \in after : \E d \in devs : d.key = c.key
      /\ UniqueProfiles(profs)
      /\ Undisputed(b) =>
           /\ \A row \in devs \cup profs : \E c \in after : c.key = row.key
           /\ \A p \in profs : \E q \in profs : q.default
  BY <1>1, <1>2 DEF BindingSound
<1>5. QED
  BY <1>1, <1>3, <1>4 DEF BindingSound, Of, UniqueProfiles

LEMMA ByBindingNext == TablesSound' <=> (\A b : BindingSound(b))'
  BY ByBinding, PTL

LEMMA TablesByBinding ==
    ASSUME IInv, TablesSound, NEW call \in inflight, Writes(call),
           BindingSound(call.binding)'
    PROVE  TablesSound'
<1>1. \A b : BindingSound(b)
  BY ByBinding
<1>2. \A b : BindingSound(b)'
  BY <1>1, OthersSound
<1>3. QED
  BY <1>2, ByBindingNext

-----------------------------------------------------------------------------
(* The writes of a bind or an update.                                      *)

\* A row of a set is either rewritten or kept, so that distinct rows give
\* distinct ones: UniqueProfiles survives the other profiles' upserts.
LEMMA OthersUnique ==
    ASSUME NEW call \in BindCall, NEW rows, rows \subseteq ProfileRow,
           UniqueProfiles(rows)
    PROVE  UniqueProfiles(SaveOthers(call, rows))
<1> DEFINE others == {call.found[i] : i \in 2..Len(call.found)}
           hit(p) == p.binding = call.binding /\ p.ident \in others
           put(p) == [p EXCEPT !.key = CallKey(call), !.default = FALSE]
           new(ident) == NewProfile(call, ident, FALSE)
           fresh == {i \in others : ~ \E p \in rows : hit(p) /\ p.ident = i}
<1>1. SaveOthers(call, rows) =
        {IF hit(p) THEN put(p) ELSE p : p \in rows} \cup {new(i) : i \in fresh}
  BY DEF SaveOthers
<1>2. \A p \in rows : /\ put(p).binding = p.binding /\ put(p).ident = p.ident
                      /\ put(p).default = FALSE
  BY DEF ProfileRow
<1>3. \A i : /\ new(i).binding = call.binding /\ new(i).ident = i
             /\ new(i).default = FALSE
  BY DEF NewProfile
<1>4. \A p \in rows : p.binding = call.binding => p.ident \notin fresh
  OBVIOUS
<1>5. \A p, q \in rows : p.binding = q.binding /\ p # q =>
          p.ident # q.ident /\ ~(p.default /\ q.default)
  BY DEF UniqueProfiles
<1> HIDE DEF hit, put, new, fresh
<1>6. ASSUME NEW p \in SaveOthers(call, rows), NEW q \in SaveOthers(call, rows),
             p.binding = q.binding, p # q
      PROVE  p.ident # q.ident /\ ~(p.default /\ q.default)
  <2>1. CASE \E i \in fresh : p = new(i)
    <3>1. PICK i \in fresh : p = new(i)
      BY <2>1
    <3>2. CASE \E j \in fresh : q = new(j)
      BY <1>3, <1>6, <3>1, <3>2
    <3>3. CASE \E r \in rows : q = IF hit(r) THEN put(r) ELSE r
      BY <1>2, <1>3, <1>4, <1>6, <3>1, <3>3
    <3>4. QED
      BY <1>1, <3>2, <3>3
  <2>2. CASE \E r \in rows : p = IF hit(r) THEN put(r) ELSE r
    <3>1. PICK r \in rows : p = IF hit(r) THEN put(r) ELSE r
      BY <2>2
    <3>2. CASE \E j \in fresh : q = new(j)
      BY <1>2, <1>3, <1>4, <1>6, <3>1, <3>2
    <3>3. CASE \E t \in rows : q = IF hit(t) THEN put(t) ELSE t
      <4>1. PICK t \in rows : q = IF hit(t) THEN put(t) ELSE t
        BY <3>3
      <4>2. r # t /\ r.binding = t.binding
        BY <1>2, <1>6, <3>1, <4>1
      <4>3. r.ident # t.ident /\ ~(r.default /\ t.default)
        BY <1>5, <4>2
      <4>4. QED
        BY <1>2, <3>1, <4>1, <4>3
    <3>4. QED
      BY <1>1, <3>2, <3>3
  <2>3. QED
    BY <1>1, <2>1, <2>2
<1>7. QED
  BY <1>6 DEF UniqueProfiles

LEMMA BindUnique ==
    ASSUME IInv, NEW call \in inflight, TxnCommit(call),
           UniqueProfiles(profiles)
    PROVE  UniqueProfiles(profiles')
<1>1. call \in BindCall /\ Kept(call) \subseteq ProfileRow
  BY CallKinds DEF TxnCommit, IInv, TypeOK, Kept
<1>2. UniqueProfiles(Kept(call))
  BY DEF UniqueProfiles, Kept
<1>3. UniqueProfiles(SaveProfiles(call, Kept(call)))
  <2>1. CASE call.found = <<>>
    BY <1>2, <2>1 DEF SaveProfiles
  <2>2. CASE call.found # <<>>
    <3>1. UniqueProfiles(SaveDefault(call, Kept(call)))
      BY <2>2 DEF TxnCommit, DefaultAccepted
    <3>2. SaveDefault(call, Kept(call)) \subseteq ProfileRow
      BY <1>1, <2>2, DefaultTypes
    <3>3. QED
      BY <1>1, <2>2, <3>1, <3>2, OthersUnique DEF SaveProfiles
  <2>3. QED
    BY <2>1, <2>2
<1>4. profiles' \subseteq SaveProfiles(call, Kept(call))
  BY DEF TxnCommit, ProfilesAfter, Prune, DeleteMissing
<1>5. QED
  BY <1>3, <1>4 DEF UniqueProfiles

\* While nobody disputes the account, every row the binding had goes by the
\* key its credential had.
LEMMA BindForgets ==
    ASSUME SInv, NEW call \in inflight, TxnCommit(call),
           Undisputed(call.binding)
    PROVE  /\ \A d \in Of(devices, call.binding) :
                 d.key \in Replaced(call) \/ d.key = CallKey(call)
           /\ \A p \in Of(profiles, call.binding) : p.key \in Gone(call)
<1>1. call.creds = Of(credentials, call.binding)
  BY DEF SInv, Fresh, TxnCommit
<1>2. \A c, d \in call.creds : c = d
  BY <1>1 DEF SInv, TablesSound, OnePerBinding, Of
<1>3. \A row \in Of(devices, call.binding) \cup Of(profiles, call.binding) :
          \E c \in call.creds : c.key = row.key
  BY <1>1 DEF SInv, TablesSound, GraphFollowsCredential, Of
<1>4. QED
  BY <1>2, <1>3 DEF Replaced, Gone

\* The profiles a bind or an update leaves: those reported, and no other.
Listing(call) ==
    {NewProfile(call, call.found[i], i = 1) : i \in DOMAIN call.found}

LEMMA BindProfiles ==
    ASSUME IInv, SInv, NEW call \in inflight, TxnCommit(call),
           Undisputed(call.binding)
    PROVE  Of(profiles', call.binding) = Listing(call)
<1> DEFINE b == call.binding
           new(i) == NewProfile(call, call.found[i], i = 1)
           kept == Kept(call)
<1>1. call \in BindCall /\ call.found \in Discoveries
  BY CallKinds DEF TxnCommit, IInv, TypeOK, BindCall
<1>2. call.found \in Seq(Idents) /\ Injective(call.found)
  BY <1>1, LifecycleAssumption
<1>3. Of(kept, b) = {}
  BY BindForgets DEF Of, Kept
<1>4. Visible(call) = {}
  <2>1. call.rows = Of(profiles, b)
    BY DEF SInv, Fresh, TxnCommit
  <2>2. QED
    BY <2>1, BindForgets DEF Visible, SameRow, Of
<1>5. \A i : /\ new(i).binding = b /\ new(i).ident = call.found[i]
             /\ new(i).default = (i = 1)
  BY DEF NewProfile
<1>6. CASE call.found = <<>>
  <2>1. SaveProfiles(call, kept) = kept
    BY <1>6 DEF SaveProfiles
  <2>2. Of(profiles', b) = {}
    BY <1>3, <2>1 DEF TxnCommit, ProfilesAfter, Prune, DeleteMissing, Of
  <2>3. QED
    BY <1>6, <2>2 DEF Listing
<1>7. CASE call.found # <<>>
  <2> DEFINE others == {call.found[i] : i \in 2..Len(call.found)}
             first == kept \cup {new(1)}
             hit(p) == p.binding = b /\ p.ident \in others
             put(p) == [p EXCEPT !.key = CallKey(call), !.default = FALSE]
             fresh == {i \in others : ~ \E p \in first : hit(p) /\ p.ident = i}
             all == SaveProfiles(call, kept)
  <2>1. SaveDefault(call, kept) = first
    BY <1>4 DEF SaveDefault
  <2>2. 1 \in DOMAIN call.found /\ DOMAIN call.found = 1..Len(call.found)
        /\ Len(call.found) \in Nat
    BY <1>2, <1>7
  <2>3. call.found[1] \notin others
    BY <1>2, <2>2 DEF Injective
  <2>4. \A p \in first : ~ hit(p)
    BY <1>3, <1>5, <2>3 DEF Of
  <2>5. all = first \cup {NewProfile(call, ident, FALSE) : ident \in others}
    <3>1. all = {IF hit(p) THEN put(p) ELSE p : p \in first}
                  \cup {NewProfile(call, ident, FALSE) : ident \in fresh}
      BY <1>7, <2>1 DEF SaveProfiles, SaveOthers
    <3>2. fresh = others
      BY <2>4
    <3> HIDE DEF hit, put, first, fresh, others
    <3>3. {IF hit(p) THEN put(p) ELSE p : p \in first} = first
      BY <2>4
    <3>4. QED
      BY <3>1, <3>2, <3>3
  <2>6. Of(all, b) = {new(1)} \cup {NewProfile(call, ident, FALSE) : ident \in others}
    <3> DEFINE rest == {NewProfile(call, ident, FALSE) : ident \in others}
    <3>1. \A p \in rest : p.binding = b
      BY DEF NewProfile
    <3>2. new(1).binding = b /\ all = kept \cup {new(1)} \cup rest
      BY <1>5, <2>5
    <3> HIDE DEF rest, new, all, kept
    <3>3. Of(all, b) = {new(1)} \cup rest
      BY <1>3, <3>1, <3>2 DEF Of
    <3>4. QED
      BY <3>3 DEF rest
  <2>7. Of(all, b) = Listing(call)
    <3> DEFINE n == Len(call.found)
               also(i) == NewProfile(call, call.found[i], FALSE)
    <3>1. DOMAIN call.found = 1..n /\ n \in Nat /\ 1 \in 1..n
      BY <2>2
    <3> HIDE DEF n
    <3>2. \A i \in 2..n : i \in 1..n /\ (i = 1) = FALSE
      BY <3>1
    <3>3. \A i \in 1..n : i = 1 \/ i \in 2..n
      BY <3>1
    <3>4. \A i \in 2..n : new(i) = also(i)
      BY <3>2
    <3>5. Of(all, b) = {new(1)} \cup {also(i) : i \in 2..n}
      <4>1. {also(i) : i \in 2..n} = {NewProfile(call, ident, FALSE) : ident \in others}
        BY DEF n
      <4> HIDE DEF all, also, others, new
      <4>2. QED
        BY <2>6, <4>1
    <3>6. Listing(call) = {new(i) : i \in 1..n}
      BY <3>1 DEF Listing
    <3> HIDE DEF all, new, also
    <3>7. QED
      BY <3>1, <3>2, <3>3, <3>4, <3>5, <3>6
  <2>8. \A p \in Of(all, b) : p.ident \in {call.found[i] : i \in DOMAIN call.found}
    BY <1>5, <2>7 DEF Listing
  <2>9. Of(profiles', b) = Of(all, b)
    BY <2>8 DEF TxnCommit, ProfilesAfter, Prune, DeleteMissing, Of
  <2>10. QED
    BY <2>7, <2>9
<1>8. QED
  BY <1>6, <1>7

-----------------------------------------------------------------------------
(* What each write leaves of its own binding.                              *)

\* BindingSound in the next state, from what the tables are then.
LEMMA NextSound ==
    ASSUME NEW b, submitted' = submitted,
           \A c, d \in Of(credentials', b) : c = d,
           \A c \in Of(credentials', b) : \E d \in Of(devices', b) : d.key = c.key,
           UniqueProfiles(Of(profiles', b)),
           Undisputed(b) =>
             /\ \A row \in Of(devices', b) \cup Of(profiles', b) :
                  \E c \in Of(credentials', b) : c.key = row.key
             /\ \A p \in Of(profiles', b) : \E q \in Of(profiles', b) : q.default
    PROVE  BindingSound(b)'
<1>1. Undisputed(b)' <=> Undisputed(b)
  BY DEF Undisputed
<1>2. QED
  BY <1>1 DEF BindingSound, Of, UniqueProfiles

LEMMA BindSerial ==
    ASSUME IInv, SInv, NEW call \in inflight, TxnCommit(call)
    PROVE  BindingSound(call.binding)'
<1> DEFINE b == call.binding
<1>1. /\ Of(credentials', b) = {BoundRow(call)}
      /\ BoundDevice(call) \in Of(devices', b)
      /\ \A d \in Of(devices', b) :
            \/ d = BoundDevice(call)
            \/ d \in Of(devices, b) /\ d.key \notin Replaced(call)
  BY BindCredential
<1>2. BoundRow(call).key = CallKey(call) /\ BoundDevice(call).key = CallKey(call)
  BY DEF BoundRow, BoundDevice
<1>3. UniqueProfiles(Of(profiles', b))
  BY BindUnique DEF SInv, TablesSound, UniqueProfiles, Of
<1>4. ASSUME Undisputed(b)
      PROVE  /\ \A row \in Of(devices', b) \cup Of(profiles', b) :
                  row.key = CallKey(call)
             /\ \A p \in Of(profiles', b) : \E q \in Of(profiles', b) : q.default
  <2>1. \A d \in Of(devices', b) : d.key = CallKey(call)
    BY <1>1, <1>2, <1>4, BindForgets
  <2>2. Of(profiles', b) = Listing(call)
    BY <1>4, BindProfiles
  <2>3. \A p \in Listing(call) : p.key = CallKey(call)
    BY DEF Listing, NewProfile
  <2>4. ASSUME NEW p \in Listing(call)
        PROVE  \E q \in Listing(call) : q.default
    <3>1. call \in BindCall
      BY CallKinds DEF TxnCommit, IInv, TypeOK
    <3>2. 1 \in DOMAIN call.found
      BY <2>4, <3>1, FoundTypes DEF Listing
    <3>3. PICK q : q = NewProfile(call, call.found[1], 1 = 1)
      OBVIOUS
    <3>4. q \in Listing(call)
      BY <3>2, <3>3 DEF Listing
    <3>5. q.default
      BY <3>3 DEF NewProfile
    <3>6. QED
      BY <3>4, <3>5
  <2>5. QED
    BY <2>1, <2>2, <2>3, <2>4
<1>5. submitted' = submitted
  BY WritesFinish DEF Writes
<1>6. QED
  BY <1>1, <1>2, <1>3, <1>4, <1>5, NextSound

\* The one credential of the binding is replaced by itself, revalidated.
LEMMA RevalidateLeaves ==
    ASSUME IInv, SInv, NEW call \in inflight, NEW status \in Statuses,
           RevalidateSave(call, status)
    PROVE  Of(credentials, call.binding) = {call.row}
           /\ Of(credentials', call.binding) = {RevalidatedRow(call, status)}
           /\ RevalidatedRow(call, status).key = call.row.key
           /\ RevalidatedRow(call, status).account = call.row.account
<1> DEFINE row == RevalidatedRow(call, status)
<1>1. /\ call.op \in {"validate", "refresh"} /\ call.row \in credentials
      /\ credentials' = SaveCredential(row)
  BY DEF RevalidateSave, SInv, Fresh
<1>2. /\ call.row.binding = call.binding /\ row.binding = call.binding
      /\ row.key = call.row.key /\ row.account = call.row.account
  BY <1>1, RevalidatedSame
<1>3. Of(credentials, call.binding) = {call.row}
  BY <1>1, <1>2 DEF SInv, TablesSound, OnePerBinding, Of
<1> HIDE DEF row
<1>4. Of(credentials', call.binding) = {row}
  BY <1>1, <1>2 DEF SaveCredential, Colliding, Of
<1>5. QED
  BY <1>2, <1>3, <1>4 DEF row

LEMMA RevalidateSerial ==
    ASSUME IInv, SInv, NEW call \in inflight, NEW status \in Statuses,
           RevalidateSave(call, status)
    PROVE  BindingSound(call.binding)'
<1> DEFINE b == call.binding
<1>1. /\ Of(credentials, b) = {call.row}
      /\ \E row : Of(credentials', b) = {row} /\ row.key = call.row.key
  BY RevalidateLeaves
<1>2. BindingSound(b)
  BY ByBinding DEF SInv
<1>3. Of(devices', b) = Of(devices, b) /\ Of(profiles', b) = Of(profiles, b)
  BY DEF RevalidateSave
<1>4. submitted' = submitted
  BY WritesFinish DEF Writes
<1>5. QED
  BY <1>1, <1>2, <1>3, <1>4, NextSound DEF BindingSound

LEMMA DeleteSerial ==
    ASSUME NEW call \in inflight, DeleteWipe(call)
    PROVE  BindingSound(call.binding)'
<1> DEFINE b == call.binding
<1>1. /\ Of(credentials', b) = {} /\ Of(devices', b) = {} /\ Of(profiles', b) = {}
      /\ submitted' = submitted
  BY DEF DeleteWipe, Finish, Of
<1>2. QED
  BY <1>1, NextSound DEF UniqueProfiles

LEMMA DeviceSerial ==
    ASSUME SInv, NEW call \in inflight, DeviceSave(call)
    PROVE  BindingSound(call.binding)'
<1> DEFINE b == call.binding
<1>0. PICK row : row = [binding |-> b, device |-> call.device, key |-> call.key]
  OBVIOUS
<1>1. /\ Of(credentials', b) = Of(credentials, b)
      /\ Of(profiles', b) = Of(profiles, b)
      /\ submitted' = submitted
  BY DEF DeviceSave, Finish
<1>2. /\ row \in Of(devices', b) /\ row.key = call.key
      /\ \A d \in Of(devices', b) : d = row \/ d \in Of(devices, b)
  BY <1>0 DEF DeviceSave, SaveDevice, Of
<1>3. PICK c \in Of(credentials, b) : c.key = call.key
  BY DEF SInv, Fresh, DeviceSave, Of
<1>4. BindingSound(b)
  BY ByBinding DEF SInv
<1>5. QED
  BY <1>1, <1>2, <1>3, <1>4, NextSound DEF BindingSound

LEMMA ConfirmSerial ==
    ASSUME IInv, SInv, NEW call \in inflight, ConfirmSet(call)
    PROVE  BindingSound(call.binding)'
<1> DEFINE b == call.binding
<1>1. /\ Of(credentials', b) = Of(credentials, b)
      /\ Of(devices', b) = Of(devices, b)
      /\ submitted' = submitted
  BY DEF ConfirmSet, Finish
<1>2. UniqueProfiles(Of(profiles', b))
  BY DEF ConfirmSet, UniqueProfiles, Of
<1>3. BindingSound(b)
  BY ByBinding DEF SInv
<1>4. Undisputed(b) =>
        /\ \A row \in Of(devices', b) \cup Of(profiles', b) :
             \E c \in Of(credentials', b) : c.key = row.key
        /\ \A p \in Of(profiles', b) : \E q \in Of(profiles', b) : q.default
  BY <1>1, <1>3, ConfirmLeaves DEF BindingSound
<1>5. QED
  BY <1>1, <1>2, <1>3, <1>4, NextSound DEF BindingSound

-----------------------------------------------------------------------------
(* Theorems.                                                               *)

LEMMA SerialWrites ==
    ASSUME IInv, SInv, NEW call \in inflight, Writes(call)
    PROVE  SInv'
<1>1. BindingSound(call.binding)'
  BY BindSerial, RevalidateSerial, DeleteSerial, DeviceSerial, ConfirmSerial
     DEF Writes
<1>2. TablesSound'
  BY <1>1, TablesByBinding DEF SInv
<1>3. QED
  BY <1>2, WritesFinish, SerialEnds

LEMMA SerialNext == Overlap = FALSE /\ IInv /\ SInv /\ [Next]_vars => SInv'
<1> SUFFICES ASSUME Overlap = FALSE, IInv, SInv, [Next]_vars PROVE SInv'
  OBVIOUS
<1>1. CASE Begin
  BY <1>1, SerialBegin
<1>2. ASSUME NEW call \in inflight, TxnOpen(call) PROVE SInv'
  BY <1>2, SerialOpen
<1>3. ASSUME NEW call \in inflight, Writes(call) PROVE SInv'
  BY <1>3, SerialWrites
<1>4. ASSUME NEW call \in inflight, Fail(call) PROVE SInv'
  <2>1. inflight' = inflight \ {call} /\ TablesSound'
    BY <1>4, TablesKept DEF Fail, history, SInv
  <2>2. QED
    BY <2>1, SerialEnds
<1>5. CASE UNCHANGED vars
  BY <1>5, TablesKept
     DEF vars, tables, SInv, Alone, Fresh, Of
<1>6. QED
  BY <1>1, <1>2, <1>3, <1>4, <1>5 DEF Next, Continue, Writes

\* RPCs that do not overlap, whichever of them fail and wherever, find the
\* three tables in order: one credential a binding with a device of its own
\* key, unique profiles, and for an account nobody else submits no row of an
\* earlier account and always a default profile.
THEOREM SerialInvariant ==
    ASSUME Overlap = FALSE PROVE Spec => []SInv
<1>1. Init => SInv
  BY SerialInit
<1>2. IInv /\ SInv /\ [Next]_vars => SInv'
  BY SerialNext
<1>3. QED
  BY <1>1, <1>2, InvariantHolds, PTL DEF Spec

\* A rebind, an update and a delete leave no device and no profile of the
\* account they replace: every row left goes by the credential's key.
THEOREM GraphFollows ==
    ASSUME Overlap = FALSE PROVE Spec => []GraphFollowsCredential
<1>1. SInv => GraphFollowsCredential
  BY DEF SInv, TablesSound
<1>2. QED
  BY <1>1, SerialInvariant, PTL

\* Whatever bind, update, prune and confirm did before, GetPrimaryProfile
\* finds the default row whenever the binding has profiles.
THEOREM PrimaryAlwaysExists ==
    ASSUME Overlap = FALSE PROVE Spec => []PrimaryExists
<1>1. SInv => PrimaryExists
  BY DEF SInv, TablesSound
<1>2. QED
  BY <1>1, SerialInvariant, PTL
=============================================================================
