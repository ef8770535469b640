--------------------- MODULE CredentialLifecycleProofs ---------------------
(***************************************************************************)
(* Proofs about CredentialLifecycle: for every set of requests, bindings,  *)
(* accounts, cookies, devices and profiles, however many RPCs overlap and  *)
(* fail.                                                                   *)
(***************************************************************************)
EXTENDS CredentialLifecycle, TLAPS

-----------------------------------------------------------------------------
(* The kinds of calls.                                                     *)

\* The op of a call tells which record it is: the five kinds share none.
LEMMA CallKinds ==
    ASSUME NEW call \in Calls
    PROVE  /\ call.id \in Requests
           /\ call.binding \in Bindings
           /\ call.op \in {"bind", "update"} => call \in BindCall
           /\ call.op \in {"validate", "refresh"} => call \in RevalidateCall
           /\ call.op = "delete" => call \in DeleteCall
           /\ call.op = "device" => call \in DeviceCall
           /\ call.op = "confirm" => call \in ConfirmCall
  BY DEF Calls, BindCall, RevalidateCall, DeleteCall, DeviceCall, ConfirmCall

\* The key, the credential and the device a bind writes are well formed.
LEMMA BoundTypes ==
    ASSUME NEW call \in BindCall
    PROVE  /\ CallKey(call) \in Keys
           /\ CallKey(call).binding = call.binding
           /\ BoundRow(call) \in CredentialRow
           /\ BoundDevice(call) \in DeviceRow
           /\ \A ident \in Idents, d \in BOOLEAN :
                  NewProfile(call, ident, d) \in ProfileRow
  BY LifecycleAssumption
     DEF CallKey, BoundKey, BoundRow, BoundDevice, NewProfile, BindCall, Keys,
         Kinds, CredentialRow, DeviceRow, ProfileRow, Statuses

LEMMA FoundTypes ==
    ASSUME NEW call \in BindCall
    PROVE  /\ \A i \in DOMAIN call.found : call.found[i] \in Idents
           /\ \A i \in 2..Len(call.found) : call.found[i] \in Idents
           /\ call.found # <<>> => 1 \in DOMAIN call.found
  BY LifecycleAssumption DEF BindCall

LEMMA DefaultTypes ==
    ASSUME NEW call \in BindCall, NEW rows, rows \subseteq ProfileRow,
           call.found # <<>>
    PROVE  SaveDefault(call, rows) \subseteq ProfileRow
<1>1. \A p \in ProfileRow :
         [p EXCEPT !.key = CallKey(call), !.default = TRUE] \in ProfileRow
  BY BoundTypes DEF ProfileRow
<1>2. NewProfile(call, call.found[1], TRUE) \in ProfileRow
  BY BoundTypes, FoundTypes
<1>3. QED
  BY <1>1, <1>2 DEF SaveDefault

\* Whatever the bind does to profile rows keeps them profile rows.
LEMMA ProfilesTypes ==
    ASSUME NEW call \in BindCall, profiles \subseteq ProfileRow
    PROVE  ProfilesAfter(call) \subseteq ProfileRow
<1>1. Kept(call) \subseteq ProfileRow
  BY DEF Kept
<1>2. ASSUME call.found # <<>>
      PROVE  SaveDefault(call, Kept(call)) \subseteq ProfileRow
  BY <1>1, <1>2, DefaultTypes
<1>3. ASSUME NEW rows, rows \subseteq ProfileRow
      PROVE  SaveOthers(call, rows) \subseteq ProfileRow
  <2>1. \A p \in ProfileRow :
           [p EXCEPT !.key = CallKey(call), !.default = FALSE] \in ProfileRow
    BY BoundTypes DEF ProfileRow
  <2>2. \A ident \in {call.found[i] : i \in 2..Len(call.found)} :
           NewProfile(call, ident, FALSE) \in ProfileRow
    <3>1. SUFFICES ASSUME NEW i \in 2..Len(call.found)
                   PROVE  NewProfile(call, call.found[i], FALSE) \in ProfileRow
      OBVIOUS
    <3>2. QED
      BY BoundTypes, FoundTypes
  <2>3. QED
    BY <1>3, <2>1, <2>2 DEF SaveOthers
<1>4. SaveProfiles(call, Kept(call)) \subseteq ProfileRow
  BY <1>1, <1>2, <1>3 DEF SaveProfiles
<1>5. QED
  BY <1>4 DEF ProfilesAfter, Prune, DeleteMissing

-----------------------------------------------------------------------------
(* Type correctness.                                                       *)

LEMMA SaveTypes ==
    ASSUME TypeOK
    PROVE  /\ \A row \in CredentialRow :
                  SaveCredential(row) \subseteq CredentialRow
           /\ \A row \in DeviceRow : SaveDevice(row) \subseteq DeviceRow
  BY DEF TypeOK, SaveCredential, SaveDevice

LEMMA StartTypes ==
    ASSUME TypeOK, NEW call \in Calls, Start(call)
    PROVE  /\ inflight' \subseteq Calls
           /\ used' \subseteq Requests
           /\ applied' \subseteq used'
           /\ \A c \in inflight' : c.id \in used'
           /\ UNCHANGED <<tables, revalidated>>
  BY CallKinds DEF TypeOK, Start, tables

LEMMA FinishTypes ==
    ASSUME TypeOK, NEW call \in inflight, Finish(call)
    PROVE  /\ inflight' \subseteq Calls
           /\ used' \subseteq Requests
           /\ applied' \subseteq used'
           /\ \A c \in inflight' : c.id \in used'
           /\ UNCHANGED submitted
  BY DEF TypeOK, Finish

LEMMA SeedTypes ==
    ASSUME NEW kind \in Kinds, NEW b \in Bindings, NEW cookie \in Cookies
    PROVE  /\ SeedCredential(kind, b, cookie) \in CredentialRow
           /\ \A device \in Devices :
                  SeedDevice(kind, b, cookie, device) \in DeviceRow
           /\ \A ident \in Idents, d \in BOOLEAN :
                  SeedProfile(kind, b, cookie, ident, d) \in ProfileRow
  BY LifecycleAssumption
     DEF SeedKey, SeedCredential, SeedDevice, SeedProfile, Keys,
         CredentialRow, DeviceRow, ProfileRow, Statuses

LEMMA TypeInit == Init => TypeOK
<1> SUFFICES ASSUME Init PROVE TypeOK
  OBVIOUS
<1>0. PICK bound \in SUBSET Bindings :
       \E kind \in [bound -> Kinds], cookie \in [bound -> Cookies],
          device \in [bound -> Devices], found \in [bound -> Discoveries] :
            Seeded(bound, kind, cookie, device, found)
  BY DEF Init
<1>1. PICK kind \in [bound -> Kinds], cookie \in [bound -> Cookies],
           device \in [bound -> Devices], found \in [bound -> Discoveries] :
              Seeded(bound, kind, cookie, device, found)
  BY <1>0
<1>2. ASSUME NEW b \in bound
      PROVE  /\ kind[b] \in Kinds /\ b \in Bindings /\ cookie[b] \in Cookies
             /\ device[b] \in Devices
             /\ \A i \in DOMAIN found[b] : found[b][i] \in Idents
  BY LifecycleAssumption
<1>3. credentials \subseteq CredentialRow
  BY <1>1, <1>2, SeedTypes DEF Seeded
<1>4. devices \subseteq DeviceRow
  BY <1>1, <1>2, SeedTypes DEF Seeded
<1>5. profiles \subseteq ProfileRow
  <2>1. ASSUME NEW b \in bound, NEW i \in DOMAIN found[b]
        PROVE  SeedProfile(kind[b], b, cookie[b], found[b][i], i = 1)
                  \in ProfileRow
    <3>1. (i = 1) \in BOOLEAN
      OBVIOUS
    <3>2. QED
      BY <1>2, <3>1, SeedTypes
  <2>2. ASSUME NEW p \in profiles PROVE p \in ProfileRow
    <3>1. PICK b \in bound : p \in {SeedProfile(kind[b], b, cookie[b],
                 found[b][i], i = 1) : i \in DOMAIN found[b]}
      BY <1>1, <2>2 DEF Seeded
    <3>2. QED
      BY <2>1, <3>1
  <2>3. QED
    BY <2>2
<1>6. submitted \subseteq Bindings \X Cookies
  BY <1>1, <1>2 DEF Seeded
<1>7. QED
  BY <1>3, <1>4, <1>5, <1>6 DEF Init, TypeOK

LEMMA TypeNext == TypeOK /\ [Next]_vars => TypeOK'
<1> SUFFICES ASSUME TypeOK, [Next]_vars PROVE TypeOK'
  OBVIOUS
<1> USE DEF TypeOK
<1>1. ASSUME NEW r \in Requests, NEW b \in Bindings, NEW cookie \in Cookies,
             NEW device \in Devices, NEW found \in Discoveries,
             Bind(r, b, cookie, device, found)
      PROVE  TypeOK'
  <2> DEFINE call == [id |-> r, op |-> "bind", step |-> "prepared",
                      binding |-> b, cookie |-> cookie, device |-> device,
                      found |-> found, creds |-> {}, rows |-> {}]
  <2>1. call \in Calls
    BY DEF Calls, BindCall
  <2>2. Start(call) /\ submitted' = submitted \cup {<<b, cookie>>}
    BY <1>1 DEF Bind
  <2>3. QED
    BY <2>1, <2>2, StartTypes DEF tables
<1>2. ASSUME NEW r \in Requests, NEW row \in credentials,
             NEW cookie \in Cookies, NEW device \in Devices,
             NEW found \in Discoveries, Update(r, row, cookie, device, found)
      PROVE  TypeOK'
  <2> DEFINE call == [id |-> r, op |-> "update", step |-> "prepared",
                      binding |-> row.key.binding, cookie |-> cookie,
                      device |-> device, found |-> found, creds |-> {},
                      rows |-> {}]
  <2>0. row.key.binding \in Bindings
    BY DEF CredentialRow, Keys
  <2>1. call \in Calls
    BY <2>0 DEF Calls, BindCall
  <2>2. /\ Start(call)
        /\ submitted' = submitted \cup {<<row.key.binding, cookie>>}
    BY <1>2 DEF Update
  <2>3. QED
    BY <2>0, <2>1, <2>2, StartTypes DEF tables
<1>3. ASSUME NEW r \in Requests, NEW row \in credentials,
             NEW op \in {"validate", "refresh"}, Revalidate(r, op, row)
      PROVE  TypeOK'
  <2> DEFINE call == [id |-> r, op |-> op, binding |-> row.binding,
                      row |-> row]
  <2>1. call \in Calls
    BY DEF Calls, RevalidateCall, CredentialRow
  <2>2. Start(call) /\ UNCHANGED submitted
    BY <1>3 DEF Revalidate
  <2>3. QED
    BY <2>1, <2>2, StartTypes DEF tables
<1>4. ASSUME NEW r \in Requests, NEW row \in credentials, Delete(r, row)
      PROVE  TypeOK'
  <2> DEFINE call == [id |-> r, op |-> "delete", binding |-> row.binding,
                      key |-> row.key]
  <2>1. call \in Calls
    BY DEF Calls, DeleteCall, CredentialRow
  <2>2. Start(call) /\ UNCHANGED submitted
    BY <1>4 DEF Delete
  <2>3. QED
    BY <2>1, <2>2, StartTypes DEF tables
<1>5. ASSUME NEW r \in Requests, NEW row \in credentials,
             NEW device \in Devices, UpsertDevice(r, row, device)
      PROVE  TypeOK'
  <2> DEFINE call == [id |-> r, op |-> "device", binding |-> row.binding,
                      key |-> row.key, device |-> device]
  <2>1. call \in Calls
    BY DEF Calls, DeviceCall, CredentialRow
  <2>2. Start(call) /\ UNCHANGED submitted
    BY <1>5 DEF UpsertDevice
  <2>3. QED
    BY <2>1, <2>2, StartTypes DEF tables
<1>6. ASSUME NEW r \in Requests, NEW row \in profiles, Confirm(r, row)
      PROVE  TypeOK'
  <2> DEFINE call == [id |-> r, op |-> "confirm", binding |-> row.binding,
                      key |-> row.key, player |-> PlayerOf[row.ident]]
  <2>1. call \in Calls
    BY LifecycleAssumption DEF Calls, ConfirmCall, ProfileRow
  <2>2. Start(call) /\ UNCHANGED submitted
    BY <1>6 DEF Confirm
  <2>3. QED
    BY <2>1, <2>2, StartTypes DEF tables
<1>7. ASSUME NEW call \in inflight, TxnOpen(call)
      PROVE  TypeOK'
  <2> DEFINE opened == [call EXCEPT
                  !.step = "open",
                  !.creds = {c \in credentials : c.binding = call.binding},
                  !.rows = {p \in profiles : p.binding = call.binding}]
  <2>1. call \in BindCall
    BY <1>7, CallKinds DEF TxnOpen
  <2>2. opened \in Calls /\ opened.id = call.id
    BY <2>1 DEF Calls, BindCall
  <2>3. inflight' = (inflight \ {call}) \cup {opened}
    BY <1>7 DEF TxnOpen
  <2>4. QED
    BY <1>7, <2>2, <2>3 DEF TxnOpen, tables, history
<1>8. ASSUME NEW call \in inflight, TxnCommit(call)
      PROVE  TypeOK'
  <2>1. call \in BindCall
    BY <1>8, CallKinds DEF TxnCommit
  <2>2. credentials' \subseteq CredentialRow
    BY <1>8, <2>1, BoundTypes, SaveTypes DEF TxnCommit, CredentialsAfter
  <2>3. devices' \subseteq DeviceRow
    BY <1>8, <2>1, BoundTypes, SaveTypes DEF TxnCommit, DevicesAfter
  <2>4. profiles' \subseteq ProfileRow
    BY <1>8, <2>1, ProfilesTypes DEF TxnCommit
  <2>5. QED
    BY <1>8, <2>2, <2>3, <2>4, FinishTypes DEF TxnCommit
<1>9. ASSUME NEW call \in inflight, NEW status \in Statuses,
             RevalidateSave(call, status)
      PROVE  TypeOK'
  <2>1. call \in RevalidateCall
    BY <1>9, CallKinds DEF RevalidateSave
  <2>2. RevalidatedRow(call, status) \in CredentialRow
    BY <2>1 DEF RevalidatedRow, RevalidateCall, CredentialRow
  <2>3. credentials' \subseteq CredentialRow
    BY <1>9, <2>2, SaveTypes DEF RevalidateSave
  <2>4. revalidated' \subseteq Bindings \X Cookies
    BY <1>9, <2>1 DEF RevalidateSave, RevalidateCall, CredentialRow
  <2>5. QED
    BY <1>9, <2>3, <2>4, FinishTypes DEF RevalidateSave
<1>10. ASSUME NEW call \in inflight, DeleteWipe(call)
       PROVE  TypeOK'
  BY <1>10, FinishTypes DEF DeleteWipe
<1>11. ASSUME NEW call \in inflight, DeviceSave(call)
       PROVE  TypeOK'
  <2>1. call \in DeviceCall
    BY <1>11, CallKinds DEF DeviceSave
  <2>2. [binding |-> call.binding, device |-> call.device,
         key |-> call.key] \in DeviceRow
    BY <2>1 DEF DeviceCall, DeviceRow
  <2>3. devices' \subseteq DeviceRow
    BY <1>11, <2>2, SaveTypes DEF DeviceSave
  <2>4. QED
    BY <1>11, <2>3, FinishTypes DEF DeviceSave
<1>12. ASSUME NEW call \in inflight, ConfirmSet(call)
       PROVE  TypeOK'
  <2>1. \A p \in ProfileRow :
           [p EXCEPT !.default = Chosen(call, p)] \in ProfileRow
    <3>1. \A p : Chosen(call, p) \in BOOLEAN
      BY DEF Chosen
    <3>2. QED
      BY <3>1 DEF ProfileRow
  <2>2. profiles' \subseteq ProfileRow
    BY <1>12, <2>1 DEF ConfirmSet, SetDefault
  <2>3. QED
    BY <1>12, <2>2, FinishTypes DEF ConfirmSet
<1>13. ASSUME NEW call \in inflight, Fail(call)
       PROVE  TypeOK'
  BY <1>13 DEF Fail, tables, history
<1>14. CASE UNCHANGED vars
  BY <1>14 DEF vars
<1>15. QED
  BY <1>1, <1>2, <1>3, <1>4, <1>5, <1>6, <1>7, <1>8, <1>9, <1>10, <1>11,
     <1>12, <1>13, <1>14 DEF Next, Begin, Continue

\* Every variable keeps its type: the rows are rows of the schema, and each
\* running RPC holds what its handler has read.
THEOREM TypeCorrect == Spec => []TypeOK
  BY TypeInit, TypeNext, PTL DEF Spec

-----------------------------------------------------------------------------
(* The inductive invariant.                                                *)

Sound ==
    /\ \A c \in credentials : CredentialSound(c)
    /\ \A row \in devices \cup profiles : InScope(row.key, row.binding)
    /\ CallsAgree

IInv == TypeOK /\ Sound

\* What a call or a row owes to the history stays true: history only grows.
LEMMA SoundStays ==
    ASSUME submitted \subseteq submitted', revalidated \subseteq revalidated'
    PROVE  /\ \A c : CredentialSound(c) => CredentialSound(c)'
           /\ \A call : CallSound(call) => CallSound(call)'
<1>1. \A c : CredentialSound(c) => CredentialSound(c)'
  BY DEF CredentialSound, InScope
<1>2. \A call : CallSound(call) => CallSound(call)'
  BY <1>1 DEF CallSound, InScope
<1>3. QED
  BY <1>1, <1>2

\* Beginning a call with sound reads keeps everything sound.
LEMMA StartSound ==
    ASSUME IInv, NEW call, Start(call), CallSound(call)',
           submitted \subseteq submitted'
    PROVE  Sound'
<1>1. UNCHANGED <<credentials, devices, profiles, revalidated, applied>>
  BY DEF Start, tables
<1>2. \A c \in credentials' : CredentialSound(c)'
  BY <1>1, SoundStays DEF IInv, Sound
<1>3. \A row \in (devices \cup profiles)' : InScope(row.key, row.binding)
  BY <1>1 DEF IInv, Sound
<1>4. \A c \in inflight' : CallSound(c)' /\ c.id \notin applied'
  <2>1. ASSUME NEW c \in inflight PROVE CallSound(c)' /\ c.id \notin applied
    BY <1>1, SoundStays DEF IInv, Sound, CallsAgree
  <2>2. call.id \notin applied
    BY DEF IInv, TypeOK, Start
  <2>3. QED
    BY <1>1, <2>1, <2>2 DEF Start
<1>5. \A c, d \in inflight' : c.id = d.id => c = d
  BY DEF IInv, TypeOK, Sound, CallsAgree, Start
<1>6. QED
  BY <1>2, <1>3, <1>4, <1>5 DEF Sound, CallsAgree, InScope

\* Ending a call whose writes are sound keeps everything sound.
LEMMA FinishSound ==
    ASSUME IInv, NEW call \in inflight, Finish(call),
           revalidated \subseteq revalidated',
           \A c \in credentials' : CredentialSound(c)',
           \A row \in (devices \cup profiles)' : InScope(row.key, row.binding)
    PROVE  Sound'
<1>1. submitted' = submitted /\ inflight' \subseteq inflight
  BY DEF Finish
<1>2. ASSUME NEW c \in inflight' PROVE CallSound(c)' /\ c.id \notin applied'
  <2>1. c \in inflight /\ c # call
    BY <1>2 DEF Finish
  <2>2. CallSound(c) /\ c.id \notin applied /\ c.id # call.id
    BY <2>1 DEF IInv, Sound, CallsAgree
  <2>3. CallSound(c)'
    BY <1>1, <2>2, SoundStays
  <2>4. QED
    BY <2>2, <2>3 DEF Finish
<1>3. \A c, d \in inflight' : c.id = d.id => c = d
  BY <1>1 DEF IInv, Sound, CallsAgree
<1>4. QED
  BY <1>2, <1>3 DEF Sound, CallsAgree, InScope

\* A whole-row save of a sound row.
LEMMA SaveSound ==
    ASSUME IInv, NEW row, CredentialSound(row)',
           submitted \subseteq submitted', revalidated \subseteq revalidated'
    PROVE  \A c \in SaveCredential(row) : CredentialSound(c)'
  BY SoundStays DEF IInv, Sound, SaveCredential

\* The profiles a bind leaves are of their own binding.
LEMMA ProfilesSound ==
    ASSUME IInv, NEW call \in inflight, call \in BindCall
    PROVE  \A p \in ProfilesAfter(call) : InScope(p.key, p.binding)
<1> DEFINE Good(p) == InScope(p.key, p.binding)
<1>0. CallKey(call) \in Keys /\ CallKey(call).binding = call.binding
  BY BoundTypes
<1>1. \A p \in Kept(call) : p \in ProfileRow /\ Good(p)
  BY DEF Kept, IInv, TypeOK, Sound
<1>2. \A ident, d : Good(NewProfile(call, ident, d))
  BY <1>0 DEF NewProfile, InScope
<1>3. \A p \in ProfileRow, d \in BOOLEAN : p.binding = call.binding =>
          Good([p EXCEPT !.key = CallKey(call), !.default = d])
  BY <1>0 DEF ProfileRow, InScope
<1>4. \A p \in call.rows : p.binding = call.binding
  BY DEF IInv, Sound, CallsAgree, CallSound, BindCall
<1>5. ASSUME call.found # <<>>
      PROVE  \A p \in SaveDefault(call, Kept(call)) : Good(p)
  <2>1. \A p, q : q \in Visible(call) /\ SameRow(p, q)
                     => p.binding = call.binding
    BY <1>4 DEF Visible, SameRow
  <2> DEFINE seen == {p \in Visible(call) : p.ident = call.found[1]}
             hit(p) == \E q \in seen : SameRow(p, q)
  <2>2. CASE seen = {}
    BY <1>1, <1>2, <2>2 DEF SaveDefault
  <2>3. CASE seen # {}
    <3>1. \A p : hit(p) => p.binding = call.binding
      BY <2>1
    <3>2. SaveDefault(call, Kept(call)) =
            {IF hit(p) THEN [p EXCEPT !.key = CallKey(call), !.default = TRUE]
                       ELSE p : p \in Kept(call)}
      BY <2>3 DEF SaveDefault
    <3> HIDE DEF hit, Good
    <3>3. QED
      BY <1>1, <1>3, <3>1, <3>2
  <2>4. QED
    BY <2>2, <2>3
<1>6. ASSUME call.found # <<>>
      PROVE  SaveDefault(call, Kept(call)) \subseteq ProfileRow
  BY <1>1, <1>6, DefaultTypes
<1>7. ASSUME NEW rows, rows \subseteq ProfileRow, \A p \in rows : Good(p)
      PROVE  \A p \in SaveOthers(call, rows) : Good(p)
  <2> DEFINE others == {call.found[i] : i \in 2..Len(call.found)}
             hit(p) == p.binding = call.binding /\ p.ident \in others
  <2>1. SaveOthers(call, rows) =
          {IF hit(p) THEN [p EXCEPT !.key = CallKey(call), !.default = FALSE]
                     ELSE p : p \in rows}
          \cup {NewProfile(call, ident, FALSE) : ident \in
                  {i \in others : ~ \E p \in rows : hit(p) /\ p.ident = i}}
    BY DEF SaveOthers
  <2>2. \A p : hit(p) => p.binding = call.binding
    OBVIOUS
  <2> HIDE DEF hit, Good
  <2>3. QED
    BY <1>2, <1>3, <1>7, <2>1, <2>2
<1>8. \A p \in SaveProfiles(call, Kept(call)) : Good(p)
  <2>1. CASE call.found = <<>>
    BY <1>1, <2>1 DEF SaveProfiles
  <2>2. CASE call.found # <<>>
    BY <1>5, <1>6, <1>7, <2>2 DEF SaveProfiles
  <2>3. QED
    BY <2>1, <2>2
<1>9. QED
  BY <1>8 DEF ProfilesAfter, Prune, DeleteMissing

LEMMA SoundInit == Init => Sound
<1> SUFFICES ASSUME Init PROVE Sound
  OBVIOUS
<1>0. PICK bound \in SUBSET Bindings :
       \E kind \in [bound -> Kinds], cookie \in [bound -> Cookies],
          device \in [bound -> Devices], found \in [bound -> Discoveries] :
            Seeded(bound, kind, cookie, device, found)
  BY DEF Init
<1>1. PICK kind \in [bound -> Kinds], cookie \in [bound -> Cookies],
           device \in [bound -> Devices], found \in [bound -> Discoveries] :
              Seeded(bound, kind, cookie, device, found)
  BY <1>0
<1>2. \A b \in bound :
         CredentialSound(SeedCredential(kind[b], b, cookie[b]))
  BY <1>1 DEF Seeded, CredentialSound, SeedCredential, SeedKey, InScope
<1>3. \A row \in devices : InScope(row.key, row.binding)
  BY <1>1 DEF Seeded, SeedDevice, SeedKey, InScope
<1>4. ASSUME NEW p \in profiles PROVE InScope(p.key, p.binding)
  <2>1. PICK b \in bound : p \in {SeedProfile(kind[b], b, cookie[b],
               found[b][i], i = 1) : i \in DOMAIN found[b]}
    BY <1>1, <1>4 DEF Seeded
  <2>2. QED
    BY <2>1 DEF SeedProfile, SeedKey, InScope
<1>5. \A c \in credentials : CredentialSound(c)
  BY <1>1, <1>2 DEF Seeded
<1>6. CallsAgree
  BY DEF Init, CallsAgree
<1>7. QED
  BY <1>3, <1>4, <1>5, <1>6 DEF Sound

LEMMA SoundNext == IInv /\ [Next]_vars => Sound'
<1> SUFFICES ASSUME IInv, [Next]_vars PROVE Sound'
  OBVIOUS
<1>1. ASSUME NEW r \in Requests, NEW b \in Bindings, NEW cookie \in Cookies,
             NEW device \in Devices, NEW found \in Discoveries,
             Bind(r, b, cookie, device, found)
      PROVE  Sound'
  <2> DEFINE call == [id |-> r, op |-> "bind", step |-> "prepared",
                      binding |-> b, cookie |-> cookie, device |-> device,
                      found |-> found, creds |-> {}, rows |-> {}]
  <2>1. Start(call) /\ submitted' = submitted \cup {<<b, cookie>>}
    BY <1>1 DEF Bind
  <2>2. CallSound(call)'
    BY <2>1 DEF CallSound
  <2>3. QED
    BY <2>1, <2>2, StartSound
<1>2. ASSUME NEW r \in Requests, NEW row \in credentials,
             NEW cookie \in Cookies, NEW device \in Devices,
             NEW found \in Discoveries, Update(r, row, cookie, device, found)
      PROVE  Sound'
  <2> DEFINE call == [id |-> r, op |-> "update", step |-> "prepared",
                      binding |-> row.key.binding, cookie |-> cookie,
                      device |-> device, found |-> found, creds |-> {},
                      rows |-> {}]
  <2>1. /\ Start(call)
        /\ submitted' = submitted \cup {<<row.key.binding, cookie>>}
    BY <1>2 DEF Update
  <2>2. CallSound(call)'
    BY <2>1 DEF CallSound
  <2>3. QED
    BY <2>1, <2>2, StartSound
<1>3. ASSUME NEW r \in Requests, NEW row \in credentials,
             NEW op \in {"validate", "refresh"}, Revalidate(r, op, row)
      PROVE  Sound'
  <2> DEFINE call == [id |-> r, op |-> op, binding |-> row.binding,
                      row |-> row]
  <2>1. Start(call) /\ submitted' = submitted /\ revalidated' = revalidated
    BY <1>3 DEF Revalidate, Start
  <2>2. CredentialSound(row)'
    BY <2>1, SoundStays DEF IInv, Sound
  <2>3. CallSound(call)'
    BY <2>2 DEF CallSound
  <2>4. QED
    BY <2>1, <2>3, StartSound
<1>4. ASSUME NEW r \in Requests, NEW row \in credentials, Delete(r, row)
      PROVE  Sound'
  <2> DEFINE call == [id |-> r, op |-> "delete", binding |-> row.binding,
                      key |-> row.key]
  <2>1. Start(call) /\ submitted' = submitted /\ InScope(row.key, row.binding)
    BY <1>4 DEF Delete
  <2>2. CallSound(call)'
    BY <2>1 DEF CallSound, InScope
  <2>3. QED
    BY <2>1, <2>2, StartSound
<1>5. ASSUME NEW r \in Requests, NEW row \in credentials,
             NEW device \in Devices, UpsertDevice(r, row, device)
      PROVE  Sound'
  <2> DEFINE call == [id |-> r, op |-> "device", binding |-> row.binding,
                      key |-> row.key, device |-> device]
  <2>1. Start(call) /\ submitted' = submitted
    BY <1>5 DEF UpsertDevice
  <2>2. InScope(row.key, row.binding)
    BY DEF IInv, Sound, CredentialSound
  <2>3. CallSound(call)'
    BY <2>2 DEF CallSound, InScope
  <2>4. QED
    BY <2>1, <2>3, StartSound
<1>6. ASSUME NEW r \in Requests, NEW row \in profiles, Confirm(r, row)
      PROVE  Sound'
  <2> DEFINE call == [id |-> r, op |-> "confirm", binding |-> row.binding,
                      key |-> row.key, player |-> PlayerOf[row.ident]]
  <2>1. Start(call) /\ submitted' = submitted /\ InScope(row.key, row.binding)
    BY <1>6 DEF Confirm
  <2>2. CallSound(call)'
    BY <2>1 DEF CallSound, InScope
  <2>3. QED
    BY <2>1, <2>2, StartSound
<1>7. ASSUME NEW call \in inflight, TxnOpen(call)
      PROVE  Sound'
  <2> DEFINE opened == [call EXCEPT
                  !.step = "open",
                  !.creds = {c \in credentials : c.binding = call.binding},
                  !.rows = {p \in profiles : p.binding = call.binding}]
  <2>1. call \in BindCall
    BY <1>7, CallKinds DEF TxnOpen, IInv, TypeOK
  <2>2. /\ opened.id = call.id /\ opened.op = call.op
        /\ opened.binding = call.binding /\ opened.cookie = call.cookie
        /\ opened.creds = {c \in credentials : c.binding = call.binding}
        /\ opened.rows = {p \in profiles : p.binding = call.binding}
    BY <2>1 DEF BindCall
  <2>3. UNCHANGED <<credentials, devices, profiles, used, applied, submitted,
                    revalidated>>
    BY <1>7 DEF TxnOpen, tables, history
  <2>4. inflight' = (inflight \ {call}) \cup {opened}
    BY <1>7 DEF TxnOpen
  <2> HIDE DEF opened
  <2>5. CallSound(call) /\ call.id \notin applied
    BY DEF IInv, Sound, CallsAgree
  <2>6. opened.op \in {"bind", "update"}
    BY <2>1, <2>2 DEF BindCall
  <2>7. CallSound(opened)
    <3>1. \A c \in opened.creds : InScope(c.key, opened.binding)
      BY <2>2 DEF IInv, Sound, CredentialSound, InScope
    <3>2. \A p \in opened.rows : p.binding = opened.binding
      BY <2>2
    <3>3. <<opened.binding, opened.cookie>> \in submitted
      BY <2>2, <2>5, <2>6 DEF CallSound
    <3>4. QED
      BY <2>6, <3>1, <3>2, <3>3 DEF CallSound
  <2>8. CallsAgree'
    <3>1. \A c \in inflight' : CallSound(c)'
      BY <2>3, <2>4, <2>7, SoundStays DEF IInv, Sound, CallsAgree
    <3>2. \A c \in inflight' : c.id \notin applied'
      BY <2>2, <2>3, <2>4, <2>5 DEF IInv, Sound, CallsAgree
    <3>3. \A c, d \in inflight' : c.id = d.id => c = d
      BY <2>2, <2>4 DEF IInv, Sound, CallsAgree
    <3>4. QED
      BY <3>1, <3>2, <3>3 DEF CallsAgree
  <2>9. \A c \in credentials' : CredentialSound(c)'
    BY <2>3, SoundStays DEF IInv, Sound
  <2>10. QED
    BY <2>3, <2>8, <2>9 DEF IInv, Sound, InScope
<1>8. ASSUME NEW call \in inflight, TxnCommit(call)
      PROVE  Sound'
  <2>1. call \in BindCall /\ call.op \in {"bind", "update"}
    BY <1>8, CallKinds DEF TxnCommit, IInv, TypeOK
  <2>2. Finish(call) /\ submitted' = submitted /\ revalidated' = revalidated
    BY <1>8 DEF TxnCommit, Finish
  <2>3. CredentialSound(BoundRow(call))'
    <3>1. <<call.binding, call.cookie>> \in submitted
      BY <2>1 DEF IInv, Sound, CallsAgree, CallSound
    <3>2. CredentialSound(BoundRow(call))
      BY <3>1 DEF CredentialSound, BoundRow, CallKey, BoundKey, InScope
    <3>3. QED
      BY <2>2, <3>2, SoundStays
  <2>4. \A c \in credentials' : CredentialSound(c)'
    BY <1>8, <2>2, <2>3, SaveSound DEF TxnCommit, CredentialsAfter
  <2>5. \A d \in devices' : InScope(d.key, d.binding)
    BY <1>8, <2>1, BoundTypes
       DEF TxnCommit, DevicesAfter, SaveDevice, BoundDevice, IInv, Sound,
           InScope
  <2>6. \A p \in profiles' : InScope(p.key, p.binding)
    BY <1>8, <2>1, ProfilesSound DEF TxnCommit
  <2>7. QED
    BY <2>2, <2>4, <2>5, <2>6, FinishSound
<1>9. ASSUME NEW call \in inflight, NEW status \in Statuses,
             RevalidateSave(call, status)
      PROVE  Sound'
  <2>1. /\ call \in RevalidateCall /\ CredentialSound(call.row)
        /\ call.row.binding = call.binding
    BY <1>9, CallKinds
       DEF RevalidateSave, IInv, TypeOK, Sound, CallsAgree, CallSound
  <2>2. /\ Finish(call) /\ submitted' = submitted
        /\ UNCHANGED <<devices, profiles>>
        /\ revalidated \subseteq revalidated'
        /\ call.op = "refresh" /\ status = "active" =>
              <<call.row.binding, call.row.cookie>> \in revalidated'
    BY <1>9, <2>1 DEF RevalidateSave, Finish
  <2>3. CredentialSound(RevalidatedRow(call, status))'
    <3>1. CredentialSound(call.row)'
      BY <2>1, <2>2, SoundStays
    <3>2. call.row \in CredentialRow
      BY <2>1 DEF RevalidateCall
    <3>3. QED
      BY <2>1, <2>2, <3>1, <3>2
         DEF CredentialSound, RevalidatedRow, CredentialRow, InScope
  <2>4. \A c \in credentials' : CredentialSound(c)'
    BY <1>9, <2>2, <2>3, SaveSound DEF RevalidateSave
  <2>5. QED
    BY <2>2, <2>4, FinishSound DEF IInv, Sound
<1>10. ASSUME NEW call \in inflight, DeleteWipe(call)
       PROVE  Sound'
  <2>1. Finish(call) /\ submitted' = submitted /\ revalidated' = revalidated
    BY <1>10 DEF DeleteWipe, Finish
  <2>2. \A c \in credentials' : CredentialSound(c)'
    BY <1>10, <2>1, SoundStays DEF DeleteWipe, IInv, Sound
  <2>3. \A row \in (devices \cup profiles)' : InScope(row.key, row.binding)
    BY <1>10 DEF DeleteWipe, IInv, Sound
  <2>4. QED
    BY <2>1, <2>2, <2>3, FinishSound
<1>11. ASSUME NEW call \in inflight, DeviceSave(call)
       PROVE  Sound'
  <2>1. /\ Finish(call) /\ submitted' = submitted
        /\ UNCHANGED <<credentials, profiles, revalidated>>
    BY <1>11 DEF DeviceSave, Finish
  <2>2. InScope(call.key, call.binding)
    BY <1>11 DEF DeviceSave, IInv, Sound, CallsAgree, CallSound
  <2>3. \A c \in credentials' : CredentialSound(c)'
    BY <2>1, SoundStays DEF IInv, Sound
  <2>4. \A row \in (devices \cup profiles)' : InScope(row.key, row.binding)
    BY <1>11, <2>1, <2>2 DEF DeviceSave, SaveDevice, IInv, Sound, InScope
  <2>5. QED
    BY <2>1, <2>3, <2>4, FinishSound
<1>12. ASSUME NEW call \in inflight, ConfirmSet(call)
       PROVE  Sound'
  <2>1. /\ Finish(call) /\ submitted' = submitted
        /\ UNCHANGED <<credentials, devices, revalidated>>
    BY <1>12 DEF ConfirmSet, Finish
  <2>2. \A c \in credentials' : CredentialSound(c)'
    BY <2>1, SoundStays DEF IInv, Sound
  <2>3. \A p \in ProfileRow : \A d :
           /\ [p EXCEPT !.default = d].key = p.key
           /\ [p EXCEPT !.default = d].binding = p.binding
    BY DEF ProfileRow
  <2>4. ASSUME NEW q \in profiles' PROVE InScope(q.key, q.binding)
    <3>1. PICK p \in profiles :
             q = IF p.binding = call.binding
                 THEN [p EXCEPT !.default = Chosen(call, p)] ELSE p
      BY <1>12, <2>4 DEF ConfirmSet, SetDefault
    <3>2. q.key = p.key /\ q.binding = p.binding
      BY <2>3, <3>1 DEF IInv, TypeOK
    <3>3. QED
      BY <3>2 DEF IInv, Sound, InScope
  <2>5. QED
    BY <2>1, <2>2, <2>4, FinishSound DEF IInv, Sound
<1>13. ASSUME NEW call \in inflight, Fail(call)
       PROVE  Sound'
  <2>1. UNCHANGED <<credentials, devices, profiles, used, applied, submitted,
                    revalidated>>
    BY <1>13 DEF Fail, tables, history
  <2>2. inflight' \subseteq inflight
    BY <1>13 DEF Fail
  <2>3. QED
    BY <2>1, <2>2, SoundStays DEF IInv, Sound, CallsAgree, InScope
<1>14. CASE UNCHANGED vars
  <2>1. UNCHANGED <<credentials, devices, profiles, inflight, used, applied,
                    submitted, revalidated>>
    BY <1>14 DEF vars
  <2>2. QED
    BY <2>1, SoundStays DEF IInv, Sound, CallsAgree, InScope
<1>15. QED
  BY <1>1, <1>2, <1>3, <1>4, <1>5, <1>6, <1>7, <1>8, <1>9, <1>10, <1>11,
     <1>12, <1>13, <1>14 DEF Next, Begin, Continue

THEOREM InvariantHolds == Spec => []IInv
<1>1. Init => IInv
  BY TypeInit, SoundInit DEF IInv
<1>2. IInv /\ [Next]_vars => IInv'
  BY TypeNext, SoundNext DEF IInv
<1>3. QED
  BY <1>1, <1>2, PTL DEF Spec

-----------------------------------------------------------------------------
(* What follows from the invariant.                                        *)

\* After any interleaving of overlapping RPCs, and although an upsert may
\* hand a credential row to another binding, every row's platform account id
\* names the binding the row belongs to: what ScopeGuard checks on the id
\* holds of the row.
THEOREM KeysAlwaysAgree == Spec => []KeysAgree
<1>1. IInv => KeysAgree
  BY DEF IInv, Sound, KeysAgree, CredentialSound
<1>2. QED
  BY <1>1, InvariantHolds, PTL

\* A whole-row save of an old read never stores the blob of one account
\* under the id or the key of another.
THEOREM CredentialsCoherent == Spec => []CredentialCoherent
<1>1. IInv => CredentialCoherent
  BY DEF IInv, Sound, CredentialCoherent, CredentialSound
<1>2. QED
  BY <1>1, InvariantHolds, PTL

\* However revalidations, binds and deletes race, a binding holds no
\* credential material but what was submitted for it.
THEOREM MaterialSubmitted == Spec => []MaterialIsTheBindings
<1>1. IInv => MaterialIsTheBindings
  BY DEF IInv, Sound, MaterialIsTheBindings, CredentialSound
<1>2. QED
  BY <1>1, InvariantHolds, PTL

\* A refresh that lands on newer material writes its own blob with its own
\* timestamp: last_refreshed_at never vouches for a blob no refresh checked.
THEOREM RefreshedRevalidated == Spec => []RefreshedMeansRevalidated
<1>1. IInv => RefreshedMeansRevalidated
  BY DEF IInv, Sound, RefreshedMeansRevalidated, CredentialSound
<1>2. QED
  BY <1>1, InvariantHolds, PTL

\* What running RPCs still hold of old reads is of their own binding.
THEOREM CallsAlwaysAgree == Spec => []CallsAgree
<1>1. IInv => CallsAgree
  BY DEF IInv, Sound
<1>2. QED
  BY <1>1, InvariantHolds, PTL

-----------------------------------------------------------------------------
(* What a step may never do.                                               *)

\* A call that writes is among those that end: no other call bears its id
\* and it has not written before.
LEMMA FinishEnds ==
    ASSUME IInv, NEW call \in inflight, Finish(call)
    PROVE  call \in Ending
  BY DEF IInv, Sound, CallsAgree, Finish, Ending

\* Only calls that end change a table.
LEMMA TablesChangeByEnding ==
    ASSUME IInv, [Next]_vars
    PROVE  \/ UNCHANGED tables
           \/ \E call \in inflight :
                 \/ TxnCommit(call)
                 \/ \E status \in Statuses : RevalidateSave(call, status)
                 \/ DeleteWipe(call)
                 \/ DeviceSave(call)
                 \/ ConfirmSet(call)
<1>1. Begin => UNCHANGED tables
  BY DEF Begin, Bind, Update, Revalidate, Delete, UpsertDevice, Confirm, Start
<1>2. Continue => \/ UNCHANGED tables
                  \/ \E call \in inflight :
                        \/ TxnCommit(call)
                        \/ \E status \in Statuses : RevalidateSave(call, status)
                        \/ DeleteWipe(call)
                        \/ DeviceSave(call)
                        \/ ConfirmSet(call)
  BY DEF Continue, TxnOpen, Fail
<1>3. UNCHANGED vars => UNCHANGED tables
  BY DEF vars, tables
<1>4. QED
  BY <1>1, <1>2, <1>3 DEF Next

LEMMA KeptStep == IInv /\ [Next]_vars => KeptFromOthers
<1> SUFFICES ASSUME IInv, [Next]_vars,
                    NEW c \in credentials, c \notin credentials'
             PROVE  \E call \in Ending :
                       \/ call.binding = c.binding
                       \/ c.account \in AccountStored(call)
  BY DEF KeptFromOthers
<1>0. CredentialSound(c)
  BY DEF IInv, Sound
<1>1. ASSUME NEW row, c \notin SaveCredential(row), CredentialSound(row)
      PROVE  c.binding = row.binding \/ c.account = row.account
  BY <1>0, <1>1 DEF SaveCredential, Colliding, CredentialSound
<1>2. ASSUME NEW call \in inflight, TxnCommit(call)
      PROVE  /\ call \in Ending
             /\ call.binding = c.binding \/ c.account \in AccountStored(call)
  <2>1. /\ call \in Ending /\ call.op \in {"bind", "update"}
        /\ CallSound(call) /\ c \notin CredentialsAfter(call)
    BY <1>2, FinishEnds DEF TxnCommit, IInv, Sound, CallsAgree
  <2>2. CASE c.key \in Replaced(call)
    <3>1. c.key.binding = call.binding
      BY <2>1, <2>2 DEF Replaced, CallSound, InScope
    <3>2. QED
      BY <1>0, <2>1, <3>1 DEF CredentialSound, InScope
  <2>3. CASE c.key \notin Replaced(call)
    <3>1. c \notin SaveCredential(BoundRow(call))
      BY <2>1, <2>3 DEF CredentialsAfter
    <3>2. \/ c.binding = BoundRow(call).binding
          \/ c.account = BoundRow(call).account
          \/ c.key = BoundRow(call).key
      BY <3>1 DEF SaveCredential, Colliding
    <3>3. QED
      BY <1>0, <2>1, <3>2
         DEF BoundRow, CallKey, BoundKey, AccountStored, CredentialSound
  <2>4. QED
    BY <2>2, <2>3, <2>1
<1>3. ASSUME NEW call \in inflight, NEW status \in Statuses,
             RevalidateSave(call, status)
      PROVE  /\ call \in Ending
             /\ call.binding = c.binding \/ c.account \in AccountStored(call)
  <2>1. /\ call \in Ending /\ call \in RevalidateCall
        /\ call.row.binding = call.binding /\ CredentialSound(call.row)
        /\ c \notin SaveCredential(RevalidatedRow(call, status))
    BY <1>3, FinishEnds, CallKinds
       DEF RevalidateSave, IInv, TypeOK, Sound, CallsAgree, CallSound
  <2>2. /\ RevalidatedRow(call, status).binding = call.row.binding
        /\ RevalidatedRow(call, status).account = call.row.account
        /\ RevalidatedRow(call, status).key = call.row.key
    BY <2>1 DEF RevalidatedRow, RevalidateCall, CredentialRow
  <2>3. c.binding = call.binding \/ c.account = call.row.account
    BY <1>0, <2>1, <2>2 DEF SaveCredential, Colliding, CredentialSound
  <2>4. QED
    BY <2>1, <2>3 DEF AccountStored, RevalidateCall
<1>4. ASSUME NEW call \in inflight, DeleteWipe(call)
      PROVE  call \in Ending /\ call.binding = c.binding
  BY <1>4, FinishEnds DEF DeleteWipe
<1>5. ~ UNCHANGED tables
  BY DEF tables
<1>6. ASSUME NEW call \in inflight
      PROVE  ~DeviceSave(call) /\ ~ConfirmSet(call)
  BY DEF DeviceSave, ConfirmSet
<1>7. QED
  BY <1>2, <1>3, <1>4, <1>5, <1>6, TablesChangeByEnding

\* A binding loses its credential only to its own calls, or to a call that
\* stores the account it held: the credential of a binding that took an
\* account over survives the other binding's clean-up.
THEOREM CredentialsKept == Spec => CredentialsKeptFromOthers
<1>1. IInv /\ [Next]_vars => [KeptFromOthers]_vars
  BY KeptStep
<1>2. QED
  BY <1>1, InvariantHolds, PTL DEF Spec, CredentialsKeptFromOthers

\* The rows of a table that are not the binding's.
Elsewhere(rows, b) == {row \in rows : row.binding # b}

\* The profile writes of a bind, one by one, leave the rows of the other
\* bindings as they are.
LEMMA ProfilesElsewhere ==
    ASSUME IInv, NEW call \in inflight, call \in BindCall
    PROVE  Elsewhere(ProfilesAfter(call), call.binding)
             = Elsewhere(profiles, call.binding)
<1> DEFINE b == call.binding
           Same(after, before) == Elsewhere(after, b) = Elsewhere(before, b)
<1>1. Same(Kept(call), profiles) /\ Kept(call) \subseteq ProfileRow
  <2>1. \A k \in Gone(call) : k.binding = b
    <3>1. \A c \in call.creds : c.key.binding = b
      BY DEF IInv, Sound, CallsAgree, CallSound, BindCall, InScope
    <3>2. QED
      BY <3>1, BoundTypes DEF Gone, Replaced
  <2>2. \A p \in profiles : p.key \in Gone(call) => p.binding = b
    BY <2>1 DEF IInv, Sound, InScope
  <2>3. QED
    BY <2>2 DEF Elsewhere, Kept, IInv, TypeOK
<1>2. \A ident, d : NewProfile(call, ident, d).binding = b
  BY DEF NewProfile
<1>3. \A p \in ProfileRow, d \in BOOLEAN :
         [p EXCEPT !.key = CallKey(call), !.default = d].binding = p.binding
  BY DEF ProfileRow
<1>4. ASSUME call.found # <<>>
      PROVE  Same(SaveDefault(call, Kept(call)), Kept(call))
  <2> DEFINE seen == {p \in Visible(call) : p.ident = call.found[1]}
             hit(p) == \E q \in seen : SameRow(p, q)
             put(p) == IF hit(p)
                       THEN [p EXCEPT !.key = CallKey(call), !.default = TRUE]
                       ELSE p
  <2>1. \A p : hit(p) => p.binding = b
    <3>1. \A q \in call.rows : q.binding = b
      BY DEF IInv, Sound, CallsAgree, CallSound, BindCall
    <3>2. QED
      BY <3>1 DEF Visible, SameRow
  <2>2. CASE seen = {}
    BY <1>2, <2>2 DEF SaveDefault, Elsewhere
  <2>3. CASE seen # {}
    <3>1. SaveDefault(call, Kept(call)) = {put(p) : p \in Kept(call)}
      BY <2>3 DEF SaveDefault
    <3>2. \A p \in Kept(call) : put(p).binding = p.binding
      BY <1>1, <1>3
    <3>3. \A p \in Kept(call) : p.binding # b => put(p) = p
      BY <2>1
    <3> HIDE DEF put
    <3>4. QED
      BY <3>1, <3>2, <3>3 DEF Elsewhere
  <2>4. QED
    BY <2>2, <2>3
<1>5. ASSUME NEW rows, rows \subseteq ProfileRow
      PROVE  Same(SaveOthers(call, rows), rows)
  <2> DEFINE others == {call.found[i] : i \in 2..Len(call.found)}
             hit(p) == p.binding = b /\ p.ident \in others
             put(p) == IF hit(p)
                       THEN [p EXCEPT !.key = CallKey(call), !.default = FALSE]
                       ELSE p
             fresh == {NewProfile(call, ident, FALSE) : ident \in
                         {i \in others : ~ \E p \in rows : hit(p) /\ p.ident = i}}
  <2>1. SaveOthers(call, rows) = {put(p) : p \in rows} \cup fresh
    BY DEF SaveOthers
  <2>2. \A p \in rows : put(p).binding = p.binding
    BY <1>3, <1>5
  <2>3. \A p \in rows : p.binding # b => put(p) = p
    OBVIOUS
  <2>4. \A p \in fresh : p.binding = b
    BY <1>2
  <2> HIDE DEF put, fresh
  <2>5. QED
    BY <2>1, <2>2, <2>3, <2>4 DEF Elsewhere
<1>6. Same(SaveProfiles(call, Kept(call)), profiles)
  <2>1. CASE call.found = <<>>
    BY <1>1, <2>1 DEF SaveProfiles
  <2>2. CASE call.found # <<>>
    <3>1. SaveDefault(call, Kept(call)) \subseteq ProfileRow
      BY <1>1, <2>2, DefaultTypes
    <3>2. Same(SaveOthers(call, SaveDefault(call, Kept(call))),
               SaveDefault(call, Kept(call)))
      BY <1>5, <3>1
    <3>3. QED
      BY <1>1, <1>4, <2>2, <3>2 DEF SaveProfiles
  <2>3. QED
    BY <2>1, <2>2
<1>7. QED
  BY <1>6 DEF ProfilesAfter, Prune, DeleteMissing, Elsewhere

\* A device saved for a binding displaces no other binding's device.
LEMMA SaveDeviceElsewhere ==
    ASSUME NEW row
    PROVE  Elsewhere(SaveDevice(row), row.binding)
             = Elsewhere(devices, row.binding)
  BY DEF Elsewhere, SaveDevice

\* The call that ends changes rows of its own binding only.
LEMMA ElsewhereKept ==
    ASSUME IInv, NEW call \in inflight,
           \/ TxnCommit(call)
           \/ \E status \in Statuses : RevalidateSave(call, status)
           \/ DeleteWipe(call)
           \/ DeviceSave(call)
           \/ ConfirmSet(call)
    PROVE  /\ call \in Ending
           /\ Elsewhere(devices', call.binding) = Elsewhere(devices, call.binding)
           /\ Elsewhere(profiles', call.binding)
                = Elsewhere(profiles, call.binding)
<1>1. call \in Ending
  BY FinishEnds
     DEF TxnCommit, RevalidateSave, DeleteWipe, DeviceSave, ConfirmSet
<1>2. CASE TxnCommit(call)
  <2>1. call \in BindCall /\ call.op \in {"bind", "update"}
    BY <1>2, CallKinds DEF TxnCommit, IInv, TypeOK
  <2>2. \A d \in devices : d.key \in Replaced(call) => d.binding = call.binding
    <3>1. \A c \in call.creds : c.key.binding = call.binding
      BY <2>1 DEF IInv, Sound, CallsAgree, CallSound, InScope
    <3>2. \A d \in devices : d.key.binding = d.binding
      BY DEF IInv, Sound, InScope
    <3>3. QED
      BY <3>1, <3>2 DEF Replaced
  <2>3. Elsewhere(devices', call.binding) = Elsewhere(devices, call.binding)
    <3>1. BoundDevice(call).binding = call.binding
      BY DEF BoundDevice
    <3>2. Elsewhere(SaveDevice(BoundDevice(call)), call.binding)
            = Elsewhere(devices, call.binding)
      BY <3>1, SaveDeviceElsewhere
    <3>3. devices' = {d \in SaveDevice(BoundDevice(call)) :
                         d.key \notin Replaced(call)}
      BY <1>2 DEF TxnCommit, DevicesAfter
    <3>4. QED
      BY <2>2, <3>2, <3>3 DEF Elsewhere
  <2>4. Elsewhere(profiles', call.binding) = Elsewhere(profiles, call.binding)
    BY <1>2, <2>1, ProfilesElsewhere DEF TxnCommit
  <2>5. QED
    BY <1>1, <2>3, <2>4
<1>3. CASE \E status \in Statuses : RevalidateSave(call, status)
  BY <1>1, <1>3 DEF RevalidateSave
<1>4. CASE DeleteWipe(call)
  BY <1>1, <1>4 DEF DeleteWipe, Elsewhere
<1>5. CASE DeviceSave(call)
  <2> DEFINE row == [binding |-> call.binding, device |-> call.device,
                     key |-> call.key]
  <2>1. devices' = SaveDevice(row) /\ row.binding = call.binding
        /\ profiles' = profiles
    BY <1>5 DEF DeviceSave
  <2> HIDE DEF row
  <2>2. QED
    BY <1>1, <2>1, SaveDeviceElsewhere
<1>6. CASE ConfirmSet(call)
  <2> DEFINE put(p) == IF p.binding = call.binding
                       THEN [p EXCEPT !.default = Chosen(call, p)] ELSE p
  <2>1. profiles' = {put(p) : p \in profiles} /\ devices' = devices
    BY <1>6 DEF ConfirmSet, SetDefault
  <2>2. \A p \in profiles : put(p).binding = p.binding
    <3>1. \A p \in ProfileRow : \A d : [p EXCEPT !.default = d].binding = p.binding
      BY DEF ProfileRow
    <3>2. QED
      BY <3>1 DEF IInv, TypeOK
  <2>3. \A p \in profiles : p.binding # call.binding => put(p) = p
    OBVIOUS
  <2> HIDE DEF put
  <2>4. QED
    BY <1>1, <2>1, <2>2, <2>3 DEF Elsewhere
<1>7. QED
  BY <1>2, <1>3, <1>4, <1>5, <1>6

LEMMA StayStep == IInv /\ [Next]_vars => StayInBinding
<1> SUFFICES ASSUME IInv, [Next]_vars,
                    NEW row \in devices \cup devices' \cup profiles \cup profiles',
                    ~ (row \in devices \cup profiles
                         /\ row \in devices' \cup profiles')
             PROVE  \E call \in Ending : call.binding = row.binding
  BY DEF StayInBinding
<1>1. ~ UNCHANGED tables
  BY DEF tables
<1>2. PICK call \in inflight : \/ TxnCommit(call)
                               \/ \E status \in Statuses :
                                     RevalidateSave(call, status)
                               \/ DeleteWipe(call)
                               \/ DeviceSave(call)
                               \/ ConfirmSet(call)
  BY <1>1, TablesChangeByEnding
<1>3. /\ call \in Ending
      /\ Elsewhere(devices', call.binding) = Elsewhere(devices, call.binding)
      /\ Elsewhere(profiles', call.binding) = Elsewhere(profiles, call.binding)
  BY <1>2, ElsewhereKept
<1>4. row.binding = call.binding
  BY <1>3 DEF Elsewhere
<1>5. QED
  BY <1>3, <1>4

\* No step changes a device or profile row of a binding none of whose calls
\* it ends, although the deletes and updates of a bind go by platform
\* account id over the whole table, with ids read long before.
THEOREM StaysInBinding == Spec => StepsStayInBinding
<1>1. IInv /\ [Next]_vars => [StayInBinding]_vars
  BY StayStep
<1>2. QED
  BY <1>1, InvariantHolds, PTL DEF Spec, StepsStayInBinding

\* A call among those that end is the one whose writes the step makes.
LEMMA EndingWrites ==
    ASSUME IInv, [Next]_vars, NEW call \in Ending
    PROVE  \/ TxnCommit(call)
           \/ \E status \in Statuses : RevalidateSave(call, status)
           \/ DeleteWipe(call)
           \/ DeviceSave(call)
           \/ ConfirmSet(call)
<1> DEFINE Wrote(c) == \/ TxnCommit(c)
                       \/ \E status \in Statuses : RevalidateSave(c, status)
                       \/ DeleteWipe(c)
                       \/ DeviceSave(c)
                       \/ ConfirmSet(c)
<1>1. call \in inflight /\ applied' # applied
  BY DEF Ending
<1>2. Begin => applied' = applied
  BY DEF Begin, Bind, Update, Revalidate, Delete, UpsertDevice, Confirm, Start
<1>3. Continue => applied' = applied \/ \E c \in inflight : Wrote(c)
  BY DEF Continue, TxnOpen, Fail
<1>4. PICK c \in inflight : Wrote(c)
  BY <1>1, <1>2, <1>3 DEF Next, vars
<1>5. applied' = applied \cup {c.id}
  BY <1>4 DEF TxnCommit, RevalidateSave, DeleteWipe, DeviceSave, ConfirmSet,
              Finish
<1>6. call = c
  BY <1>5 DEF Ending, IInv, Sound, CallsAgree
<1>7. QED
  BY <1>4, <1>6

LEMMA CommitSetsPrimary ==
    ASSUME IInv, NEW call \in inflight, TxnCommit(call), call.found # <<>>,
           \A p \in call.rows : p.ident = call.found[1] =>
              \E q \in profiles : SameRow(p, q)
    PROVE  \E p \in profiles' :
             /\ p.ident = call.found[1] /\ p.key = CallKey(call)
             /\ {q \in profiles' : q.binding = call.binding /\ q.default} = {p}
<1> DEFINE b == call.binding
           first == call.found[1]
           others == {call.found[i] : i \in 2..Len(call.found)}
           saved == SaveDefault(call, Kept(call))
           hit(p) == p.binding = b /\ p.ident \in others
           put(p) == [p EXCEPT !.key = CallKey(call), !.default = FALSE]
           all == SaveOthers(call, saved)
           IsFirst(p) == /\ p.binding = b /\ p.ident = first
                         /\ p.key = CallKey(call) /\ p.default
<1>1. call \in BindCall /\ saved \subseteq ProfileRow
  BY CallKinds, DefaultTypes DEF TxnCommit, IInv, TypeOK, Kept
<1>2. first \notin others /\ 1 \in DOMAIN call.found
  <2>1. call.found \in Seq(Idents) /\ Injective(call.found)
    BY <1>1, LifecycleAssumption DEF BindCall
  <2>2. QED
    BY <2>1 DEF Injective
<1>3. UniqueProfiles(saved)
  BY DEF TxnCommit, DefaultAccepted
<1>4. PICK p \in saved : IsFirst(p)
  <2> DEFINE seen == {q \in Visible(call) : q.ident = first}
             mine(q) == \E r \in seen : SameRow(q, r)
             set(q) == [q EXCEPT !.key = CallKey(call), !.default = TRUE]
  <2>1. CASE seen = {}
    <3>1. NewProfile(call, first, TRUE) \in saved
      BY <2>1 DEF SaveDefault
    <3>2. IsFirst(NewProfile(call, first, TRUE))
      BY DEF NewProfile
    <3>3. QED
      BY <3>1, <3>2
  <2>2. CASE seen # {}
    <3>1. PICK r \in seen : r \in call.rows /\ r.binding = b
      BY <2>2 DEF Visible, IInv, Sound, CallsAgree, CallSound, TxnCommit
    <3>2. PICK q \in profiles : SameRow(r, q)
      BY <3>1
    <3>3. q \in Kept(call) /\ mine(q) /\ q \in ProfileRow
      BY <3>1, <3>2 DEF Visible, Kept, SameRow, IInv, TypeOK
    <3>4. set(q) \in saved
      BY <2>2, <3>3 DEF SaveDefault
    <3>5. IsFirst(set(q))
      BY <3>1, <3>2, <3>3 DEF SameRow, ProfileRow
    <3>6. QED
      BY <3>4, <3>5
  <2>3. QED
    BY <2>1, <2>2
<1>5. p \in all
  BY <1>2, <1>4 DEF SaveOthers
<1>6. profiles' \subseteq all /\ p \in profiles'
  <2>1. SaveProfiles(call, Kept(call)) = all
    BY DEF SaveProfiles
  <2>2. p.ident \in {call.found[i] : i \in DOMAIN call.found}
    BY <1>2, <1>4
  <2> HIDE DEF all
  <2>3. QED
    BY <1>5, <2>1, <2>2 DEF TxnCommit, ProfilesAfter, Prune, DeleteMissing
<1>7. ASSUME NEW q \in all, q.default PROVE q \in saved
  <2>1. \A r \in saved : put(r).default = FALSE
    BY <1>1 DEF ProfileRow
  <2>2. \A ident : NewProfile(call, ident, FALSE).default = FALSE
    BY DEF NewProfile
  <2> HIDE DEF saved
  <2>3. QED
    BY <1>7, <2>1, <2>2 DEF SaveOthers
<1>8. ASSUME NEW q \in profiles', q.binding = b, q.default PROVE q = p
  BY <1>3, <1>4, <1>6, <1>7, <1>8 DEF UniqueProfiles
<1>9. QED
  BY <1>4, <1>6, <1>8

\* A bind or an update leaves the first profile reported primary, and no
\* other, although it chooses between UPDATE and INSERT by its snapshot and
\* writes rows that others may have changed: as long as the row it saw for
\* that profile has not been replaced.
THEOREM PrimaryIsSet == Spec => BindsSetPrimary
<1>1. IInv /\ [Next]_vars => [PrimaryIsFirst]_vars
  <2> SUFFICES ASSUME IInv, [Next]_vars, NEW call \in Ending,
                      call.op \in {"bind", "update"}, call.found # <<>>,
                      \A p \in call.rows : p.ident = call.found[1] =>
                         \E q \in profiles : SameRow(p, q)
               PROVE  \E p \in profiles' :
                        /\ p.ident = call.found[1] /\ p.key = CallKey(call)
                        /\ {q \in profiles' : q.binding = call.binding
                                              /\ q.default} = {p}
    BY DEF PrimaryIsFirst
  <2>1. TxnCommit(call)
    BY EndingWrites DEF RevalidateSave, DeleteWipe, DeviceSave, ConfirmSet
  <2>2. QED
    BY <2>1, CommitSetsPrimary DEF Ending
<1>2. QED
  BY <1>1, InvariantHolds, PTL DEF Spec, BindsSetPrimary

-----------------------------------------------------------------------------
(* Which steps leave rows without their credential.                        *)

Of(rows, b) == {row \in rows : row.binding = b}

Writes(call) ==
    \/ TxnCommit(call)
    \/ \E status \in Statuses : RevalidateSave(call, status)
    \/ DeleteWipe(call)
    \/ DeviceSave(call)
    \/ ConfirmSet(call)

LEMMA WritesFinish ==
    ASSUME NEW call, Writes(call)
    PROVE  inflight' = inflight \ {call} /\ submitted' = submitted
  BY DEF Writes, TxnCommit, RevalidateSave, DeleteWipe, DeviceSave, ConfirmSet,
         Finish

LEMMA DisputeNone ==
    ASSUME IInv, NEW b, Undisputed(b), NEW c \in credentials, c.binding = b,
           NEW s \in submitted, s[1] # b
    PROVE  c.account # AccountOf[s[2]]
<1>1. <<b, c.cookie>> \in submitted /\ c.account = AccountOf[c.cookie]
  BY DEF IInv, Sound, CredentialSound
<1>2. PICK t : t = <<b, c.cookie>>
  OBVIOUS
<1>3. t \in submitted /\ t[1] = b /\ t[2] = c.cookie
  BY <1>1, <1>2
<1>4. QED
  BY <1>1, <1>3 DEF Undisputed

\* The row of a bind or a revalidation collides with no undisputed row of
\* another binding.
LEMMA CollidesNot ==
    ASSUME IInv, NEW row, CredentialSound(row),
           NEW c \in credentials, Undisputed(c.binding),
           c.binding # row.binding
    PROVE  c \notin Colliding(row)
<1>1. PICK s : s = <<row.binding, row.cookie>>
  OBVIOUS
<1>2. s \in submitted /\ s[1] = row.binding /\ s[2] = row.cookie
  BY <1>1 DEF CredentialSound
<1>3. c.account # AccountOf[row.cookie]
  BY <1>2, DisputeNone
<1>4. c.account # row.account /\ c.key # row.key
  BY <1>3 DEF CredentialSound, IInv, Sound
<1>5. QED
  BY <1>4 DEF Colliding

LEMMA BoundSound ==
    ASSUME IInv, NEW call \in inflight, call.op \in {"bind", "update"}
    PROVE  CredentialSound(BoundRow(call))
<1>1. <<call.binding, call.cookie>> \in submitted
  BY DEF IInv, Sound, CallsAgree, CallSound
<1>2. QED
  BY <1>1 DEF CredentialSound, BoundRow, CallKey, BoundKey, InScope

LEMMA RevalidatedSame ==
    ASSUME IInv, NEW call \in inflight, NEW status,
           call.op \in {"validate", "refresh"}
    PROVE  /\ call \in RevalidateCall /\ call.row \in CredentialRow
           /\ call.row.binding = call.binding
           /\ RevalidatedRow(call, status).binding = call.row.binding
           /\ RevalidatedRow(call, status).key = call.row.key
           /\ RevalidatedRow(call, status).account = call.row.account
<1>1. call \in RevalidateCall
  BY CallKinds DEF IInv, TypeOK
<1>2. call.row.binding = call.binding
  BY DEF IInv, Sound, CallsAgree, CallSound
<1>3. call.row \in CredentialRow
  BY <1>1 DEF RevalidateCall
<1>4. QED
  BY <1>1, <1>2, <1>3 DEF RevalidatedRow, CredentialRow

\* A binding's rows as the writes of another binding leave them.
LEMMA OthersKept ==
    ASSUME IInv, NEW call \in inflight, Writes(call),
           NEW b, b # call.binding
    PROVE  /\ Of(devices', b) = Of(devices, b)
           /\ Of(profiles', b) = Of(profiles, b)
           /\ Undisputed(b) => Of(credentials', b) = Of(credentials, b)
<1>1. /\ Of(devices', b) = Of(devices, b)
      /\ Of(profiles', b) = Of(profiles, b)
  <2>1. \A rows : Of(rows, b) = Of(Elsewhere(rows, call.binding), b)
    BY DEF Of, Elsewhere
  <2>2. /\ Elsewhere(devices', call.binding) = Elsewhere(devices, call.binding)
        /\ Elsewhere(profiles', call.binding) = Elsewhere(profiles, call.binding)
    BY ElsewhereKept DEF Writes
  <2>3. QED
    BY <2>1, <2>2
<1>2. ASSUME Undisputed(b) PROVE Of(credentials', b) = Of(credentials, b)
  <2>1. CASE TxnCommit(call)
    <3>1. /\ call.op \in {"bind", "update"} /\ call \in BindCall
          /\ credentials' = CredentialsAfter(call)
      BY <2>1, CallKinds DEF TxnCommit, IInv, TypeOK
    <3>2. CredentialSound(BoundRow(call))
      BY <3>1, BoundSound
    <3>3. BoundRow(call).binding = call.binding
      BY DEF BoundRow
    <3>4. \A c \in Of(credentials, b) : c \notin Colliding(BoundRow(call))
      BY <1>2, <3>2, <3>3, CollidesNot DEF Of
    <3>5. \A c \in Of(credentials, b) : c.key \notin Replaced(call)
      <4>1. \A c \in call.creds : c.key.binding = call.binding
        BY <3>1 DEF IInv, Sound, CallsAgree, CallSound, InScope
      <4>2. \A k \in Replaced(call) : k.binding = call.binding
        BY <4>1 DEF Replaced
      <4>3. QED
        BY <4>2 DEF Of, IInv, Sound, CredentialSound, InScope
    <3>6. QED
      BY <3>1, <3>3, <3>4, <3>5 DEF CredentialsAfter, SaveCredential, Of
  <2>2. ASSUME NEW status \in Statuses, RevalidateSave(call, status)
        PROVE  Of(credentials', b) = Of(credentials, b)
    <3>1. /\ call.op \in {"validate", "refresh"}
          /\ credentials' = SaveCredential(RevalidatedRow(call, status))
      BY <2>2 DEF RevalidateSave
    <3>2. /\ CredentialSound(call.row) /\ call.row.binding = call.binding
          /\ RevalidatedRow(call, status).binding = call.binding
          /\ Colliding(RevalidatedRow(call, status)) = Colliding(call.row)
      <4>1. CredentialSound(call.row)
        BY <3>1 DEF IInv, Sound, CallsAgree, CallSound
      <4>2. QED
        BY <3>1, <4>1, RevalidatedSame DEF Colliding
    <3>3. \A c \in Of(credentials, b) : c \notin Colliding(call.row)
      BY <1>2, <3>2, CollidesNot DEF Of
    <3>4. QED
      BY <3>1, <3>2, <3>3 DEF SaveCredential, Of
  <2>3. CASE DeleteWipe(call)
    BY <2>3 DEF DeleteWipe, Of
  <2>4. CASE DeviceSave(call) \/ ConfirmSet(call)
    BY <2>4 DEF DeviceSave, ConfirmSet
  <2>5. QED
    BY <2>1, <2>2, <2>3, <2>4 DEF Writes
<1>3. QED
  BY <1>1, <1>2

\* What a bind or an update leaves of its binding's credential and devices.
LEMMA BindCredential ==
    ASSUME NEW call \in inflight, TxnCommit(call)
    PROVE  /\ Of(credentials', call.binding) = {BoundRow(call)}
           /\ BoundDevice(call) \in Of(devices', call.binding)
           /\ \A d \in Of(devices', call.binding) :
                 \/ d = BoundDevice(call)
                 \/ d \in Of(devices, call.binding) /\ d.key \notin Replaced(call)
           /\ \A d \in Of(devices, call.binding) : d.key \notin Replaced(call) =>
                 d.device = call.device \/ d \in Of(devices', call.binding)
<1>1. /\ BoundRow(call).binding = call.binding
      /\ BoundRow(call).key = CallKey(call)
      /\ BoundDevice(call).binding = call.binding
      /\ BoundDevice(call).key = CallKey(call)
      /\ BoundDevice(call).device = call.device
      /\ CallKey(call) \notin Replaced(call)
  BY DEF BoundRow, BoundDevice, Replaced
<1>2. Of(credentials', call.binding) = {BoundRow(call)}
  BY <1>1 DEF TxnCommit, CredentialsAfter, SaveCredential, Colliding, Of
<1>3. \A d : d \in devices' <=>
          /\ d.key \notin Replaced(call)
          /\ \/ d = BoundDevice(call)
             \/ d \in devices /\ ~(d.binding = call.binding
                                     /\ d.device = call.device)
  BY <1>1 DEF TxnCommit, DevicesAfter, SaveDevice
<1>4. QED
  BY <1>1, <1>2, <1>3 DEF Of

\* The default moves: bindings, identities and keys stay as they were.
LEMMA ConfirmLeaves ==
    ASSUME IInv, NEW call \in inflight, ConfirmSet(call)
    PROVE  /\ \A p \in Of(profiles', call.binding) :
                 \E q \in Of(profiles, call.binding) :
                    p.key = q.key /\ p.ident = q.ident
           /\ \A q \in Of(profiles, call.binding) :
                 \E p \in Of(profiles', call.binding) :
                    p.key = q.key /\ p.ident = q.ident
           /\ \E p \in Of(profiles', call.binding) : p.default
<1> DEFINE b == call.binding
           put(p) == [p EXCEPT !.default = Chosen(call, p)]
<1>1. profiles' = {IF p.binding = b THEN put(p) ELSE p : p \in profiles}
  BY DEF ConfirmSet, SetDefault
<1>2. \A p \in profiles : /\ put(p).binding = p.binding /\ put(p).key = p.key
                          /\ put(p).ident = p.ident
                          /\ put(p).default = Chosen(call, p)
  BY DEF IInv, TypeOK, ProfileRow
<1>3. PICK p \in profiles : Chosen(call, p)
  BY DEF ConfirmSet
<1> HIDE DEF put
<1>4. put(p) \in Of(profiles', b) /\ put(p).default
  BY <1>1, <1>2, <1>3 DEF Of, Chosen
<1>5. \A q \in Of(profiles, b) : put(q) \in Of(profiles', b)
  BY <1>1, <1>2 DEF Of
<1>6. \A q \in Of(profiles', b) : \E r \in Of(profiles, b) : q = put(r)
  BY <1>1, <1>2 DEF Of
<1>7. QED
  BY <1>2, <1>4, <1>5, <1>6 DEF Of

\* Every profile a bind leaves is one it kept, under the same key, or is
\* stored under the bind's own.
LEMMA ProfilesKeys ==
    ASSUME IInv, NEW call \in inflight, call \in BindCall
    PROVE  \A p \in ProfilesAfter(call) :
              p.key = CallKey(call)
                \/ \E q \in Kept(call) : q.key = p.key /\ q.binding = p.binding
<1> DEFINE Good(p) == \/ p.key = CallKey(call)
                      \/ \E q \in Kept(call) :
                            q.key = p.key /\ q.binding = p.binding
<1>1. Kept(call) \subseteq ProfileRow /\ \A p \in Kept(call) : Good(p)
  BY DEF Kept, IInv, TypeOK
<1>2. \A ident, d : Good(NewProfile(call, ident, d))
  BY DEF NewProfile
<1>3. \A p \in ProfileRow, d \in BOOLEAN :
         Good([p EXCEPT !.key = CallKey(call), !.default = d])
  BY DEF ProfileRow
<1>4. ASSUME call.found # <<>>
      PROVE  /\ SaveDefault(call, Kept(call)) \subseteq ProfileRow
             /\ \A p \in SaveDefault(call, Kept(call)) : Good(p)
  <2> HIDE DEF Good
  <2>1. SaveDefault(call, Kept(call)) \subseteq ProfileRow
    BY <1>1, <1>4, DefaultTypes
  <2>2. \A p \in SaveDefault(call, Kept(call)) : Good(p)
    BY <1>1, <1>2, <1>3 DEF SaveDefault
  <2>3. QED
    BY <2>1, <2>2
<1>5. ASSUME NEW rows, rows \subseteq ProfileRow, \A p \in rows : Good(p)
      PROVE  \A p \in SaveOthers(call, rows) : Good(p)
  <2> HIDE DEF Good
  <2>1. QED
    BY <1>2, <1>3, <1>5 DEF SaveOthers
<1>6. \A p \in SaveProfiles(call, Kept(call)) : Good(p)
  <2> HIDE DEF Good
  <2>1. QED
    BY <1>1, <1>4, <1>5 DEF SaveProfiles
<1>7. QED
  BY <1>6 DEF ProfilesAfter, Prune, DeleteMissing

\* A bind deletes the rows of the credential it found and stores its own.
LEMMA BindLeaves ==
    ASSUME IInv, NEW call \in inflight, TxnCommit(call),
           KeysRead(call) = KeysHeld(call.binding)
    PROVE  KeysLeft(call.binding)' \subseteq KeysLeft(call.binding)
<1> DEFINE b == call.binding
<1>1. call \in BindCall /\ KeysRead(call) = {c.key : c \in call.creds}
  BY CallKinds DEF TxnCommit, KeysRead, IInv, TypeOK
<1>2. \A k : k # CallKey(call) /\ (k \notin Replaced(call) \/ k \notin Gone(call))
                => k \notin KeysHeld(b)
  BY <1>1 DEF Replaced, Gone
<1> DEFINE new == BoundRow(call)
<1>3. CallKey(call) \in KeysHeld(b)'
  <2>1. Of(credentials', b) = {new}
    BY BindCredential
  <2>2. new.key = CallKey(call)
    BY DEF BoundRow
  <2> HIDE DEF new
  <2>3. QED
    BY <2>1, <2>2 DEF Of, KeysHeld
<1>4. ASSUME NEW row \in devices' \cup profiles', row.binding = b,
             row.key # CallKey(call)
      PROVE  row.key \in KeysLeft(b)
  <2>1. CASE row \in devices'
    <3>1. row \in devices /\ row.key \notin Replaced(call)
      <4>1. row \in Of(devices', b) /\ BoundDevice(call).key = CallKey(call)
        BY <1>4, <2>1 DEF Of, BoundDevice
      <4>2. row \in Of(devices, b) /\ row.key \notin Replaced(call)
        BY <1>4, <4>1, BindCredential
      <4>3. QED
        BY <4>2 DEF Of
    <3>2. QED
      BY <1>2, <1>4, <3>1 DEF KeysLeft
  <2>2. CASE row \in profiles'
    <3>1. PICK q \in Kept(call) : q.key = row.key /\ q.binding = b
      BY <1>1, <1>4, <2>2, ProfilesKeys DEF TxnCommit
    <3>2. q \in profiles /\ q.key \notin Gone(call)
      BY DEF Kept
    <3>3. QED
      BY <1>2, <1>4, <3>1, <3>2 DEF KeysLeft
  <2>3. QED
    BY <2>1, <2>2
<1>5. QED
  BY <1>3, <1>4 DEF KeysLeft

\* No step of a call that read the credential the binding has leaves a key.
LEMMA LeavesStep == IInv /\ [Next]_vars => LeavesNone
<1> SUFFICES ASSUME IInv, [Next]_vars, NEW b \in Bindings, Undisputed(b)',
                    \A call \in Ending :
                       call.binding = b => KeysRead(call) = KeysHeld(b)
             PROVE  KeysLeft(b)' \subseteq KeysLeft(b)
  BY DEF LeavesNone
<1> DEFINE Keys_(rows) == {row.key : row \in Of(rows, b)}
<1>0. /\ KeysHeld(b) = Keys_(credentials)
      /\ KeysLeft(b) = Keys_(devices \cup profiles) \ Keys_(credentials)
      /\ KeysLeft(b)' = Keys_(devices' \cup profiles') \ Keys_(credentials')
  BY DEF KeysHeld, KeysLeft, Of
<1> HIDE DEF Keys_
<1>1. CASE UNCHANGED tables
  BY <1>0, <1>1 DEF tables
<1>2. ASSUME NEW call \in inflight, Writes(call)
      PROVE  KeysLeft(b)' \subseteq KeysLeft(b)
  <2>1. Undisputed(b) /\ call \in Ending
    BY <1>2, WritesFinish, ElsewhereKept DEF Undisputed, Writes
  <2>2. CASE call.binding # b
    <3>1. /\ Of(devices', b) = Of(devices, b) /\ Of(profiles', b) = Of(profiles, b)
          /\ Of(credentials', b) = Of(credentials, b)
      BY <1>2, <2>1, <2>2, OthersKept
    <3>2. QED
      BY <1>0, <3>1 DEF Keys_, Of
  <2>3. CASE call.binding = b
    <3>1. KeysRead(call) = Keys_(credentials)
      BY <1>0, <2>1, <2>3
    <3>2. CASE TxnCommit(call)
      BY <2>1, <2>3, <3>2, BindLeaves
    <3>3. ASSUME NEW status \in Statuses, RevalidateSave(call, status)
          PROVE  KeysLeft(b)' \subseteq KeysLeft(b)
      <4>1. /\ devices' = devices /\ profiles' = profiles
            /\ credentials' = SaveCredential(RevalidatedRow(call, status))
            /\ call.op \in {"validate", "refresh"}
        BY <3>3 DEF RevalidateSave
      <4>2. Keys_(credentials) = {call.row.key}
        BY <3>1, <4>1 DEF KeysRead
      <4>3. call.row.key \in Keys_(credentials')
        BY <2>3, <4>1, RevalidatedSame DEF Keys_, Of, SaveCredential
      <4>4. QED
        BY <1>0, <4>1, <4>2, <4>3
    <3>4. CASE DeleteWipe(call)
      BY <1>0, <2>3, <3>4 DEF DeleteWipe, Keys_, Of
    <3>5. CASE DeviceSave(call)
      <4> DEFINE saved == [binding |-> call.binding, device |-> call.device,
                           key |-> call.key]
      <4>1. /\ credentials' = credentials /\ profiles' = profiles
            /\ devices' \subseteq devices \cup {saved}
        BY <3>5 DEF DeviceSave, SaveDevice
      <4>2. saved.key \in Keys_(credentials)
        BY <3>1, <3>5 DEF KeysRead, DeviceSave
      <4> HIDE DEF saved
      <4>3. QED
        BY <1>0, <4>1, <4>2 DEF Keys_, Of
    <3>6. CASE ConfirmSet(call)
      <4>1. credentials' = credentials /\ devices' = devices
        BY <3>6 DEF ConfirmSet
      <4>2. \A p \in Of(profiles', b) : \E q \in Of(profiles, b) : p.key = q.key
        BY <2>3, <3>6, ConfirmLeaves
      <4>3. QED
        BY <1>0, <4>1, <4>2 DEF Keys_, Of
    <3>7. QED
      BY <1>2, <3>2, <3>3, <3>4, <3>5, <3>6 DEF Writes
  <2>4. QED
    BY <2>2, <2>3
<1>3. QED
  BY <1>1, <1>2, TablesChangeByEnding DEF Writes

\* In no order of the RPCs' steps is a device or profile row left under a
\* platform account id that the binding's credential does not have, but where
\* the call that leaves it had read another credential than the binding has
\* when it writes: the windows of UpsertDevice, Validate, Refresh and of two
\* binds of one binding are all there are.
THEOREM OnlyOvertakenLeave == Spec => LeftOnlyByOvertaken
<1>1. IInv /\ [Next]_vars => [LeavesNone]_vars
  BY LeavesStep
<1>2. QED
  BY <1>1, InvariantHolds, PTL DEF Spec, LeftOnlyByOvertaken
=============================================================================
