-------------------------- MODULE TicketGateProofs --------------------------
(***************************************************************************)
(* Theorems about TicketGate, for all values of its constants.             *)
(*                                                                         *)
(* A right is checked when an RPC is admitted and used later, and what a   *)
(* ticket names may be deleted in between.  IInv says of each running RPC, *)
(* and of each answer, what was established about it (CallSound,           *)
(* AnswerSound) in terms that later steps of other RPCs cannot undo: the   *)
(* histories grow, and profile ids are never handed out twice (Grown).     *)
(***************************************************************************)
EXTENDS TicketGate, TLAPS

\* Rows carry the binding their key names, and are the rows first inserted
\* under their ids, which are all counted.
Identified ==
    /\ \A p \in profiles :
         /\ p.key.binding = p.binding
         /\ \E q \in born : /\ q.id = p.id
                            /\ q.binding = p.binding
                            /\ q.ident = p.ident
    /\ \A p \in born : p.id \in 1..lastId
    /\ \A p, q \in born : p.id = q.id => p = q

\* The profile a ticket is confined to was of its binding, and of the player.
Owns(t, player) ==
    \E p \in born : /\ p.id = t.profile
                    /\ p.binding = t.binding
                    /\ PlayerOf[p.ident] = player

StepOf(call) ==
    CASE call.step = "issue" -> call.req.op = "GetAuthKey"
      [] call.step = "set" -> call.req.op = "Confirm"
      [] call.step = "save" -> call.req.op \in Revalidates
      [] call.step = "commit" -> call.req.op \in {"Update", "PutCredential"}
      [] call.step = "summary" -> call.req.op \in Puts
      [] call.step = "wipe" -> call.req.op \in Deletes
      [] OTHER -> TRUE

\* What was established of a running call.
CallSound(call) ==
    LET t == call.req.ticket
    IN /\ call.step # "arrived" => ~Stale(call)
       /\ call.step \notin {"arrived", "verified"} => Entitled(call.req)
       /\ StepOf(call)
       /\ \A v \in call.known :
            /\ t.consumer # None
            /\ <<t.binding, NameOf[t.consumer], v>> \in invalidated
       /\ \A i \in call.gone : i \in 1..lastId /\ \A p \in profiles : p.id # i
       /\ call.step = "issue" /\ t.profile # 0 =>
            t.profile \notin call.gone /\ Owns(t, call.req.arg)

\* What holds of an answer.
AnswerSound(a) ==
    LET t == a.call.req.ticket
    IN /\ a.result \notin {"unauthenticated", "revoked"} =>
            /\ ~Stale(a.call)
            /\ a.result \in {"denied", "invalid"} <=> ~Entitled(a.call.req)
       /\ a.result = "invalid" => Unnamed(a.call.req)
       /\ a.result = "revoked" =>
            \E v \in Versions :
                /\ t.version < v
                /\ <<t.binding, NameOf[t.consumer], v>> \in invalidated
       /\ t.profile # 0 /\ a.result = "ok" =>
            /\ t.profile \notin a.call.gone
            /\ \E p \in born :
                 /\ p.id = t.profile
                 /\ p.binding = t.binding
                 /\ \A q \in a.rows : q.id = t.profile /\ q.ident = p.ident
                 /\ \/ a.call.req.op # "GetAuthKey"
                    \/ PlayerOf[p.ident] = a.call.req.arg

\* The inductive invariant.
IInv ==
    /\ TypeOK
    /\ MinimumIsHighest
    /\ Identified
    /\ \A call \in inflight : CallSound(call)
    /\ \A a \in answers : AnswerSound(a)

-----------------------------------------------------------------------------
(* Requests: what they carry, and that every RPC admits whom it should.    *)

LEMMA OfferTypes ==
    ASSUME NEW req \in Offers
    PROVE  /\ req.op \in AllOps
           /\ req.ticket \in Ticket
           /\ req.ticket.binding \in Bindings
           /\ req.key \in KeyArgs
           /\ req.op \in {"Bind", "Invalidate"} => req.key = NoId
           /\ req.op \in Puts => req.arg \in Discovered
           /\ req.op \in {"GetAuthKey", "Confirm"} => req.arg \in Players
           /\ req.op = "Invalidate" => req.arg \in Invalidation
<1>1. req \in Request /\ req.key \in KeysOf(req.op) /\ req.arg \in ArgsOf(req.op)
  BY GateAssumption
<1>2. req.op \in AllOps /\ req.ticket \in Ticket /\ req.key \in KeyArgs
  BY <1>1 DEF Request
<1>3. req.ticket.binding \in Bindings
  BY <1>2 DEF Ticket
<1>4. req.op \in {"Bind", "Invalidate"} => req.key = NoId
  BY <1>1 DEF KeysOf
<1>5. /\ req.op \in Puts => req.arg \in Discovered
      /\ req.op \in {"GetAuthKey", "Confirm"} => req.arg \in Players
      /\ req.op = "Invalidate" => req.arg \in Invalidation
  BY <1>1 DEF ArgsOf, Puts
<1>6. QED
  BY <1>2, <1>3, <1>4, <1>5

\* The eighteen RPCs admit exactly those whose tickets entitle them.
LEMMA AdmitsTheEntitled ==
    ASSUME NEW req \in Offers
    PROVE  Admits(req) <=> Entitled(req)
<1> USE OfferTypes DEF Admits, Entitled, RightOf, KeyOf, Binds, ScopedGuardFor,
        ScopedGuard, Within, BindingWide, Readers, Revalidates, Summaries, Deletes,
        ProfileReaders, Puts
<1>1. CASE req.op = "Bind"
  BY <1>1 DEF BindAdmits
<1>2. CASE req.op \in {"Status", "Validate"}
  BY <1>2 DEF StatusAdmits
<1>3. CASE req.op = "Refresh"
  BY <1>3 DEF RefreshAdmits
<1>4. CASE req.op \in {"ListProfiles", "GetPrimaryProfile"}
  BY <1>4 DEF ListAdmits
<1>5. CASE req.op = "GetAuthKey"
  BY <1>5 DEF AuthKeyAdmits
<1>6. CASE req.op = "Summary"
  BY <1>6 DEF SummaryAdmits
<1>7. CASE req.op = "Update"
  BY <1>7 DEF UpdateAdmits
<1>8. CASE req.op = "Delete"
  BY <1>8 DEF DeleteAdmits
<1>9. CASE req.op = "Device"
  BY <1>9 DEF DeviceAdmits
<1>10. CASE req.op = "Confirm"
  BY <1>10 DEF ConfirmAdmits
<1>11. CASE req.op = "GenericSummary"
  BY <1>11 DEF GenericSummaryAdmits
<1>12. CASE req.op = "SharedSummary"
  BY <1>12 DEF SharedSummaryAdmits
<1>13. CASE req.op = "PutCredential"
  BY <1>13 DEF PutAdmits
<1>14. CASE req.op = "GenericRefresh"
  BY <1>14 DEF GenericRefreshAdmits
<1>15. CASE req.op = "GenericDelete"
  BY <1>15 DEF GenericDeleteAdmits
<1>16. CASE req.op = "Invalidate"
  BY <1>16 DEF InvalidateAdmits
<1>17. QED
  BY <1>1, <1>2, <1>3, <1>4, <1>5, <1>6, <1>7, <1>8, <1>9, <1>10, <1>11,
     <1>12, <1>13, <1>14, <1>15, <1>16 DEF AllOps

-----------------------------------------------------------------------------
(* The tables: what a step of an RPC keeps, and how they grow.             *)

TablesTyped ==
    /\ minimums \in [Bindings \X Names -> Nat]
    /\ accounts \in [Bindings -> Accounts \cup {None}]
    /\ profiles \subseteq ProfileRow
    /\ lastId \in Nat
    /\ invalidated \subseteq Bindings \X Names \X Versions
    /\ born \subseteq ProfileRow

TablesSound == TablesTyped /\ MinimumIsHighest /\ Identified

\* No step takes back what CallSound and AnswerSound say of the tables.
Grown ==
    /\ invalidated \subseteq invalidated'
    /\ born \subseteq born'
    /\ lastId <= lastId'
    /\ \A p \in profiles' :
         p.id \in 1..lastId => \E q \in profiles : q.id = p.id

LEMMA TablesOfInvariant == ASSUME IInv PROVE TablesSound
  BY DEF IInv, TypeOK, TablesSound, TablesTyped

LEMMA TablesStay ==
    ASSUME TablesSound, UNCHANGED tables
    PROVE  TablesSound' /\ Grown
<1>1. Grown
  BY DEF TablesSound, TablesTyped, Grown, tables
<1>2. TablesTyped'
  BY DEF TablesSound, TablesTyped, tables
<1>3. MinimumIsHighest'
  BY DEF TablesSound, MinimumIsHighest, tables
<1>4. Identified'
  BY DEF TablesSound, Identified, tables
<1>5. QED
  BY <1>1, <1>2, <1>3, <1>4 DEF TablesSound

\* What a Wipe leaves was there.
LEMMA WipeTables ==
    ASSUME TablesSound, NEW call \in Call, Wipe(call)
    PROVE  TablesSound' /\ Grown
<1>1. call.req.ticket.binding \in Bindings
  BY OfferTypes DEF Call
<1>2. Grown
  BY DEF TablesSound, TablesTyped, Grown, Wipe
<1>3. TablesTyped'
  BY <1>1 DEF TablesSound, TablesTyped, Wipe
<1>4. MinimumIsHighest'
  BY DEF TablesSound, MinimumIsHighest, Wipe
<1>5. Identified'
  BY DEF TablesSound, Identified, Wipe
<1>6. QED
  BY <1>2, <1>3, <1>4, <1>5 DEF TablesSound

\* A confirmation changes no row but for its mark.
LEMMA SetDefaultTables ==
    ASSUME TablesSound, NEW call \in Call, SetDefault(call)
    PROVE  TablesSound' /\ Grown
<1>1. /\ profiles' \subseteq ProfileRow
      /\ \A p \in profiles' : \E q \in profiles :
             /\ p.id = q.id /\ p.binding = q.binding
             /\ p.key = q.key /\ p.ident = q.ident
  <2>1. CASE UNCHANGED profiles
    BY <2>1 DEF TablesSound, TablesTyped
  <2>2. CASE ~UNCHANGED profiles
    <3>1. PICK p \in ToConfirm(call) :
              profiles' = {IF q.binding = p.binding
                           THEN [q EXCEPT !.default = (q.id = p.id)] ELSE q :
                              q \in profiles}
      BY <2>2 DEF SetDefault
    <3>2. \A q \in ProfileRow, d \in BOOLEAN :
              LET m == [q EXCEPT !.default = d]
              IN m \in ProfileRow /\ m.id = q.id /\ m.binding = q.binding
                   /\ m.key = q.key /\ m.ident = q.ident
      BY DEF ProfileRow
    <3>3. SUFFICES ASSUME NEW r \in profiles'
                   PROVE  /\ r \in ProfileRow
                          /\ \E q \in profiles :
                                /\ r.id = q.id /\ r.binding = q.binding
                                /\ r.key = q.key /\ r.ident = q.ident
      OBVIOUS
    <3>4. PICK q \in profiles :
              r = IF q.binding = p.binding
                  THEN [q EXCEPT !.default = (q.id = p.id)] ELSE q
      BY <3>1
    <3>5. q \in ProfileRow /\ (q.id = p.id) \in BOOLEAN
      BY DEF TablesSound, TablesTyped
    <3>6. QED
      BY <3>2, <3>4, <3>5
  <2>3. QED
    BY <2>1, <2>2
<1>2. UNCHANGED <<minimums, accounts, lastId, invalidated, born>>
  BY DEF SetDefault
<1>3. Grown
  BY <1>1, <1>2 DEF TablesSound, TablesTyped, Grown
<1>4. TablesTyped'
  BY <1>1, <1>2 DEF TablesSound, TablesTyped
<1>5. MinimumIsHighest'
  BY <1>2 DEF TablesSound, MinimumIsHighest
<1>6. Identified'
  BY <1>1, <1>2 DEF TablesSound, Identified
<1>7. QED
  BY <1>3, <1>4, <1>5, <1>6 DEF TablesSound

\* An invalidation raises one minimum or leaves it.
LEMMA InvalidateTables ==
    ASSUME TablesSound, NEW call \in Call, Invalidate(call)
    PROVE  TablesSound' /\ Grown
<1> DEFINE i == call.req.arg
           at == <<i.binding, NameOf[i.consumer]>>
           new == IF minimums[at] > i.version THEN minimums[at] ELSE i.version
<1>1. /\ i.binding \in Bindings /\ NameOf[i.consumer] \in Names
      /\ i.version \in Versions /\ i.version \in Nat
  <2>1. call.req \in Offers /\ call.req.op = "Invalidate"
    BY DEF Call, Invalidate, Admitted
  <2>2. i \in Invalidation
    BY <2>1, OfferTypes
  <2>3. QED
    BY <2>2, GateAssumption DEF Invalidation
<1>2. /\ minimums' = [minimums EXCEPT ![at] = new]
      /\ invalidated' = invalidated
                          \cup {<<i.binding, NameOf[i.consumer], i.version>>}
      /\ UNCHANGED <<accounts, profiles, lastId, born>>
  BY DEF Invalidate, Upserted
<1>3. at \in Bindings \X Names /\ minimums[at] \in Nat /\ new \in Nat
  BY <1>1 DEF TablesSound, TablesTyped
<1>4. /\ minimums' \in [Bindings \X Names -> Nat]
      /\ invalidated' \subseteq Bindings \X Names \X Versions
  BY <1>1, <1>2, <1>3 DEF TablesSound, TablesTyped
<1>5. TablesTyped'
  BY <1>2, <1>4 DEF TablesSound, TablesTyped
<1>6. MinimumIsHighest'
  <2> SUFFICES ASSUME NEW b \in Bindings, NEW n \in Names
               PROVE  /\ \/ minimums'[<<b, n>>] = 0
                         \/ <<b, n, minimums'[<<b, n>>]>> \in invalidated'
                      /\ \A v \in Versions :
                            <<b, n, v>> \in invalidated'
                                => v <= minimums'[<<b, n>>]
    BY DEF MinimumIsHighest
  <2>1. /\ \/ minimums[<<b, n>>] = 0
           \/ <<b, n, minimums[<<b, n>>]>> \in invalidated
        /\ \A v \in Versions :
              <<b, n, v>> \in invalidated => v <= minimums[<<b, n>>]
    BY DEF TablesSound, MinimumIsHighest
  <2>2. Versions \subseteq Nat
    BY GateAssumption
  <2>3. CASE <<b, n>> = at
    <3>1. minimums'[<<b, n>>] = new
      BY <1>2, <1>3, <2>3 DEF TablesSound, TablesTyped
    <3>2. b = i.binding /\ n = NameOf[i.consumer]
      BY <2>3
    <3>3. QED
      BY <1>1, <1>2, <1>3, <2>1, <2>2, <2>3, <3>1, <3>2
  <2>4. CASE <<b, n>> # at
    <3>1. minimums'[<<b, n>>] = minimums[<<b, n>>]
      BY <1>2, <1>3, <2>4 DEF TablesSound, TablesTyped
    <3>2. QED
      BY <1>2, <2>1, <2>4, <3>1
  <2>5. QED
    BY <2>3, <2>4
<1>7. Identified'
  BY <1>2 DEF TablesSound, Identified
<1>8. Grown
  BY <1>2 DEF TablesSound, TablesTyped, Grown
<1>9. QED
  BY <1>5, <1>6, <1>7, <1>8 DEF TablesSound

\* What a bind inserts is numbered beyond lastId, each with its own number.
LEMMA InsertedRows ==
    ASSUME TablesSound, NEW b \in Bindings, NEW arg \in Discovered
    PROVE  /\ Len(arg.found) \in Nat
           /\ Inserted(b, arg) \subseteq ProfileRow
           /\ \A p \in Inserted(b, arg) :
                /\ p.binding = b /\ p.key.binding = b
                /\ p.id \in (lastId + 1)..(lastId + Len(arg.found))
           /\ \A p, q \in Inserted(b, arg) : p.id = q.id => p = q
<1>1. arg.found \in Seq(Idents) /\ arg.account \in Accounts
  BY GateAssumption DEF Discovered
<1>2. BoundKey(b, arg) \in Keys /\ BoundKey(b, arg).binding = b
  BY <1>1 DEF BoundKey, Keys
<1>3. lastId \in Nat /\ Len(arg.found) \in Nat
      /\ DOMAIN arg.found = 1..Len(arg.found)
  BY <1>1 DEF TablesSound, TablesTyped
<1> DEFINE Row(i) == [id |-> lastId + i, binding |-> b,
                      key |-> BoundKey(b, arg), ident |-> arg.found[i],
                      default |-> i = 1]
<1>4. \A p \in Inserted(b, arg) : \E i \in 1..Len(arg.found) : p = Row(i)
  BY <1>3 DEF Inserted
<1>5. \A i \in 1..Len(arg.found) : /\ Row(i) \in ProfileRow
                                   /\ Row(i).id = lastId + i
                                   /\ Row(i).binding = b
                                   /\ Row(i).key.binding = b
  <2> TAKE i \in 1..Len(arg.found)
  <2>1. arg.found[i] \in Idents /\ lastId + i \in Nat /\ (i = 1) \in BOOLEAN
    BY <1>1, <1>3
  <2>2. QED
    BY <1>2, <2>1 DEF ProfileRow
<1>6. \A p, q \in Inserted(b, arg) : p.id = q.id => p = q
  <2> TAKE p, q \in Inserted(b, arg)
  <2>1. PICK i \in 1..Len(arg.found) : p = Row(i)
    BY <1>4
  <2>2. PICK j \in 1..Len(arg.found) : q = Row(j)
    BY <1>4
  <2>3. p.id = lastId + i /\ q.id = lastId + j
    BY <2>1, <2>2
  <2>4. p.id = q.id => i = j
    BY <1>3, <2>3
  <2>5. QED
    BY <2>1, <2>2, <2>4
<1>7. \A p \in Inserted(b, arg) :
          p.id \in (lastId + 1)..(lastId + Len(arg.found))
  <2> TAKE p \in Inserted(b, arg)
  <2>1. PICK i \in 1..Len(arg.found) : p = Row(i)
    BY <1>4
  <2>2. p.id = lastId + i
    BY <2>1
  <2>3. QED
    BY <1>3, <2>2
<1>8. QED
  BY <1>3, <1>4, <1>5, <1>6, <1>7

\* What it rewrites keeps its id, its binding and its identity.
LEMMA RewrittenRows ==
    ASSUME TablesSound, NEW b \in Bindings, NEW arg \in Discovered
    PROVE  \A p \in Rewritten(b, arg) :
               /\ p \in ProfileRow /\ p.key.binding = p.binding
               /\ \E q \in profiles : /\ p.id = q.id /\ p.binding = q.binding
                                      /\ p.ident = q.ident
<1> TAKE p \in Rewritten(b, arg)
<1>1. PICK q \in Kept(b, arg) :
          \/ p = q
          \/ /\ q.binding = b
             /\ p = [q EXCEPT !.key = BoundKey(b, arg),
                              !.default = q.ident = arg.found[1]]
  BY DEF Rewritten
<1>2. q \in profiles /\ q \in ProfileRow /\ q.key.binding = q.binding
  BY DEF Kept, TablesSound, TablesTyped, Identified
<1>3. BoundKey(b, arg) \in Keys /\ BoundKey(b, arg).binding = b
  BY DEF BoundKey, Keys, Discovered
<1>4. (q.ident = arg.found[1]) \in BOOLEAN
  OBVIOUS
<1>5. CASE p = q
  BY <1>2, <1>5
<1>6. CASE /\ q.binding = b
           /\ p = [q EXCEPT !.key = BoundKey(b, arg),
                            !.default = q.ident = arg.found[1]]
  <2>1. /\ p \in ProfileRow /\ p.key = BoundKey(b, arg)
        /\ p.id = q.id /\ p.binding = q.binding /\ p.ident = q.ident
    BY <1>2, <1>3, <1>4, <1>6 DEF ProfileRow
  <2>2. QED
    BY <1>2, <1>3, <1>6, <2>1
<1>7. QED
  BY <1>1, <1>5, <1>6

\* The transaction of a bind or an update.
LEMMA TransactTables ==
    ASSUME TablesSound, NEW call \in Call, call.req.op \in Puts,
           NEW rows, rows \subseteq BoundProfiles(call), Transact(call, rows)
    PROVE  TablesSound' /\ Grown
<1> DEFINE b == call.req.ticket.binding
           arg == call.req.arg
<1>1. b \in Bindings /\ arg \in Discovered
  BY OfferTypes DEF Call
<1>2. arg.account \in Accounts
  BY <1>1 DEF Discovered
<1>3. /\ accounts' = AccountsAfter(b, arg.account)
      /\ profiles' = rows
      /\ lastId' = lastId + Len(arg.found)
      /\ born' = born \cup Inserted(b, arg)
      /\ UNCHANGED <<minimums, invalidated>>
  BY DEF Transact
<1>4. \A p \in rows : p \in Rewritten(b, arg) \/ p \in Inserted(b, arg)
  BY DEF BoundProfiles
<1> DEFINE n == Len(arg.found)
<1>5. /\ n \in Nat /\ lastId \in Nat
      /\ Inserted(b, arg) \subseteq ProfileRow
      /\ \A p \in Inserted(b, arg) :
            /\ p.binding = b /\ p.key.binding = b
            /\ p.id \in (lastId + 1)..(lastId + n)
      /\ \A p, q \in Inserted(b, arg) : p.id = q.id => p = q
  BY <1>1, InsertedRows DEF TablesSound, TablesTyped
<1>6. \A p \in Rewritten(b, arg) :
          /\ p \in ProfileRow /\ p.key.binding = p.binding
          /\ \E q \in profiles : /\ p.id = q.id /\ p.binding = q.binding
                                 /\ p.ident = q.ident
  BY <1>1, RewrittenRows
<1> HIDE DEF b, arg, n
<1>7. Grown
  <2>1. \A p \in profiles' :
            p.id \in 1..lastId => \E q \in profiles : q.id = p.id
    BY <1>3, <1>4, <1>5, <1>6
  <2>2. lastId <= lastId'
    BY <1>3, <1>5 DEF n
  <2>3. QED
    BY <1>3, <2>1, <2>2 DEF Grown
<1>8. TablesTyped'
  <2>1. accounts' \in [Bindings -> Accounts \cup {None}]
    BY <1>2, <1>3 DEF AccountsAfter, TablesSound, TablesTyped
  <2>2. profiles' \subseteq ProfileRow /\ born' \subseteq ProfileRow
    BY <1>3, <1>4, <1>5, <1>6 DEF TablesSound, TablesTyped
  <2>3. lastId' \in Nat
    BY <1>3, <1>5 DEF n
  <2>4. QED
    BY <1>3, <2>1, <2>2, <2>3 DEF TablesSound, TablesTyped
<1>9. MinimumIsHighest'
  BY <1>3 DEF TablesSound, MinimumIsHighest
<1>10. Identified'
  <2>1. ASSUME NEW p \in profiles'
        PROVE  /\ p.key.binding = p.binding
               /\ \E q \in born' : /\ q.id = p.id
                                   /\ q.binding = p.binding
                                   /\ q.ident = p.ident
    BY <1>3, <1>4, <1>5, <1>6 DEF TablesSound, Identified
  <2>2. \A p \in born' : p.id \in 1..lastId'
    <3>1. \A p \in born : p.id \in 1..lastId
      BY DEF TablesSound, Identified
    <3>2. lastId' = lastId + n
      BY <1>3 DEF n
    <3>3. QED
      BY <1>3, <1>5, <3>1, <3>2
  <2>3. \A p, q \in born' : p.id = q.id => p = q
    <3>1. \A p \in born : p.id \in 1..lastId
      BY DEF TablesSound, Identified
    <3>2. \A p \in born, q \in Inserted(b, arg) : p.id # q.id
      BY <1>5, <3>1
    <3>3. \A p, q \in born : p.id = q.id => p = q
      BY DEF TablesSound, Identified
    <3>4. QED
      BY <1>3, <1>5, <3>2, <3>3
  <2>4. QED
    BY <2>1, <2>2, <2>3 DEF Identified
<1>11. QED
  BY <1>7, <1>8, <1>9, <1>10 DEF TablesSound

-----------------------------------------------------------------------------
(* Calls and answers: what was established of them stays.                  *)

LEMMA CallSoundStays ==
    ASSUME TablesSound, TablesSound', Grown, NEW call \in Call, CallSound(call)
    PROVE  CallSound(call)'
<1>1. call.req.op \in AllOps /\ call.gone \subseteq Nat
  BY OfferTypes DEF Call
<1>2. ASSUME NEW v \in call.known
      PROVE  /\ call.req.ticket.consumer # None
             /\ <<call.req.ticket.binding, NameOf[call.req.ticket.consumer],
                  v>> \in invalidated'
  BY DEF CallSound, Grown
<1>3. ASSUME NEW i \in call.gone
      PROVE  i \in 1..lastId' /\ \A p \in profiles' : p.id # i
  <2>1. i \in 1..lastId /\ \A p \in profiles : p.id # i
    BY DEF CallSound
  <2>2. \A p \in profiles' : p.id # i
    BY <2>1 DEF Grown
  <2>3. QED
    BY <2>1, <2>2 DEF Grown, TablesSound, TablesTyped
<1>4. ASSUME call.step = "issue", call.req.ticket.profile # 0
      PROVE  /\ call.req.ticket.profile \notin call.gone
             /\ Owns(call.req.ticket, call.req.arg)'
  BY <1>4 DEF CallSound, Owns, Grown
<1>5. /\ call.step # "arrived" => ~Stale(call)
      /\ call.step \notin {"arrived", "verified"} => Entitled(call.req)
      /\ StepOf(call)
  BY DEF CallSound
<1>6. QED
  BY <1>2, <1>3, <1>4, <1>5 DEF CallSound

LEMMA AnswerSoundStays ==
    ASSUME Grown, NEW a \in Answer, AnswerSound(a)
    PROVE  AnswerSound(a)'
  BY DEF AnswerSound, Grown

\* A step keeps the invariant when its tables grow and what it adds is sound.
LEMMA StepKeeps ==
    ASSUME IInv, TablesSound', Grown, used' \subseteq Requests,
           \A c \in inflight' : c \in inflight \/ (c \in Call /\ CallSound(c)'),
           \A a \in answers' :
               a \in answers \/ (a \in Answer /\ AnswerSound(a)')
    PROVE  IInv'
<1>1. TablesSound
  BY TablesOfInvariant
<1>2. ASSUME NEW c \in inflight'
      PROVE  c \in Call /\ CallSound(c)'
  <2>1. CASE c \in inflight
    <3>1. c \in Call /\ CallSound(c)
      BY <2>1 DEF IInv, TypeOK
    <3>2. PICK call \in Call : call = c
      BY <3>1
    <3>3. CallSound(call)'
      BY <1>1, <3>1, <3>2, CallSoundStays
    <3>4. QED
      BY <3>1, <3>2, <3>3
  <2>2. QED
    BY <2>1
<1>3. ASSUME NEW a \in answers'
      PROVE  a \in Answer /\ AnswerSound(a)'
  <2>1. CASE a \in answers
    <3>1. a \in Answer /\ AnswerSound(a)
      BY <2>1 DEF IInv, TypeOK
    <3>2. QED
      BY <3>1, AnswerSoundStays
  <2>2. QED
    BY <2>1
<1>4. TypeOK'
  BY <1>2, <1>3 DEF TypeOK, TablesSound, TablesTyped
<1>5. QED
  BY <1>2, <1>3, <1>4 DEF IInv, TablesSound

\* An RPC is answered.
LEMMA ReplyKeeps ==
    ASSUME IInv, TablesSound', Grown, NEW call \in inflight,
           NEW result \in Results, NEW rows, rows \subseteq ProfileRow,
           Reply(call, result, rows),
           AnswerSound([call |-> call, result |-> result, rows |-> rows])
    PROVE  IInv'
<1>1. PICK a \in Answer : a = [call |-> call, result |-> result, rows |-> rows]
  BY DEF Answer, IInv, TypeOK
<1>2. AnswerSound(a)'
  BY <1>1, AnswerSoundStays
<1>3. answers' = answers \cup {a} /\ inflight' \subseteq inflight /\ used' = used
  BY <1>1 DEF Reply
<1>4. used' \subseteq Requests
  BY <1>3 DEF IInv, TypeOK
<1>5. QED
  BY <1>2, <1>3, <1>4, StepKeeps

\* An RPC goes on, to a step it is entitled to.
LEMMA AdvanceKeeps ==
    ASSUME IInv, TablesSound', Grown, NEW call \in inflight, NEW step \in Steps,
           Advance(call, step), ~Stale(call),
           step # "verified" => Entitled(call.req),
           StepOf([call EXCEPT !.step = step]),
           step = "issue" /\ call.req.ticket.profile # 0 =>
               /\ call.req.ticket.profile \notin call.gone
               /\ Owns(call.req.ticket, call.req.arg)
    PROVE  IInv'
<1>1. call \in Call /\ CallSound(call) /\ TablesSound
  BY TablesOfInvariant DEF IInv, TypeOK
<1>2. PICK c \in Call : c = [call EXCEPT !.step = step]
  BY <1>1 DEF Call
<1>3. /\ c.step = step /\ c.req = call.req
      /\ c.known = call.known /\ c.gone = call.gone
  BY <1>1, <1>2 DEF Call
<1>4. CallSound(c)
  BY <1>1, <1>2, <1>3 DEF CallSound, Stale
<1>5. CallSound(c)'
  BY <1>1, <1>4, CallSoundStays
<1>6. /\ answers' = answers /\ used' \subseteq Requests
      /\ inflight' = (inflight \ {call}) \cup {c}
  BY <1>2 DEF Advance, IInv, TypeOK
<1>7. QED
  BY <1>5, <1>6, StepKeeps

\* An answer but for a refusal, when it is about no confined ticket.
LEMMA PlainAnswer ==
    ASSUME NEW call, NEW result, NEW rows, ~Stale(call), Entitled(call.req),
           result \notin {"unauthenticated", "revoked", "invalid", "denied"},
           call.req.op \notin ProfileReaders \/ result # "ok"
    PROVE  AnswerSound([call |-> call, result |-> result, rows |-> rows])
  BY DEF AnswerSound, Entitled

\* A call that acts was verified and is entitled.
LEMMA ActingCall ==
    ASSUME IInv, NEW call \in inflight, call.step # "arrived",
           call.step # "verified" \/ Admits(call.req)
    PROVE  ~Stale(call) /\ Entitled(call.req)
<1>1. CallSound(call) /\ call.req \in Offers
  BY DEF IInv, TypeOK, Call
<1>2. QED
  BY <1>1, AdmitsTheEntitled DEF CallSound

-----------------------------------------------------------------------------
(* The invariant, action by action.                                        *)

LEMMA InitHolds == Init => IInv
<1> SUFFICES ASSUME Init PROVE IInv
  OBVIOUS
<1>1. PICK account \in [Bindings -> Accounts \cup {None}], b \in Bindings,
           found \in Discoveries :
         /\ account[b] = None => found = <<>>
         /\ accounts = account
         /\ profiles = {[id |-> i, binding |-> b,
                         key |-> [binding |-> b, account |-> account[b]],
                         ident |-> found[i], default |-> i = 1] :
                            i \in DOMAIN found}
         /\ lastId = Len(found)
  BY DEF Init
<1>2. /\ born = profiles /\ minimums = [bn \in Bindings \X Names |-> 0]
      /\ invalidated = {} /\ inflight = {} /\ used = {} /\ answers = {}
  BY DEF Init
<1>3. found \in Seq(Idents) /\ Len(found) \in Nat
      /\ DOMAIN found = 1..Len(found)
  BY GateAssumption
<1> DEFINE Row(i) == [id |-> i, binding |-> b,
                      key |-> [binding |-> b, account |-> account[b]],
                      ident |-> found[i], default |-> i = 1]
<1>4. \A p \in profiles : \E i \in 1..Len(found) : p = Row(i)
  BY <1>1, <1>3
<1>5. \A i \in 1..Len(found) : /\ Row(i) \in ProfileRow /\ Row(i).id = i
                               /\ Row(i).key.binding = Row(i).binding
  <2> TAKE i \in 1..Len(found)
  <2>1. found # <<>>
    BY <1>3
  <2>2. account[b] \in Accounts
    BY <1>1, <2>1
  <2>3. found[i] \in Idents /\ i \in Nat /\ (i = 1) \in BOOLEAN
    BY <1>3
  <2>4. QED
    BY <2>2, <2>3 DEF ProfileRow, Keys
<1> HIDE DEF Row
<1>6. \A p \in profiles : /\ p \in ProfileRow /\ p.key.binding = p.binding
                          /\ p.id \in 1..Len(found) /\ p = Row(p.id)
  BY <1>4, <1>5
<1>7. TypeOK
  BY <1>1, <1>2, <1>3, <1>6 DEF TypeOK
<1>8. MinimumIsHighest
  BY <1>2 DEF MinimumIsHighest
<1>9. Identified
  BY <1>1, <1>2, <1>6 DEF Identified
<1>10. QED
  BY <1>2, <1>7, <1>8, <1>9 DEF IInv

LEMMA ArriveKeeps ==
    ASSUME IInv, NEW r \in Requests, NEW req \in Offers, Arrive(r, req)
    PROVE  IInv'
<1> DEFINE gone == {i \in 1..lastId : \A p \in profiles : p.id # i}
<1>1. TablesSound /\ TablesSound' /\ Grown
  BY TablesOfInvariant, TablesStay DEF Arrive
<1>2. VersionsKnown(req.ticket) \subseteq Versions /\ gone \subseteq Nat
  BY <1>1 DEF VersionsKnown, TablesSound, TablesTyped
<1>3. PICK c \in Call :
          c = [id |-> r, step |-> "arrived", req |-> req,
               known |-> VersionsKnown(req.ticket), gone |-> gone]
  BY <1>2 DEF Call, Steps
<1>4. /\ c.step = "arrived" /\ c.req = req
      /\ c.known = VersionsKnown(req.ticket) /\ c.gone = gone
  BY <1>3
<1>5. CallSound(c)
  BY <1>4 DEF CallSound, StepOf, VersionsKnown
<1>6. CallSound(c)'
  BY <1>1, <1>5, CallSoundStays
<1>7. /\ used' \subseteq Requests /\ answers' = answers
      /\ inflight' = inflight \cup {c}
  BY <1>3 DEF Arrive, IInv, TypeOK
<1>8. QED
  BY <1>1, <1>6, <1>7, StepKeeps

LEMMA RejectKeeps ==
    ASSUME IInv, NEW call \in inflight, Reject(call) PROVE IInv'
<1>1. TablesSound' /\ Grown
  BY TablesOfInvariant, TablesStay DEF Reject
<1>2. AnswerSound([call |-> call, result |-> "unauthenticated", rows |-> {}])
  BY DEF AnswerSound
<1>3. QED
  BY <1>1, <1>2, ReplyKeeps DEF Reject, Results

LEMMA TicketTypes ==
    ASSUME IInv, NEW call \in inflight, Authentic(call.req.ticket),
           call.req.ticket.actor = "consumer"
    PROVE  /\ call.req.ticket.binding \in Bindings
           /\ NameOf[call.req.ticket.consumer] \in Names
           /\ call.req.ticket.version \in Nat
           /\ MinimumVersion(call.req.ticket) \in Nat
<1>1. call.req.ticket \in Ticket
  BY OfferTypes DEF IInv, TypeOK, Call
<1>2. /\ call.req.ticket.binding \in Bindings
      /\ call.req.ticket.version \in Nat
      /\ call.req.ticket.consumer \in Consumers
  BY <1>1 DEF Ticket, Authentic
<1>3. QED
  BY <1>2, GateAssumption DEF MinimumVersion, IInv, TypeOK

LEMMA RefuseKeeps ==
    ASSUME IInv, NEW call \in inflight, RefuseRevoked(call) PROVE IInv'
<1> DEFINE t == call.req.ticket
           m == MinimumVersion(t)
<1>1. TablesSound' /\ Grown
  BY TablesOfInvariant, TablesStay DEF RefuseRevoked
<1>2. /\ t.binding \in Bindings /\ NameOf[t.consumer] \in Names
      /\ t.version \in Nat /\ m \in Nat /\ m # 0 /\ t.version < m
  BY TicketTypes DEF RefuseRevoked, Revoked
<1>3. <<t.binding, NameOf[t.consumer], m>> \in invalidated
  BY <1>2 DEF IInv, MinimumIsHighest, MinimumVersion
<1>4. m \in Versions
  BY <1>3 DEF IInv, TypeOK
<1>5. AnswerSound([call |-> call, result |-> "revoked", rows |-> {}])
  <2> HIDE DEF m
  <2> QED
    BY <1>2, <1>3, <1>4 DEF AnswerSound
<1>6. QED
  BY <1>1, <1>5, ReplyKeeps DEF RefuseRevoked, Results

LEMMA VerifyKeeps ==
    ASSUME IInv, NEW call \in inflight, Verify(call) PROVE IInv'
<1> DEFINE t == call.req.ticket
<1>1. TablesSound' /\ Grown
  BY TablesOfInvariant, TablesStay DEF Verify
<1>2. ~Stale(call)
  <2> SUFFICES ASSUME t.actor = "consumer",
                      NEW v \in call.known, t.version < v
               PROVE  FALSE
    BY DEF Stale
  <2>1. /\ t.binding \in Bindings /\ NameOf[t.consumer] \in Names
        /\ t.version \in Nat /\ MinimumVersion(t) \in Nat
    BY TicketTypes DEF Verify
  <2>2. v \in Versions /\ v \in Nat
    BY GateAssumption DEF IInv, TypeOK, Call
  <2>3. <<t.binding, NameOf[t.consumer], v>> \in invalidated
    BY DEF IInv, CallSound
  <2>4. v <= MinimumVersion(t)
    BY <2>1, <2>2, <2>3 DEF IInv, MinimumIsHighest, MinimumVersion
  <2>5. ~(MinimumVersion(t) > 0 /\ t.version < MinimumVersion(t))
    BY DEF Verify, Revoked
  <2>6. QED
    BY <2>1, <2>2, <2>4, <2>5
<1>3. StepOf([call EXCEPT !.step = "verified"])
  BY DEF IInv, TypeOK, Call, StepOf
<1>4. QED
  BY <1>1, <1>2, <1>3, AdvanceKeeps DEF Verify, Steps

LEMMA DenyKeeps ==
    ASSUME IInv, NEW call \in inflight, Deny(call) PROVE IInv'
<1>1. TablesSound' /\ Grown
  BY TablesOfInvariant, TablesStay DEF Deny
<1>2. ~Stale(call) /\ ~Entitled(call.req)
  BY AdmitsTheEntitled DEF Deny, IInv, TypeOK, Call, CallSound
<1> DEFINE result == IF Unnamed(call.req) THEN "invalid" ELSE "denied"
<1>3. /\ result \in {"invalid", "denied"}
      /\ result = "invalid" => Unnamed(call.req)
  OBVIOUS
<1>4. Reply(call, result, {}) /\ result \in Results
  BY <1>3 DEF Deny, Results
<1> HIDE DEF result
<1>5. AnswerSound([call |-> call, result |-> result, rows |-> {}])
  BY <1>2, <1>3 DEF AnswerSound
<1>6. QED
  BY <1>1, <1>4, <1>5, ReplyKeeps

LEMMA FailKeeps ==
    ASSUME IInv, NEW call \in inflight, Fail(call) PROVE IInv'
<1>1. TablesSound' /\ Grown
  BY TablesOfInvariant, TablesStay DEF Fail
<1>2. used' \subseteq Requests /\ answers' = answers /\ inflight' \subseteq inflight
  BY DEF Fail, IInv, TypeOK
<1>3. QED
  BY <1>1, <1>2, StepKeeps

\* A step that leaves the tables alone and answers no profile reader "ok".
LEMMA PlainReplyKeeps ==
    ASSUME IInv, NEW call \in inflight, UNCHANGED tables,
           NEW result \in Results \ {"unauthenticated", "revoked", "invalid", "denied"},
           NEW rows, rows \subseteq ProfileRow, Reply(call, result, rows),
           ~Stale(call), Entitled(call.req),
           call.req.op \notin ProfileReaders \/ result # "ok"
    PROVE  IInv'
<1>1. TablesSound' /\ Grown
  BY TablesOfInvariant, TablesStay
<1>2. AnswerSound([call |-> call, result |-> result, rows |-> rows])
  BY PlainAnswer
<1>3. QED
  BY <1>1, <1>2, ReplyKeeps

\* One that advances an RPC, but not to the issue of an authkey.
LEMMA PlainAdvanceKeeps ==
    ASSUME IInv, NEW call \in inflight, UNCHANGED tables,
           NEW step \in Steps \ {"issue"}, Advance(call, step),
           ~Stale(call), Entitled(call.req),
           StepOf([call EXCEPT !.step = step])
    PROVE  IInv'
<1>1. TablesSound' /\ Grown
  BY TablesOfInvariant, TablesStay
<1>2. QED
  BY <1>1, AdvanceKeeps

LEMMA UseCredentialKeeps ==
    ASSUME IInv, NEW call \in inflight, UseCredential(call) PROVE IInv'
<1>1. ~Stale(call) /\ Entitled(call.req)
  BY ActingCall DEF UseCredential, Admitted
<1>2. call.req.op \notin ProfileReaders /\ UNCHANGED tables
  BY DEF UseCredential, Admitted, Readers, ProfileReaders
<1>3. PICK result \in {"ok", "notfound"} : Reply(call, result, {})
  BY DEF UseCredential
<1>4. QED
  BY <1>1, <1>2, <1>3, PlainReplyKeeps DEF Results

LEMMA RevalidateKeeps ==
    ASSUME IInv, NEW call \in inflight, Revalidate(call) PROVE IInv'
<1>1. ~Stale(call) /\ Entitled(call.req)
  BY ActingCall DEF Revalidate, Admitted
<1>2. UNCHANGED tables /\ call.req.op \in Revalidates
  BY DEF Revalidate, Admitted
<1>3. CASE Reply(call, "notfound", {})
  BY <1>1, <1>2, <1>3, PlainReplyKeeps DEF Results
<1>4. CASE Advance(call, "save")
  <2>1. StepOf([call EXCEPT !.step = "save"])
    BY <1>2 DEF IInv, TypeOK, Call, StepOf
  <2>2. QED
    BY <1>1, <1>2, <1>4, <2>1, PlainAdvanceKeeps DEF Steps
<1>5. QED
  BY <1>3, <1>4 DEF Revalidate

LEMMA ReadSummaryKeeps ==
    ASSUME IInv, NEW call \in inflight, ReadSummary(call) PROVE IInv'
<1>1. ~Stale(call) /\ Entitled(call.req)
  BY ActingCall DEF ReadSummary, Admitted
<1>2. call.req.op \notin ProfileReaders /\ UNCHANGED tables
  BY DEF ReadSummary, Admitted, Summaries, ProfileReaders
<1>3. PICK result \in {"ok", "notfound", "mismatch"} : Reply(call, result, {})
  BY DEF ReadSummary, Found
<1>4. QED
  BY <1>1, <1>2, <1>3, PlainReplyKeeps DEF Results

\* A row a confined ticket sees was inserted as its profile, is there, and so
\* was never deleted.
LEMMA MineIsBorn ==
    ASSUME IInv, NEW call \in inflight, NEW p \in profiles,
           Mine(call.req.ticket, p), call.req.ticket.profile # 0
    PROVE  /\ call.req.ticket.profile \notin call.gone
           /\ \E q \in born : /\ q.id = call.req.ticket.profile
                              /\ q.binding = call.req.ticket.binding
                              /\ q.ident = p.ident
<1>1. p.id = call.req.ticket.profile /\ p.binding = call.req.ticket.binding
  BY DEF Mine
<1>2. \A i \in call.gone : \A r \in profiles : r.id # i
  BY DEF IInv, CallSound
<1>3. \E q \in born : q.id = p.id /\ q.binding = p.binding /\ q.ident = p.ident
  BY DEF IInv, Identified
<1>4. QED
  BY <1>1, <1>2, <1>3

LEMMA ReadProfilesKeeps ==
    ASSUME IInv, NEW call \in inflight, ReadProfiles(call) PROVE IInv'
<1> DEFINE t == call.req.ticket
           seen == ScopedProfiles(t, call.req.key)
           shown == IF call.req.op = "ListProfiles" THEN seen ELSE Primary(seen)
<1>1. ~Stale(call) /\ Entitled(call.req)
  BY ActingCall DEF ReadProfiles, Admitted
<1>2. /\ UNCHANGED tables
      /\ call.req.op \in {"ListProfiles", "GetPrimaryProfile"}
      /\ IF t.profile # 0 /\ seen = {} THEN Reply(call, "foreign", {})
                                      ELSE Reply(call, "ok", shown)
  BY DEF ReadProfiles, Admitted
<1>3. CASE t.profile # 0 /\ seen = {}
  BY <1>1, <1>2, <1>3, PlainReplyKeeps DEF Results
<1>4. CASE ~(t.profile # 0 /\ seen = {})
  <2>1. shown \subseteq seen
    BY DEF Primary, First
  <2>2. /\ seen \subseteq profiles
        /\ \A p \in seen : Mine(t, p)
    BY DEF ScopedProfiles
  <2> HIDE DEF shown, seen
  <2>3. AnswerSound([call |-> call, result |-> "ok", rows |-> shown])
    <3>1. SUFFICES ASSUME t.profile # 0
                   PROVE  /\ t.profile \notin call.gone
                          /\ \E p \in born :
                                /\ p.id = t.profile
                                /\ p.binding = t.binding
                                /\ \A q \in shown :
                                      q.id = t.profile /\ q.ident = p.ident
      BY <1>1, <1>2 DEF AnswerSound
    <3>2. PICK p \in seen : TRUE
      BY <1>4, <3>1
    <3>3. PICK r \in born : /\ t.profile \notin call.gone
                            /\ r.id = t.profile /\ r.binding = t.binding
      BY <2>2, <3>1, <3>2, MineIsBorn
    <3>4. ASSUME NEW q \in shown PROVE q.id = t.profile /\ q.ident = r.ident
      <4>1. q \in profiles /\ Mine(t, q) /\ q.id = t.profile
        BY <2>1, <2>2, <3>1 DEF Mine
      <4>2. PICK s \in born : s.id = t.profile /\ s.ident = q.ident
        BY <3>1, <4>1, MineIsBorn
      <4>3. s = r
        BY <3>3, <4>2 DEF IInv, Identified
      <4>4. QED
        BY <4>1, <4>2, <4>3
    <3>5. QED
      BY <3>3, <3>4
  <2>4. shown \subseteq ProfileRow
    BY <2>1, <2>2 DEF IInv, TypeOK
  <2>5. Reply(call, "ok", shown)
    BY <1>2, <1>4
  <2>6. TablesSound' /\ Grown
    BY <1>2, TablesOfInvariant, TablesStay
  <2>7. QED
    BY <2>3, <2>4, <2>5, <2>6, ReplyKeeps DEF Results
<1>5. QED
  BY <1>3, <1>4

LEMMA GetAuthKeyKeeps ==
    ASSUME IInv, NEW call \in inflight, GetAuthKey(call) PROVE IInv'
<1> DEFINE t == call.req.ticket
<1>1. ~Stale(call) /\ Entitled(call.req)
  BY ActingCall DEF GetAuthKey, Admitted
<1>2. UNCHANGED tables /\ TablesSound' /\ Grown
  BY TablesOfInvariant, TablesStay DEF GetAuthKey
<1>3. CASE Reply(call, "notfound", {}) \/ Reply(call, "foreign", {})
  BY <1>1, <1>2, <1>3, PlainReplyKeeps DEF Results
<1>4. CASE \E p \in First(OfPlayer(call.req.key, call.req.arg)) :
              Mine(t, p) /\ Advance(call, "issue")
  <2>1. PICK p \in First(OfPlayer(call.req.key, call.req.arg)) :
            Mine(t, p) /\ Advance(call, "issue")
    BY <1>4
  <2>2. p \in profiles /\ PlayerOf[p.ident] = call.req.arg
    BY DEF First, OfPlayer
  <2>3. t.profile # 0 => t.profile \notin call.gone /\ Owns(t, call.req.arg)
    BY <2>1, <2>2, MineIsBorn DEF Owns
  <2>4. StepOf([call EXCEPT !.step = "issue"])
    BY DEF IInv, TypeOK, Call, StepOf, GetAuthKey, Admitted
  <2>5. QED
    BY <1>1, <1>2, <2>1, <2>3, <2>4, AdvanceKeeps DEF Steps
<1>5. QED
  BY <1>3, <1>4 DEF GetAuthKey

LEMMA IssueKeeps ==
    ASSUME IInv, NEW call \in inflight, IssueAuthKey(call) PROVE IInv'
<1> DEFINE t == call.req.ticket
<1>1. ~Stale(call) /\ Entitled(call.req)
  BY ActingCall DEF IssueAuthKey
<1>2. UNCHANGED tables /\ TablesSound' /\ Grown
  BY TablesOfInvariant, TablesStay DEF IssueAuthKey
<1>3. /\ call.req.op = "GetAuthKey"
      /\ t.profile # 0 => t.profile \notin call.gone /\ Owns(t, call.req.arg)
  BY DEF IInv, CallSound, StepOf, IssueAuthKey
<1>4. PICK result \in {"ok", "notfound"} : Reply(call, result, {})
  BY DEF IssueAuthKey
<1>5. AnswerSound([call |-> call, result |-> result, rows |-> {}])
  BY <1>1, <1>3, <1>4 DEF AnswerSound, Owns
<1>6. QED
  BY <1>2, <1>4, <1>5, ReplyKeeps DEF Results

LEMMA ConfirmKeeps ==
    ASSUME IInv, NEW call \in inflight, Confirm(call) PROVE IInv'
<1>1. ~Stale(call) /\ Entitled(call.req)
  BY ActingCall DEF Confirm, Admitted
<1>2. UNCHANGED tables
  BY DEF Confirm
<1>3. CASE Reply(call, "notfound", {})
  BY <1>1, <1>2, <1>3, PlainReplyKeeps DEF Results
<1>4. CASE Advance(call, "set")
  <2>1. StepOf([call EXCEPT !.step = "set"])
    BY DEF IInv, TypeOK, Call, StepOf, Confirm, Admitted
  <2>2. QED
    BY <1>1, <1>2, <1>4, <2>1, PlainAdvanceKeeps DEF Steps
<1>5. QED
  BY <1>3, <1>4 DEF Confirm

\* The actions of a call past its checks that write, and answer.
LEMMA WriterAnswers ==
    ASSUME IInv, NEW call \in inflight, TablesSound', Grown,
           NEW result \in {"ok", "notfound", "conflict"},
           Reply(call, result, {}), ~Stale(call), Entitled(call.req),
           call.req.op \notin ProfileReaders
    PROVE  IInv'
<1>1. AnswerSound([call |-> call, result |-> result, rows |-> {}])
  BY PlainAnswer
<1>2. result \in Results /\ {} \subseteq ProfileRow
  BY DEF Results
<1>3. QED
  BY <1>1, <1>2, ReplyKeeps

LEMMA SetDefaultKeeps ==
    ASSUME IInv, NEW call \in inflight, SetDefault(call) PROVE IInv'
<1>1. ~Stale(call) /\ Entitled(call.req)
  BY ActingCall DEF SetDefault
<1>2. TablesSound' /\ Grown
  BY TablesOfInvariant, SetDefaultTables DEF IInv, TypeOK
<1>3. call.req.op \notin ProfileReaders
  BY DEF IInv, CallSound, StepOf, SetDefault, ProfileReaders
<1>4. PICK result \in {"ok", "notfound", "conflict"} : Reply(call, result, {})
  BY DEF SetDefault
<1>5. QED
  BY <1>1, <1>2, <1>3, <1>4, WriterAnswers

\* The account a revalidation saves is that of its own platform account id.
LEMMA SavedKey ==
    ASSUME IInv, NEW call \in inflight, Save(call)
    PROVE  /\ ~Stale(call) /\ Entitled(call.req)
           /\ call.req.op \in Revalidates /\ call.req.op \notin ProfileReaders
           /\ KeyOf(call.req) \in Keys
           /\ KeyOf(call.req).binding = call.req.ticket.binding
<1>1. ~Stale(call) /\ Entitled(call.req)
  BY ActingCall DEF Save
<1>2. call.req.op \in Revalidates
  BY DEF IInv, CallSound, StepOf, Save
<1>3. QED
  BY <1>1, <1>2 DEF Entitled, Binds, Revalidates, ProfileReaders

LEMMA SaveTables ==
    ASSUME TablesSound, NEW call \in Call, KeyOf(call.req) \in Keys, Save(call)
    PROVE  TablesSound' /\ Grown
<1>1. KeyOf(call.req).account \in Accounts
  BY DEF Keys
<1>2. UNCHANGED <<minimums, profiles, lastId, invalidated, born>>
  BY DEF Save
<1>3. accounts' \in [Bindings -> Accounts \cup {None}]
  BY <1>1 DEF Save, AccountsAfter, TablesSound, TablesTyped
<1>4. TablesTyped'
  BY <1>2, <1>3 DEF TablesSound, TablesTyped
<1>5. MinimumIsHighest'
  BY <1>2 DEF TablesSound, MinimumIsHighest
<1>6. Identified'
  BY <1>2 DEF TablesSound, Identified
<1>7. Grown
  BY <1>2 DEF TablesSound, TablesTyped, Grown
<1>8. QED
  BY <1>4, <1>5, <1>6, <1>7 DEF TablesSound

LEMMA SaveKeeps ==
    ASSUME IInv, NEW call \in inflight, Save(call) PROVE IInv'
<1>1. TablesSound' /\ Grown
  BY TablesOfInvariant, SavedKey, SaveTables DEF IInv, TypeOK
<1>2. PICK result \in {"ok", "conflict"} : Reply(call, result, {})
  BY DEF Save
<1>3. QED
  BY <1>1, <1>2, SavedKey, WriterAnswers

LEMMA RollBackKeeps ==
    ASSUME IInv, NEW call \in inflight, RollBack(call), call.req.op \in Puts,
           ~Stale(call), Entitled(call.req)
    PROVE  IInv'
<1>1. /\ UNCHANGED tables /\ Reply(call, "conflict", {})
      /\ call.req.op \notin ProfileReaders
  BY DEF RollBack, Puts, ProfileReaders
<1>2. QED
  BY <1>1, PlainReplyKeeps DEF Results

LEMMA BindKeeps ==
    ASSUME IInv, NEW call \in inflight, Bind(call) PROVE IInv'
<1>1. ~Stale(call) /\ Entitled(call.req)
  BY ActingCall DEF Bind, Admitted
<1>2. call.req.op \in Puts /\ call.req.op \notin ProfileReaders
  BY DEF Bind, Admitted, Puts, ProfileReaders
<1>3. CASE RollBack(call)
  BY <1>1, <1>2, <1>3, RollBackKeeps
<1>4. CASE Transact(call, BoundProfiles(call))
           /\ (Reply(call, "ok", {}) \/ Advance(call, "summary"))
  <2>1. TablesSound' /\ Grown
    BY <1>2, <1>4, TablesOfInvariant, TransactTables DEF IInv, TypeOK
  <2>2. StepOf([call EXCEPT !.step = "summary"])
    BY <1>2 DEF IInv, TypeOK, Call, StepOf
  <2>3. CASE Reply(call, "ok", {})
    BY <1>1, <1>2, <2>1, <2>3, WriterAnswers
  <2>4. CASE Advance(call, "summary")
    BY <1>1, <2>1, <2>2, <2>4, AdvanceKeeps DEF Steps
  <2>5. QED
    BY <1>4, <2>3, <2>4
<1>5. QED
  BY <1>3, <1>4 DEF Bind

LEMMA UpdateKeeps ==
    ASSUME IInv, NEW call \in inflight, Update(call) PROVE IInv'
<1>1. ~Stale(call) /\ Entitled(call.req)
  BY ActingCall DEF Update, Admitted
<1>2. /\ UNCHANGED tables /\ call.req.op \in {"Update", "PutCredential"}
      /\ call.req.op \notin ProfileReaders
  BY DEF Update, Admitted, ProfileReaders
<1>3. CASE Reply(call, "notfound", {}) \/ Reply(call, "mismatch", {})
  BY <1>1, <1>2, <1>3, PlainReplyKeeps DEF Results
<1>4. CASE Advance(call, "commit")
  <2>1. StepOf([call EXCEPT !.step = "commit"])
    BY <1>2 DEF IInv, TypeOK, Call, StepOf
  <2>2. QED
    BY <1>1, <1>2, <1>4, <2>1, PlainAdvanceKeeps DEF Steps
<1>5. QED
  BY <1>3, <1>4 DEF Update

LEMMA CommitKeeps ==
    ASSUME IInv, NEW call \in inflight, CommitUpdate(call) PROVE IInv'
<1> DEFINE rows == Pruned(call.req.ticket.binding, call.req.arg,
                          BoundProfiles(call))
<1>1. ~Stale(call) /\ Entitled(call.req)
  BY ActingCall DEF CommitUpdate
<1>2. call.req.op \in Puts
  BY DEF IInv, CallSound, StepOf, CommitUpdate, Puts
<1>3. CASE RollBack(call)
  BY <1>1, <1>2, <1>3, RollBackKeeps
<1>4. CASE Transact(call, rows) /\ Advance(call, "summary")
  <2>1. rows \subseteq BoundProfiles(call)
    BY DEF Pruned
  <2>2. TablesSound' /\ Grown
    BY <1>2, <1>4, <2>1, TablesOfInvariant, TransactTables DEF IInv, TypeOK
  <2>3. StepOf([call EXCEPT !.step = "summary"])
    BY <1>2 DEF IInv, TypeOK, Call, StepOf
  <2>4. QED
    BY <1>1, <1>4, <2>2, <2>3, AdvanceKeeps DEF Steps
<1>5. QED
  BY <1>3, <1>4 DEF CommitUpdate

LEMMA AnswerSummaryKeeps ==
    ASSUME IInv, NEW call \in inflight, AnswerSummary(call) PROVE IInv'
<1>1. ~Stale(call) /\ Entitled(call.req)
  BY ActingCall DEF AnswerSummary
<1>2. UNCHANGED tables /\ call.req.op \notin ProfileReaders
  BY DEF IInv, CallSound, StepOf, AnswerSummary, ProfileReaders, Puts
<1>3. PICK result \in {"ok", "notfound", "mismatch"} : Reply(call, result, {})
  BY DEF AnswerSummary, Found
<1>4. QED
  BY <1>1, <1>2, <1>3, PlainReplyKeeps DEF Results

LEMMA DeleteKeeps ==
    ASSUME IInv, NEW call \in inflight, Delete(call) PROVE IInv'
<1>1. ~Stale(call) /\ Entitled(call.req)
  BY ActingCall DEF Delete, Admitted
<1>2. /\ UNCHANGED tables /\ call.req.op \in Deletes
      /\ call.req.op \notin ProfileReaders
  BY DEF Delete, Admitted, ProfileReaders, Deletes
<1>3. CASE Advance(call, "wipe")
  <2>1. StepOf([call EXCEPT !.step = "wipe"])
    BY <1>2 DEF IInv, TypeOK, Call, StepOf
  <2>2. QED
    BY <1>1, <1>2, <1>3, <2>1, PlainAdvanceKeeps DEF Steps
<1>4. CASE \E result \in {"notfound", "mismatch", "ok"} : Reply(call, result, {})
  BY <1>1, <1>2, <1>4, PlainReplyKeeps DEF Results
<1>5. QED
  BY <1>3, <1>4 DEF Delete, Found

LEMMA WipeKeeps ==
    ASSUME IInv, NEW call \in inflight, Wipe(call) PROVE IInv'
<1>1. ~Stale(call) /\ Entitled(call.req)
  BY ActingCall DEF Wipe
<1>2. TablesSound' /\ Grown
  BY TablesOfInvariant, WipeTables DEF IInv, TypeOK
<1>3. call.req.op \notin ProfileReaders
  BY DEF IInv, CallSound, StepOf, Wipe, ProfileReaders, Deletes
<1>4. QED
  BY <1>1, <1>2, <1>3, WriterAnswers DEF Wipe

LEMMA InvalidateKeeps ==
    ASSUME IInv, NEW call \in inflight, Invalidate(call) PROVE IInv'
<1>1. ~Stale(call) /\ Entitled(call.req)
  BY ActingCall DEF Invalidate, Admitted
<1>2. TablesSound' /\ Grown
  BY TablesOfInvariant, InvalidateTables DEF IInv, TypeOK
<1>3. call.req.op \notin ProfileReaders
  BY DEF Invalidate, Admitted, ProfileReaders
<1>4. QED
  BY <1>1, <1>2, <1>3, WriterAnswers DEF Invalidate

LEMMA NextKeeps == IInv /\ [Next]_vars => IInv'
<1> SUFFICES ASSUME IInv, [Next]_vars PROVE IInv'
  OBVIOUS
<1>1. CASE \E r \in Requests \ used : \E req \in Offers : Arrive(r, req)
  BY <1>1, ArriveKeeps
<1>2. CASE \E call \in inflight : Step(call)
  <2> PICK call \in inflight : Step(call)
    BY <1>2
  <2>1. CASE Reject(call) \/ RefuseRevoked(call) \/ Verify(call) \/ Deny(call)
             \/ Fail(call)
    BY <2>1, RejectKeeps, RefuseKeeps, VerifyKeeps, DenyKeeps, FailKeeps
  <2>2. CASE UseCredential(call) \/ Revalidate(call) \/ ReadSummary(call)
             \/ ReadProfiles(call) \/ GetAuthKey(call) \/ IssueAuthKey(call) \/ AnswerSummary(call)
    BY <2>2, UseCredentialKeeps, RevalidateKeeps, ReadSummaryKeeps, ReadProfilesKeeps,
       GetAuthKeyKeeps, IssueKeeps, AnswerSummaryKeeps
  <2>3. CASE Confirm(call) \/ SetDefault(call) \/ Bind(call) \/ Update(call)
             \/ CommitUpdate(call)
    BY <2>3, ConfirmKeeps, SetDefaultKeeps, BindKeeps, UpdateKeeps, CommitKeeps
  <2>4. CASE Save(call) \/ Delete(call) \/ Wipe(call) \/ Invalidate(call)
    BY <2>4, SaveKeeps, DeleteKeeps, WipeKeeps, InvalidateKeeps
  <2>5. QED
    BY <2>1, <2>2, <2>3, <2>4 DEF Step
<1>3. CASE UNCHANGED vars
  <2>1. UNCHANGED tables /\ UNCHANGED <<used, inflight, answers>>
    BY <1>3 DEF vars, tables
  <2>2. TablesSound' /\ Grown /\ used' \subseteq Requests
    BY <2>1, TablesOfInvariant, TablesStay DEF IInv, TypeOK
  <2>3. QED
    BY <2>1, <2>2, StepKeeps
<1>4. QED
  BY <1>1, <1>2, <1>3 DEF Next

-----------------------------------------------------------------------------
(* Theorems.                                                               *)

\* What was established of every running RPC, and answered to every one
\* before, holds for as long as the service runs: checks made before an await
\* of the database are still good after it.
THEOREM InvariantHolds == Spec => []IInv
<1>1. Init => IInv
  BY InitHolds
<1>2. IInv /\ [Next]_vars => IInv'
  BY NextKeeps
<1>3. QED
  BY <1>1, <1>2, PTL DEF Spec

\* Rows, counters, calls and answers keep their types: no handler stores what
\* another cannot read.
THEOREM TypeCorrect == Spec => []TypeOK
<1>1. IInv => TypeOK
  BY DEF IInv
<1>2. QED
  BY <1>1, InvariantHolds, PTL

\* The upsert of grant_invalidation_repo.go:33 keeps the highest version
\* asked for, whatever the order of the invalidations.
THEOREM MinimumHighest == Spec => []MinimumIsHighest
<1>1. IInv => MinimumIsHighest
  BY DEF IInv
<1>2. QED
  BY <1>1, InvariantHolds, PTL

\* An RPC that arrives after its grant was taken back is refused by
\* VerifyContext (ticket_verifier.go:118), whatever runs in between.
THEOREM RevokedRefused == Spec => []RevokedStaysRefused
<1>1. IInv => RevokedStaysRefused
  BY DEF IInv, CallSound, AnswerSound, RevokedStaysRefused
<1>2. QED
  BY <1>1, InvariantHolds, PTL

\* A consumer is told its grant was taken back only when it was, with a
\* version higher than that of its ticket (ticket_verifier.go:123).
THEOREM RevokedReason == Spec => []RevokedForReason
<1>1. IInv => RevokedForReason
  BY DEF IInv, AnswerSound, RevokedForReason
<1>2. QED
  BY <1>1, InvariantHolds, PTL

\* The handlers of the three services agree on who may do what: an RPC is
\* denied when, and only when, its ticket does not entitle to it.
THEOREM DeniedEntitled == Spec => []DeniedUnlessEntitled
<1>1. \A req : Unnamed(req) => RightOf(req) \in req.ticket.scopes
  BY DEF Unnamed, ScopedGuard, RightOf, Summaries, Deletes, Binds
<1>2. IInv => DeniedUnlessEntitled
  BY <1>1 DEF IInv, AnswerSound, DeniedUnlessEntitled
<1>3. QED
  BY <1>2, InvariantHolds, PTL

\* A ticket confined to a profile is shown that profile, and gets the authkey
\* of its player (RequireProfile), whatever binds, updates and deletes do to
\* the table between the check and the answer.
THEOREM ConfinedOwn == Spec => []ConfinedSeesOwn
<1>1. IInv => ConfinedSeesOwn
  <2> SUFFICES ASSUME IInv, NEW a \in answers,
                      a.call.req.ticket.profile # 0, a.result = "ok"
               PROVE  LET t == a.call.req.ticket
                      IN /\ \A q \in a.rows : q.id = t.profile
                         /\ \E p \in born : p.id = t.profile
                         /\ \A p \in born : p.id = t.profile =>
                              /\ p.binding = t.binding
                              /\ \A q \in a.rows : q.ident = p.ident
                              /\ \/ a.call.req.op # "GetAuthKey"
                                 \/ PlayerOf[p.ident] = a.call.req.arg
    BY DEF ConfinedSeesOwn
  <2>1. PICK r \in born :
            /\ r.id = a.call.req.ticket.profile
            /\ r.binding = a.call.req.ticket.binding
            /\ \A q \in a.rows : /\ q.id = a.call.req.ticket.profile
                                 /\ q.ident = r.ident
            /\ \/ a.call.req.op # "GetAuthKey"
               \/ PlayerOf[r.ident] = a.call.req.arg
    BY DEF IInv, AnswerSound
  <2>2. \A p \in born : p.id = r.id => p = r
    BY DEF IInv, Identified
  <2>3. QED
    BY <2>1, <2>2
<1>2. QED
  BY <1>1, InvariantHolds, PTL

\* A profile id is never used again: once the row a ticket names is deleted
\* (profile_repo.go:150), what arrives later with that ticket gets nothing.
THEOREM DeletedRefused == Spec => []DeletedProfileRefused
<1>1. IInv => DeletedProfileRefused
  BY DEF IInv, AnswerSound, DeletedProfileRefused
<1>2. QED
  BY <1>1, InvariantHolds, PTL

-----------------------------------------------------------------------------
(* Changes are made by those entitled to them.                             *)

\* The actions that write end a step of the call.
LEMMA CallMoves ==
    ASSUME IInv, NEW call \in inflight
    PROVE  /\ \A result, rows : Reply(call, result, rows) => call \notin inflight'
           /\ \A step : step # call.step /\ Advance(call, step)
                            => call \notin inflight'
  BY DEF IInv, TypeOK, Call, Reply, Advance

\* A transaction writes rows of its binding only.
LEMMA TransactChanges ==
    ASSUME IInv, NEW call \in Call, call.req.op \in Puts, NEW rows,
           rows \subseteq BoundProfiles(call), Transact(call, rows),
           BoundProfiles(call) \ rows
               \subseteq {p \in BoundProfiles(call) :
                               p.binding = call.req.ticket.binding},
           NEW d \in Bindings, Changed(d)
    PROVE  call.req.ticket.binding = d
<1> DEFINE b == call.req.ticket.binding
           arg == call.req.arg
<1>1. b \in Bindings /\ arg \in Discovered
  BY OfferTypes DEF Call
<1>2. SUFFICES ASSUME b # d PROVE ~Changed(d)
  OBVIOUS
<1>3. /\ accounts' = AccountsAfter(b, arg.account) /\ profiles' = rows
      /\ minimums' = minimums
  BY DEF Transact
<1>4. accounts'[d] \in {accounts[d], None}
  BY <1>2, <1>3 DEF AccountsAfter
<1>5. \A p \in Inserted(b, arg) : p.binding = b
  BY <1>1, InsertedRows, TablesOfInvariant
<1>6. \A p \in Rewritten(b, arg) :
          p.binding = d => p \in profiles
  <2> SUFFICES ASSUME NEW p \in Rewritten(b, arg), p.binding = d
               PROVE  p \in profiles
    OBVIOUS
  <2>1. PICK q \in Kept(b, arg) :
            \/ p = q
            \/ /\ q.binding = b
               /\ p = [q EXCEPT !.key = BoundKey(b, arg),
                                !.default = q.ident = arg.found[1]]
    BY DEF Rewritten
  <2>2. q \in profiles /\ q \in ProfileRow
    BY DEF Kept, IInv, TypeOK
  <2>3. CASE /\ q.binding = b
             /\ p = [q EXCEPT !.key = BoundKey(b, arg),
                              !.default = q.ident = arg.found[1]]
    <3>1. p.binding = b
      BY <2>2, <2>3 DEF ProfileRow
    <3>2. QED
      BY <1>2, <3>1
  <2>4. QED
    BY <2>1, <2>2, <2>3
<1>7. \A p \in profiles :
          p.binding = d => p \in Kept(b, arg) /\ p \in Rewritten(b, arg)
  <2> SUFFICES ASSUME NEW p \in profiles, p.binding = d
               PROVE  p \in Kept(b, arg) /\ p \in Rewritten(b, arg)
    OBVIOUS
  <2>1. p.key.binding = d
    BY DEF IInv, Identified
  <2>2. p \in Kept(b, arg)
    BY <1>2, <2>1 DEF Kept, BoundKey
  <2>3. QED
    BY <1>2, <2>2 DEF Rewritten
<1>8. BoundProfiles(call) = Rewritten(b, arg) \cup Inserted(b, arg)
  BY DEF BoundProfiles
<1> HIDE DEF b, arg
<1>9. \A p \in rows : p.binding = d => p \in profiles
  BY <1>2, <1>5, <1>6, <1>8
<1>10. \A p \in profiles : p.binding = d => p \in rows
  BY <1>2, <1>7, <1>8 DEF b
<1>11. {p \in profiles : p.binding = d} = {p \in profiles' : p.binding = d}
  BY <1>3, <1>9, <1>10
<1>12. QED
  BY <1>3, <1>4, <1>11 DEF Changed

LEMMA UnchangedTables ==
    ASSUME NEW b \in Bindings, UNCHANGED tables
    PROVE  ~Changed(b)
  BY DEF Changed, tables

\* A step that changes a binding is one of a call of that binding.
LEMMA StepChanges ==
    ASSUME IInv, NEW call \in inflight, Step(call),
           NEW b \in Bindings, Changed(b)
    PROVE  /\ call.req.ticket.binding = b /\ call \notin inflight'
           /\ ~Stale(call) /\ Entitled(call.req)
           /\ call.req.op \notin ProfileReaders
<1>1. ~UNCHANGED tables
  BY UnchangedTables
<1>2. call \in Call /\ CallSound(call)
  BY DEF IInv, TypeOK
<1>3. CASE SetDefault(call)
  <2>1. PICK p \in ToConfirm(call) :
            /\ profiles' = {IF q.binding = p.binding
                            THEN [q EXCEPT !.default = (q.id = p.id)] ELSE q :
                               q \in profiles}
            /\ Reply(call, "ok", {})
    BY <1>1, <1>3 DEF SetDefault, tables
  <2>2. p.binding = call.req.ticket.binding
    BY DEF ToConfirm
  <2>3. UNCHANGED <<minimums, accounts>>
    BY <1>3 DEF SetDefault
  <2>4. call.req.ticket.binding = b
    <3> SUFFICES ASSUME p.binding # b PROVE FALSE
      BY <2>2
    <3>1. \A q \in profiles :
              q.binding = p.binding =>
                  [q EXCEPT !.default = (q.id = p.id)].binding = p.binding
      BY DEF IInv, TypeOK, ProfileRow
    <3>2. \A q \in profiles : q.binding = b => q \in profiles'
      BY <2>1
    <3>3. ASSUME NEW r \in profiles', r.binding = b PROVE r \in profiles
      <4>1. PICK q \in profiles :
                r = IF q.binding = p.binding
                    THEN [q EXCEPT !.default = (q.id = p.id)] ELSE q
        BY <2>1
      <4>2. QED
        BY <3>1, <3>3, <4>1
    <3>4. {q \in profiles : q.binding = b} = {q \in profiles' : q.binding = b}
      BY <3>2, <3>3
    <3>5. QED
      BY <2>3, <3>4 DEF Changed
  <2>5. QED
    BY <1>2, <1>3, <2>1, <2>4, ActingCall, CallMoves
       DEF SetDefault, CallSound, StepOf, ProfileReaders
<1>4. CASE Bind(call)
  <2>1. /\ Transact(call, BoundProfiles(call))
        /\ Reply(call, "ok", {}) \/ Advance(call, "summary")
    BY <1>1, <1>4 DEF Bind, RollBack
  <2>2. call.req.op \in Puts /\ call.step = "verified" /\ Admits(call.req)
    BY <1>4 DEF Bind, Admitted, Puts
  <2>3. call.req.ticket.binding = b
    BY <1>2, <2>1, <2>2, TransactChanges
  <2>4. QED
    BY <2>1, <2>2, <2>3, ActingCall, CallMoves DEF Puts, ProfileReaders
<1>5. CASE CommitUpdate(call)
  <2> DEFINE rows == Pruned(call.req.ticket.binding, call.req.arg,
                            BoundProfiles(call))
  <2>1. Transact(call, rows) /\ Advance(call, "summary")
    BY <1>1, <1>5 DEF CommitUpdate, RollBack
  <2>2. call.req.op \in Puts /\ call.step = "commit"
    BY <1>2, <1>5 DEF CommitUpdate, CallSound, StepOf, Puts
  <2>3. /\ rows \subseteq BoundProfiles(call)
        /\ BoundProfiles(call) \ rows
              \subseteq {p \in BoundProfiles(call) :
                              p.binding = call.req.ticket.binding}
    BY DEF Pruned
  <2> HIDE DEF rows
  <2>4. call.req.ticket.binding = b
    BY <1>2, <2>1, <2>2, <2>3, TransactChanges
  <2>5. QED
    BY <2>1, <2>2, <2>4, ActingCall, CallMoves DEF Puts, ProfileReaders
<1>6. CASE Wipe(call)
  <2>1. call.req.ticket.binding = b
    <3> SUFFICES ASSUME call.req.ticket.binding # b PROVE FALSE
      OBVIOUS
    <3>1. {q \in profiles : q.binding = b} = {q \in profiles' : q.binding = b}
      BY <1>6 DEF Wipe
    <3>2. accounts'[b] = accounts[b] /\ minimums' = minimums
      BY <1>6 DEF Wipe, IInv, TypeOK
    <3>3. QED
      BY <3>1, <3>2 DEF Changed
  <2>2. QED
    BY <1>2, <1>6, <2>1, ActingCall, CallMoves
       DEF Wipe, CallSound, StepOf, Deletes, ProfileReaders
<1>7. CASE Invalidate(call)
  <2>1. call.req.op = "Invalidate" /\ call.step = "verified" /\ Admits(call.req)
    BY <1>7 DEF Invalidate, Admitted
  <2>2. ~Stale(call) /\ Entitled(call.req)
    BY <2>1, ActingCall
  <2>3. call.req.arg.binding = call.req.ticket.binding
    BY <2>1, <2>2 DEF Entitled
  <2>4. call.req.ticket.binding = b
    <3> SUFFICES ASSUME call.req.arg.binding # b PROVE FALSE
      BY <2>3
    <3>1. UNCHANGED <<accounts, profiles>>
      BY <1>7 DEF Invalidate
    <3>2. \A n \in Names : minimums'[<<b, n>>] = minimums[<<b, n>>]
      BY <1>7 DEF Invalidate, Upserted, IInv, TypeOK
    <3>3. QED
      BY <3>1, <3>2 DEF Changed
  <2>5. QED
    BY <1>7, <2>1, <2>2, <2>4, CallMoves DEF Invalidate, ProfileReaders
<1>8. CASE Save(call)
  <2>1. UNCHANGED <<minimums, profiles>>
    BY <1>8 DEF Save
  <2>2. accounts'[b] \notin {accounts[b], None}
    BY <2>1 DEF Changed
  <2>3. accounts' = AccountsAfter(KeyOf(call.req).binding, KeyOf(call.req).account)
        /\ Reply(call, "ok", {})
    BY <1>8, <2>2 DEF Save
  <2>4. KeyOf(call.req).binding = b
    BY <2>2, <2>3 DEF AccountsAfter
  <2>5. QED
    BY <1>8, <2>3, <2>4, SavedKey, CallMoves
<1>9. QED
  BY <1>1, <1>3, <1>4, <1>5, <1>6, <1>7, <1>8
     DEF Step, Reject, RefuseRevoked, Verify, Deny, UseCredential, Revalidate,
         ReadSummary, ReadProfiles, GetAuthKey, IssueAuthKey, Confirm, Update,
         AnswerSummary, Delete, Fail

LEMMA ChangeStep ==
    IInv /\ [Next]_vars =>
        [\A b \in Bindings : Changed(b) =>
            \E call \in inflight \ inflight' :
                /\ call.req.ticket.binding = b
                /\ Entitled(call.req)
                /\ call.req.ticket.profile = 0
                /\ ~Stale(call)]_vars
<1> SUFFICES ASSUME IInv, Next, NEW b \in Bindings, Changed(b)
             PROVE  \E call \in inflight \ inflight' :
                        /\ call.req.ticket.binding = b
                        /\ Entitled(call.req)
                        /\ call.req.ticket.profile = 0
                        /\ ~Stale(call)
  OBVIOUS
<1>1. CASE \E r \in Requests \ used : \E req \in Offers : Arrive(r, req)
  BY <1>1, UnchangedTables DEF Arrive
<1>2. CASE \E call \in inflight : Step(call)
  <2>1. PICK call \in inflight : Step(call)
    BY <1>2
  <2>2. /\ call.req.ticket.binding = b /\ call \notin inflight'
        /\ ~Stale(call) /\ Entitled(call.req)
        /\ call.req.op \notin ProfileReaders
    BY <2>1, StepChanges
  <2>3. call.req.ticket.profile = 0
    BY <2>2 DEF Entitled
  <2>4. QED
    BY <2>2, <2>3
<1>3. QED
  BY <1>1, <1>2 DEF Next

\* No binding's profiles, grants or account change but by a call of that
\* binding whose ticket entitles to it, is not confined to a profile, and was
\* not taken back when it arrived: the checks are made before the await of
\* the database, the change after it, and others run in between.
THEOREM ChangesByEntitled == Spec => ChangesEntitled
<1>1. IInv /\ [Next]_vars =>
          [\A b \in Bindings : Changed(b) =>
              \E call \in inflight \ inflight' :
                  /\ call.req.ticket.binding = b
                  /\ Entitled(call.req)
                  /\ call.req.ticket.profile = 0
                  /\ ~Stale(call)]_vars
  BY ChangeStep
<1>2. QED
  BY <1>1, InvariantHolds, PTL DEF Spec, ChangesEntitled

=============================================================================
