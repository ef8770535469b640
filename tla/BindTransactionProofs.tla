------------------------ MODULE BindTransactionProofs ------------------------
(***************************************************************************)
(* Theorems about BindTransaction, for any number of requests, bindings    *)
(* and rows: a transaction is open only as long as its RPC runs, and the   *)
(* statements of a handler, one by one between those of others, come to    *)
(* the one step that CredentialLifecycle makes of them.                    *)
(*                                                                         *)
(* The sections: transactions that go on and that end (LInv); what the     *)
(* statements of a handler are, and what they have done so far; what stays *)
(* good of a transaction when others write beside it (...Alike,            *)
(* ...Survive); why a row inserted by one lands in the gap of another      *)
(* (...Missed); then the invariant WriteInv of BindTransactionLocks,       *)
(* action by action (...Stays): the calls, the clean-ups, COMMIT, and at   *)
(* length a statement, table by table.                                     *)
(***************************************************************************)
EXTENDS BindTransactionLocks, LifecycleSerialProofs, SequenceTheorems

TxnFields == {"call", "at", "undo", "detached", "credentials", "devices",
              "profiles", "rows", "gaps"}

\* The calls that may have a transaction open.
Opened(call) ==
    \/ call.op \in {"delete", "confirm"}
    \/ call.op \in {"bind", "update"} /\ call.step = "open"

\* A transaction is its call's; what outlives it is a clean-up that holds
\* no lock.
TxnSound(t) ==
    /\ DOMAIN t = TxnFields
    /\ t.detached => t.undo /\ t.rows = {} /\ t.gaps = {}
    /\ ~t.detached => Opened(t.call)

TxnsSound == \A t \in txns : TxnSound(t)

\* No RPC has two transactions.
OneEach ==
    \A t, u \in txns :
        ~t.detached /\ ~u.detached /\ t.call = u.call => t = u

CallsShaped ==
    \A call \in inflight :
        call.op \in {"bind", "update"} => {"op", "step"} \subseteq DOMAIN call

LInv == TxnsSound /\ OneEach /\ CallsShaped /\ LocksHaveCallers

-----------------------------------------------------------------------------
(* Transactions that go on, and transactions that end.                     *)

\* A transaction or clean-up is replaced by a later stage of itself.
LEMMA GoesOn ==
    ASSUME LInv, NEW t \in txns, NEW later, inflight' = inflight,
           txns' = (txns \ {t}) \cup later,
           \A u \in later : /\ TxnSound(u)
                            /\ ~u.detached => ~t.detached /\ u.call = t.call,
           \A u, v \in later : u = v
    PROVE  LInv'
<1>1. TxnsSound'
  BY DEF LInv, TxnsSound
<1>2. OneEach'
  BY DEF LInv, OneEach
<1>3. CallsShaped'
  BY DEF LInv, CallsShaped
<1>4. LocksHaveCallers'
  BY DEF LInv, LocksHaveCallers
<1> QED
  BY <1>1, <1>2, <1>3, <1>4 DEF LInv

\* The same for a single later stage.
LEMMA GoesOnAs ==
    ASSUME LInv, NEW t \in txns, NEW later, inflight' = inflight,
           txns' = (txns \ {t}) \cup {later}, TxnSound(later),
           ~t.detached, ~later.detached, later.call = t.call
    PROVE  LInv'
<1> DEFINE stages == {later}
<1>1. /\ txns' = (txns \ {t}) \cup stages
      /\ \A u \in stages : /\ TxnSound(u)
                           /\ ~u.detached => ~t.detached /\ u.call = t.call
      /\ \A u, v \in stages : u = v
  OBVIOUS
<1> HIDE DEF stages
<1> QED
  BY <1>1, GoesOn

\* A transaction ends with its call, and leaves a clean-up at most.
LEMMA Ends ==
    ASSUME LInv, NEW t \in txns, ~t.detached, NEW left,
           inflight' = inflight \ {t.call},
           txns' = (txns \ {t}) \cup left,
           \A u \in left : TxnSound(u) /\ u.detached
    PROVE  LInv'
<1>1. TxnsSound'
  BY DEF LInv, TxnsSound
<1>2. OneEach'
  BY DEF LInv, OneEach
<1>3. CallsShaped'
  BY DEF LInv, CallsShaped
<1>4. LocksHaveCallers'
  BY DEF LInv, LocksHaveCallers, OneEach
<1> QED
  BY <1>1, <1>2, <1>3, <1>4 DEF LInv

\* The same when it leaves nothing.
LEMMA EndsWhole ==
    ASSUME LInv, NEW t \in txns, ~t.detached,
           inflight' = inflight \ {t.call}, txns' = txns \ {t}
    PROVE  LInv'
<1> DEFINE left == {}
<1>1. /\ txns' = (txns \ {t}) \cup left
      /\ \A u \in left : TxnSound(u) /\ u.detached
  OBVIOUS
<1> HIDE DEF left
<1> QED
  BY <1>1, Ends

\* A call without a transaction ends.
LEMMA EndsAlone ==
    ASSUME LInv, NEW call \in inflight, ~Opened(call),
           inflight' = inflight \ {call}, txns' = txns
    PROVE  LInv'
<1>1. TxnsSound' /\ OneEach'
  BY DEF LInv, TxnsSound, OneEach
<1>2. CallsShaped'
  BY DEF LInv, CallsShaped
<1>3. LocksHaveCallers'
  BY DEF LInv, LocksHaveCallers, TxnsSound, TxnSound
<1> QED
  BY <1>1, <1>2, <1>3 DEF LInv

\* A transaction that begins is sound.
LEMMA StartedSound ==
    ASSUME NEW call, Opened(call)
    PROVE  /\ TxnSound(Started(call))
           /\ ~Started(call).detached
           /\ Started(call).call = call
BY DEF Started, TxnSound, TxnFields

\* A transaction begins for a call that had none.
LEMMA Begins ==
    ASSUME LInv, NEW new, \A c \in new : Opened(c) /\ c \in inflight',
           \A t \in txns : t.detached \/ (t.call \in inflight' /\ t.call \notin new),
           txns' = txns \cup {Started(c) : c \in new},
           CallsShaped'
    PROVE  LInv'
<1>0. \A c \in new : /\ TxnSound(Started(c)) /\ ~Started(c).detached
                     /\ Started(c).call = c
  BY StartedSound
<1>1. TxnsSound'
  BY <1>0 DEF LInv, TxnsSound
<1>2. OneEach'
  BY <1>0 DEF LInv, OneEach
<1>3. LocksHaveCallers'
  BY <1>0 DEF LInv, LocksHaveCallers
<1> QED
  BY <1>1, <1>2, <1>3 DEF LInv

\* A clean-up on its own holds nothing.
LEMMA CleanUpSound ==
    ASSUME NEW call, NEW i, NEW u \in CleanUpFrom(call, i)
    PROVE  TxnSound(u) /\ u.detached
BY DEF CleanUpFrom, Started, TxnSound, TxnFields

LEMMA CleanUpOne ==
    ASSUME NEW call, NEW i
    PROVE  \A u, v \in CleanUpFrom(call, i) : u = v
BY DEF CleanUpFrom

\* Nothing waits for a clean-up on its own: it is in no deadlock.
LEMMA NoDetachedVictim ==
    ASSUME LInv, NEW t \in txns, Deadlocked(t)
    PROVE  ~t.detached
<1> SUFFICES ASSUME t.detached PROVE FALSE
  OBVIOUS
<1>1. t.rows = {} /\ t.gaps = {}
  BY DEF LInv, TxnsSound, TxnSound
<1>2. \A rows, inserts : t \notin Holders(rows, inserts)
  BY <1>1 DEF Holders
<1>3. \A u : t \notin WaitsFor(u)
  BY <1>2 DEF WaitsFor
<1>4. PICK ring \in SUBSET txns :
        /\ t \in ring /\ ring # {t}
        /\ \A part \in SUBSET ring \ {{}, ring} :
             \E u \in part : WaitsFor(u) \cap (ring \ part) # {}
  BY DEF Deadlocked
<1> DEFINE rest == ring \ {t}
<1>5. rest \in SUBSET ring \ {{}, ring} /\ ring \ rest = {t}
  BY <1>4
<1> QED
  BY <1>3, <1>4, <1>5

-----------------------------------------------------------------------------
(* Each step.                                                              *)

LEMMA BeginKeeps ==
    ASSUME LInv, Begin, UNCHANGED txns
    PROVE  LInv'
<1>1. inflight \subseteq inflight'
  BY DEF Begin, Bind, Update, Revalidate, Delete, UpsertDevice, Confirm, Start
<1>2. CallsShaped'
  <2> SUFFICES ASSUME NEW call \in inflight', call \notin inflight,
                      call.op \in {"bind", "update"}
               PROVE  {"op", "step"} \subseteq DOMAIN call
    BY DEF LInv, CallsShaped
  <2> QED
    BY DEF Begin, Bind, Update, Revalidate, Delete, UpsertDevice, Confirm, Start
<1> QED
  BY <1>1, <1>2 DEF LInv, TxnsSound, OneEach, LocksHaveCallers

\* The call that opens had no transaction: it was not open.
LEMMA OpenKeeps ==
    ASSUME LInv, NEW call \in inflight, Open(call)
    PROVE  LInv'
<1> DEFINE opened == [call EXCEPT
              !.step = "open",
              !.creds = {c \in credentials : c.binding = call.binding},
              !.rows = {p \in profiles : p.binding = call.binding}]
           new == inflight' \ inflight
<1>1. call.op \in {"bind", "update"} /\ call.step = "prepared"
  BY DEF Open, TxnOpen
<1>2. inflight' = (inflight \ {call}) \cup {opened}
  BY DEF Open, TxnOpen
<1>3. {"op", "step"} \subseteq DOMAIN call
  BY <1>1 DEF LInv, CallsShaped
<1>4. opened.op = call.op /\ opened.step = "open" /\ DOMAIN opened = DOMAIN call
  BY <1>3
<1> HIDE DEF opened
<1>5. \A c \in new : Opened(c) /\ c \in inflight'
  BY <1>1, <1>2, <1>4 DEF Opened
<1>6. \A t \in txns : t.detached \/ (t.call \in inflight' /\ t.call \notin new)
  BY <1>1, <1>2 DEF LInv, TxnsSound, TxnSound, Opened, LocksHaveCallers
<1>7. CallsShaped'
  BY <1>2, <1>3, <1>4 DEF LInv, CallsShaped
<1>8. txns' = txns \cup {Started(c) : c \in new}
  BY DEF Open
<1> HIDE DEF new
<1> QED
  BY <1>5, <1>6, <1>7, <1>8, Begins

LEMMA EnterKeeps ==
    ASSUME LInv, NEW call \in inflight, Enter(call)
    PROVE  LInv'
<1>1. inflight' = inflight
  BY DEF Enter, vars
<1>2. Opened(call) /\ \A t \in txns : t.call # call
  BY DEF Enter, Opened
<1>3. txns' = txns \cup {Started(c) : c \in {call}}
  BY DEF Enter
<1>4. CallsShaped'
  BY <1>1 DEF LInv, CallsShaped
<1>5. \A t \in txns : t.detached \/ (t.call \in inflight' /\ t.call \notin {call})
  BY <1>1, <1>2 DEF LInv, LocksHaveCallers
<1> QED
  BY <1>1, <1>2, <1>3, <1>4, <1>5, Begins

LEMMA AloneKeeps ==
    ASSUME LInv, NEW call \in inflight, SaveAlone(call) \/ SaveRejected(call)
    PROVE  LInv'
<1>1. call.op \in {"validate", "refresh", "device"}
  BY DEF SaveAlone, SaveRejected, RevalidateSave, DeviceSave
<1>2. inflight' = inflight \ {call} /\ txns' = txns
  BY DEF SaveAlone, SaveRejected, RevalidateSave, DeviceSave, Finish, Fail
<1> QED
  BY <1>1, <1>2, EndsAlone DEF Opened

LEMMA AbandonKeeps ==
    ASSUME LInv, NEW call \in inflight, Abandon(call)
    PROVE  LInv'
BY DEF Abandon, Fail, LInv, TxnsSound, OneEach, CallsShaped, LocksHaveCallers

LEMMA StatementKeeps ==
    ASSUME LInv, NEW t \in txns, Statement(t)
    PROVE  LInv'
<1> DEFINE later == [t EXCEPT
             !.at = @ + 1,
             !.rows = @ \cup RowsLocked(t),
             !.gaps = @ \cup GapsLocked(t),
             !.credentials = WorkOf(t, @, CredentialsNow(t), CredentialsNext(t)),
             !.devices = WorkOf(t, @, DevicesNow(t), DevicesNext(t)),
             !.profiles = WorkOf(t, @, ProfilesNow(t), ProfilesNext(t))]
<1>1. ~t.detached /\ DOMAIN t = TxnFields /\ Opened(t.call)
  BY DEF Statement, LInv, TxnsSound, TxnSound
<1>2. /\ DOMAIN later = TxnFields /\ later.call = t.call
      /\ later.detached = t.detached
  BY <1>1 DEF TxnFields
<1>3. txns' = (txns \ {t}) \cup {later} /\ inflight' = inflight
  BY DEF Statement, vars
<1> HIDE DEF later
<1>4. TxnSound(later) /\ ~later.detached
  BY <1>1, <1>2 DEF TxnSound
<1> QED
  BY <1>1, <1>2, <1>3, <1>4, GoesOnAs

\* An error: on to the clean-up, or to the end.
LEMMA ErrorKeeps ==
    ASSUME LInv, NEW t \in txns, Error(t)
    PROVE  LInv'
<1>1. ~t.detached /\ DOMAIN t = TxnFields /\ Opened(t.call)
  BY DEF Error, LInv, TxnsSound, TxnSound
<1>2. CASE Armed(t)
  <2> DEFINE later == [t EXCEPT !.undo = TRUE, !.at = 1]
  <2>1. /\ DOMAIN later = TxnFields /\ later.call = t.call
        /\ later.detached = t.detached
    BY <1>1 DEF TxnFields
  <2>2. txns' = (txns \ {t}) \cup {later} /\ inflight' = inflight
    BY <1>2 DEF Error, vars
  <2> HIDE DEF later
  <2>3. TxnSound(later) /\ ~later.detached
    BY <1>1, <2>1 DEF TxnSound
  <2> QED
    BY <1>1, <2>1, <2>2, <2>3, GoesOnAs
<1>3. CASE ~Armed(t)
  <2>1. inflight' = inflight \ {t.call} /\ txns' = txns \ {t}
    BY <1>3 DEF Error, Fail
  <2> QED
    BY <1>1, <2>1, EndsWhole
<1> QED
  BY <1>2, <1>3

LEMMA CommitKeeps ==
    ASSUME LInv, NEW t \in txns, Commit(t) \/ Rollback(t)
    PROVE  LInv'
<1>1. ~t.detached
  BY DEF Commit, Rollback, LInv, TxnsSound, TxnSound
<1>2. inflight' = inflight \ {t.call} /\ txns' = txns \ {t}
  BY DEF Commit, Rollback, Finish, Fail
<1> QED
  BY <1>1, <1>2, EndsWhole

\* A victim leaves its clean-up behind.
LEMMA VictimKeeps ==
    ASSUME LInv, NEW t \in txns, Victim(t)
    PROVE  LInv'
<1>1. ~t.detached
  BY NoDetachedVictim DEF Victim
<1> DEFINE left == IF t.undo THEN CleanUpFrom(t.call, t.at + 1)
                   ELSE IF Armed(t) THEN CleanUpFrom(t.call, 1) ELSE {}
<1>2. \A u \in left : TxnSound(u) /\ u.detached
  BY CleanUpSound
<1>3. inflight' = inflight \ {t.call} /\ txns' = (txns \ {t}) \cup left
  BY DEF Victim, Fail
<1> HIDE DEF left
<1> QED
  BY <1>1, <1>2, <1>3, Ends

LEMMA OnwardKeeps ==
    ASSUME LInv, NEW t \in txns, PassOver(t) \/ CleanUpAlone(t)
    PROVE  LInv'
<1>1. DOMAIN t = TxnFields /\ (~t.detached => Opened(t.call))
  BY DEF LInv, TxnsSound, TxnSound
<1>2. txns' = Onward(t) /\ inflight' = inflight
  BY DEF PassOver, CleanUpAlone, vars
<1>3. CASE t.detached
  <2> DEFINE later == CleanUpFrom(t.call, t.at + 1)
  <2>1. /\ \A u \in later : TxnSound(u) /\ u.detached
        /\ \A u, v \in later : u = v
    BY CleanUpSound, CleanUpOne
  <2>2. txns' = (txns \ {t}) \cup later
    BY <1>2, <1>3 DEF Onward
  <2> HIDE DEF later
  <2> QED
    BY <1>2, <2>1, <2>2, GoesOn
<1>4. CASE ~t.detached
  <2> DEFINE later == [t EXCEPT !.at = @ + 1]
  <2>1. /\ DOMAIN later = TxnFields /\ later.call = t.call
        /\ later.detached = t.detached
    BY <1>1 DEF TxnFields
  <2>2. txns' = (txns \ {t}) \cup {later}
    BY <1>2, <1>4 DEF Onward
  <2> HIDE DEF later
  <2>3. TxnSound(later) /\ ~later.detached
    BY <1>1, <1>4, <2>1 DEF TxnSound
  <2> QED
    BY <1>2, <1>4, <2>1, <2>2, <2>3, GoesOnAs
<1> QED
  BY <1>3, <1>4

LEMMA TxnStep == LInv /\ [TxnNext]_txnVars => LInv'
<1> SUFFICES ASSUME LInv, [TxnNext]_txnVars PROVE LInv'
  OBVIOUS
<1>1. CASE Begin /\ UNCHANGED txns
  BY <1>1, BeginKeeps
<1>2. ASSUME NEW call \in inflight, Advance(call) \/ Abandon(call)
      PROVE  LInv'
  BY <1>2, OpenKeeps, EnterKeeps, AloneKeeps, AbandonKeeps DEF Advance
<1>3. ASSUME NEW t \in txns, Proceed(t) \/ Error(t) \/ PassOver(t)
      PROVE  LInv'
  BY <1>3, StatementKeeps, ErrorKeeps, CommitKeeps, VictimKeeps, OnwardKeeps
  DEF Proceed, Rejected
<1>4. CASE UNCHANGED txnVars
  BY <1>4 DEF txnVars, vars, LInv, TxnsSound, OneEach, CallsShaped,
              LocksHaveCallers
<1> QED
  BY <1>1, <1>2, <1>3, <1>4 DEF TxnNext

-----------------------------------------------------------------------------
(* Theorems.                                                               *)

\* Transactions are their calls', one each, and a clean-up that has outlived
\* its transaction holds no locks.
THEOREM TxnInvariant == TxnSpec => []LInv
<1>1. TxnInit => LInv
  BY DEF TxnInit, Init, LInv, TxnsSound, OneEach, CallsShaped, LocksHaveCallers
<1>2. LInv /\ [TxnNext]_txnVars => LInv'
  BY TxnStep
<1> QED
  BY <1>1, <1>2, PTL DEF TxnSpec

\* However statements fail and deadlocks are broken, a transaction that holds
\* locks belongs to an RPC that still runs and will end it.
THEOREM LocksAreCallers == TxnSpec => []LocksHaveCallers
<1>1. LInv => LocksHaveCallers
  BY DEF LInv
<1> QED
  BY <1>1, TxnInvariant, PTL

-----------------------------------------------------------------------------
(* Statements.                                                             *)

IsJoin(x, y, z) == z = x \o y

\* A sequence that is two others joined.
LEMMA Joined ==
    ASSUME NEW S, NEW x \in Seq(S), NEW y \in Seq(S), NEW z, IsJoin(x, y, z)
    PROVE  /\ z \in Seq(S) /\ Len(z) = Len(x) + Len(y)
           /\ \A i \in 1..Len(z) :
                 z[i] = IF i <= Len(x) THEN x[i] ELSE y[i - Len(x)]
  BY ConcatProperties DEF IsJoin

IsFill(f, e, z) == z = [i \in DOMAIN f |-> e]

\* What the statements of the discovered profiles come to: one each.
LEMMA Repeated ==
    ASSUME NEW S, NEW T, NEW e \in T, NEW f \in Seq(S), NEW z,
           IsFill(f, e, z)
    PROVE  z \in Seq(T) /\ Len(z) = Len(f) /\ \A i \in 1..Len(f) : z[i] = e
<1>1. z \in Seq(T)
  BY DEF IsFill
<1>2. Len(z) = Len(f)
  BY DEF IsFill
<1>3. \A i \in 1..Len(f) : z[i] = e
  BY DEF IsFill
<1>4. QED
  BY <1>1, <1>2, <1>3

\* A sequence of two given members, or of one, or none.
LEMMA Listed ==
    ASSUME NEW S
    PROVE  /\ <<>> \in Seq(S) /\ Len(<<>>) = 0
           /\ \A a \in S : /\ <<a>> \in Seq(S) /\ Len(<<a>>) = 1
                          /\ <<a>>[1] = a
           /\ \A a, b \in S : /\ <<a, b>> \in Seq(S) /\ Len(<<a, b>>) = 2
                             /\ <<a, b>>[1] = a /\ <<a, b>>[2] = b
           /\ \A a, b, c \in S : /\ <<a, b, c>> \in Seq(S)
                                /\ Len(<<a, b, c>>) = 3
                                /\ <<a, b, c>>[1] = a /\ <<a, b, c>>[2] = b
                                /\ <<a, b, c>>[3] = c
<1>1. <<>> \in Seq(S) /\ Len(<<>>) = 0
  OBVIOUS
<1>2. ASSUME NEW a \in S
      PROVE  <<a>> \in Seq(S) /\ Len(<<a>>) = 1 /\ <<a>>[1] = a
  OBVIOUS
<1>3. ASSUME NEW a \in S, NEW b \in S
      PROVE  /\ <<a, b>> \in Seq(S) /\ Len(<<a, b>>) = 2
             /\ <<a, b>>[1] = a /\ <<a, b>>[2] = b
  OBVIOUS
<1>4. ASSUME NEW a \in S, NEW b \in S, NEW c \in S
      PROVE  /\ <<a, b, c>> \in Seq(S) /\ Len(<<a, b, c>>) = 3
             /\ <<a, b, c>>[1] = a /\ <<a, b, c>>[2] = b /\ <<a, b, c>>[3] = c
  OBVIOUS
<1>5. QED
  BY <1>1, <1>2, <1>3, <1>4

\* The statements of a bind: three, then one for each profile, then those
\* that forget the account replaced and, of an update, the prune.
LEMMA BindShape ==
    ASSUME NEW call \in BindCall
    PROVE  LET s == BindStatements(call) n == Len(call.found)
           IN /\ n \in Nat /\ DOMAIN call.found = 1..n
              /\ Len(s) \in Nat /\ DOMAIN s = 1..Len(s) /\ n + 3 <= Len(s)
              /\ s[1] = "save_credential" /\ s[2] = "save_device"
              /\ s[3] = "forget_profiles"
              /\ \A j \in 1..n : s[j + 3] = "save_profile"
              /\ \A j \in DOMAIN s : j > n + 3 =>
                   \/ /\ s[j] \in {"forget_devices", "forget_credential"}
                      /\ Replaced(call) # {}
                   \/ s[j] = "prune" /\ call.op = "update"
              /\ Replaced(call) # {} =>
                   \E j \in DOMAIN s : j > n + 3 /\ s[j] = "forget_devices"
              /\ call.op = "update" =>
                   \E j \in DOMAIN s : j > n + 3 /\ s[j] = "prune"
<1>0. \E names : {"save_credential", "save_device", "forget_profiles",
                 "save_profile", "forget_devices", "forget_credential",
                 "prune"} \subseteq names
  OBVIOUS
<1>00. PICK names : /\ "save_credential" \in names /\ "save_device" \in names
                   /\ "forget_profiles" \in names /\ "save_profile" \in names
                   /\ "forget_devices" \in names
                   /\ "forget_credential" \in names /\ "prune" \in names
  BY <1>0
<1>1. PICK n : n = Len(call.found)
  OBVIOUS
<1>2. call.found \in Seq(Idents) /\ n \in Nat /\ DOMAIN call.found = 1..n
  BY <1>1, LifecycleAssumption DEF BindCall
<1>20. n \in Nat
  BY <1>2
<1>3. PICK head : head = <<"save_credential", "save_device", "forget_profiles">>
  OBVIOUS
<1>4. /\ head \in Seq(names) /\ Len(head) = 3
      /\ head[1] = "save_credential" /\ head[2] = "save_device"
      /\ head[3] = "forget_profiles"
  BY <1>00, <1>3, Listed
<1>5. PICK saves : saves = [i \in DOMAIN call.found |-> "save_profile"]
  OBVIOUS
<1>6. /\ saves \in Seq(names) /\ Len(saves) = n
      /\ \A i \in 1..n : saves[i] = "save_profile"
  <2>0. PICK e : e = "save_profile"
    OBVIOUS
  <2>3. IsFill(call.found, e, saves) /\ e \in names
    BY <1>00, <1>5, <2>0 DEF IsFill
  <2>4. call.found \in Seq(Idents)
    BY <1>2
  <2>1. saves \in Seq(names) /\ Len(saves) = Len(call.found)
    BY <2>3, <2>4, Repeated
  <2>2. \A i \in 1..Len(call.found) : saves[i] = e
    BY <2>3, <2>4, Repeated
  <2>5. QED
    BY <1>1, <2>0, <2>1, <2>2
<1>60. PICK r \in BOOLEAN : r <=> Replaced(call) # {}
  OBVIOUS
<1>61. PICK u \in BOOLEAN : u <=> call.op = "update"
  OBVIOUS
<1>7. PICK forgets : forgets = IF r THEN <<"forget_devices", "forget_credential">>
                               ELSE <<>>
  OBVIOUS
<1>8. /\ forgets \in Seq(names)
      /\ r => forgets[1] = "forget_devices" /\ forgets[2] = "forget_credential"
  BY <1>00, <1>7, Listed
<1>80. Len(forgets) = IF r THEN 2 ELSE 0
  BY <1>00, <1>7, Listed
<1>9. PICK prunes : prunes = IF u THEN <<"prune">> ELSE <<>>
  OBVIOUS
<1>10. prunes \in Seq(names) /\ (u => prunes[1] = "prune")
  BY <1>00, <1>9, Listed
<1>100. Len(prunes) = IF u THEN 1 ELSE 0
  BY <1>00, <1>9, Listed
<1>11. PICK s : s = BindStatements(call)
  OBVIOUS
<1>12. \E p, q : IsJoin(head, saves, p) /\ IsJoin(p, forgets, q) /\ IsJoin(q, prunes, s)
  BY <1>3, <1>5, <1>7, <1>9, <1>11, <1>60, <1>61 DEF BindStatements, IsJoin
<1>13. PICK m : m = (3 + n) + Len(forgets)
  OBVIOUS
<1>14. /\ Len(s) = m + Len(prunes) /\ Len(s) \in Nat /\ DOMAIN s = 1..Len(s)
       /\ \A i \in 1..Len(s) :
             s[i] = IF i <= 3 THEN head[i]
                    ELSE IF i <= 3 + n THEN saves[i - 3]
                    ELSE IF i <= m THEN forgets[i - (3 + n)] ELSE prunes[i - m]
  <2>1. PICK p : \E q : /\ IsJoin(head, saves, p) /\ IsJoin(p, forgets, q)
                       /\ IsJoin(q, prunes, s)
    BY <1>12
  <2>2. PICK q : /\ IsJoin(head, saves, p) /\ IsJoin(p, forgets, q)
                 /\ IsJoin(q, prunes, s)
    BY <2>1
  <2>3. 3 = Len(head) /\ 3 + n = 3 + Len(saves)
    BY <1>4, <1>6
  <2>4. /\ head \in Seq(names) /\ saves \in Seq(names)
        /\ forgets \in Seq(names) /\ prunes \in Seq(names)
    BY <1>4, <1>6, <1>8, <1>10
  <2>50. IsJoin(head, saves, p)
    BY <2>2
  <2>51. IsJoin(p, forgets, q)
    BY <2>2
  <2>52. IsJoin(q, prunes, s)
    BY <2>2
  <2>53. head \in Seq(names)
    BY <2>4
  <2>54. saves \in Seq(names)
    BY <2>4
  <2>55. forgets \in Seq(names)
    BY <2>4
  <2>56. prunes \in Seq(names)
    BY <2>4
  <2>5. /\ p \in Seq(names) /\ Len(p) = 3 + n
        /\ \A i \in 1..Len(p) : p[i] = IF i <= 3 THEN head[i] ELSE saves[i - 3]
    <3>1. /\ p \in Seq(names) /\ Len(p) = Len(head) + Len(saves)
          /\ \A i \in 1..Len(p) :
                p[i] = IF i <= Len(head) THEN head[i] ELSE saves[i - Len(head)]
      BY <2>50, <2>53, <2>54, Joined
    <3>2. QED
      BY <1>4, <1>6, <3>1
  <2>6. /\ q \in Seq(names) /\ Len(q) = m
        /\ \A i \in 1..Len(q) :
              q[i] = IF i <= 3 + n THEN p[i] ELSE forgets[i - (3 + n)]
    <3>1. p \in Seq(names)
      BY <2>5
    <3>2. /\ q \in Seq(names) /\ Len(q) = Len(p) + Len(forgets)
          /\ \A i \in 1..Len(q) :
                q[i] = IF i <= Len(p) THEN p[i] ELSE forgets[i - Len(p)]
      BY <2>51, <2>55, <3>1, Joined
    <3>3. QED
      BY <1>13, <2>5, <3>2
  <2>7. /\ s \in Seq(names) /\ Len(s) = m + Len(prunes)
        /\ \A i \in 1..Len(s) : s[i] = IF i <= m THEN q[i] ELSE prunes[i - m]
    <3>1. q \in Seq(names)
      BY <2>6
    <3>2. /\ s \in Seq(names) /\ Len(s) = Len(q) + Len(prunes)
          /\ \A i \in 1..Len(s) :
                s[i] = IF i <= Len(q) THEN q[i] ELSE prunes[i - Len(q)]
      BY <2>52, <2>56, <3>1, Joined
    <3>3. QED
      BY <2>6, <3>2
  <2>8. m \in Nat /\ 3 + n <= m
    BY <1>13, <1>20, <1>80
  <2>9. Len(s) \in Nat /\ DOMAIN s = 1..Len(s)
    BY <2>7
  <2>10. m <= Len(s)
    BY <1>100, <2>7, <2>8
  <2>11. QED
    BY <1>20, <2>5, <2>6, <2>7, <2>8, <2>9, <2>10
<1>140. Len(s) = m + Len(prunes) /\ 1..Len(s) = DOMAIN s
  BY <1>14
<1>15. /\ m \in Nat /\ 3 + n <= m /\ m <= Len(s)
       /\ ~r => m = 3 + n
       /\ r => m = 3 + n + 2
       /\ u => Len(s) = m + 1
       /\ ~u => Len(s) = m
  <2>1. /\ ~r => m = 3 + n
        /\ r => m = 3 + n + 2
    BY <1>20, <1>80, <1>13
  <2>2. m \in Nat /\ 3 + n <= m
    BY <1>2, <2>1
  <2>3. /\ u => Len(s) = m + 1
        /\ ~u => Len(s) = m
    BY <1>100, <1>140, <2>2
  <2>4. m <= Len(s)
    BY <2>2, <2>3
  <2>5. QED
    BY <2>1, <2>2, <2>3, <2>4
<1>16. s[1] = "save_credential" /\ s[2] = "save_device"
       /\ s[3] = "forget_profiles"
  <2>1. ASSUME NEW i \in 1..3 PROVE s[i] = head[i]
    <3>1. i \in 1..Len(s) /\ i <= 3
      BY <1>2, <1>15
    <3>2. QED
      BY <1>14, <3>1
  <2>2. QED
    <3>1. 1 \in 1..3 /\ 2 \in 1..3 /\ 3 \in 1..3
      OBVIOUS
    <3>2. s[1] = head[1] /\ s[2] = head[2] /\ s[3] = head[3]
      BY <2>1, <3>1
    <3>3. QED
      BY <1>4, <3>2
<1>17. ASSUME NEW j \in 1..n PROVE s[j + 3] = "save_profile"
  <2>1. /\ j + 3 \in 1..Len(s) /\ ~(j + 3 <= 3) /\ j + 3 <= 3 + n
        /\ j + 3 - 3 = j
    BY <1>2, <1>15
  <2>2. s[j + 3] = saves[j]
    BY <1>14, <2>1
  <2>3. QED
    BY <1>6, <2>2
<1>18. ASSUME NEW j \in DOMAIN s, j > n + 3
       PROVE  \/ /\ s[j] \in {"forget_devices", "forget_credential"}
                 /\ r
              \/ s[j] = "prune" /\ u
  <2>0. j \in 1..Len(s) /\ ~(j <= 3) /\ ~(j <= 3 + n)
    BY <1>2, <1>14, <1>18
  <2>1. CASE j <= m
    <3>1. r /\ j - (3 + n) \in 1..2
      BY <1>20, <1>15, <2>0, <2>1
    <3>2. s[j] = forgets[j - (3 + n)]
      BY <1>14, <2>0, <2>1
    <3>3. j - (3 + n) = 1 \/ j - (3 + n) = 2
      BY <3>1
    <3>4. QED
      BY <1>8, <3>1, <3>2, <3>3
  <2>2. CASE ~(j <= m)
    <3>1. u /\ j - m = 1
      BY <1>15, <2>0, <2>2
    <3>2. s[j] = prunes[1]
      BY <1>14, <2>0, <2>2, <3>1
    <3>3. QED
      BY <1>10, <3>1, <3>2
  <2>3. QED
    BY <2>1, <2>2
<1>19. ASSUME Replaced(call) # {}
       PROVE  \E j \in DOMAIN s : j > n + 3 /\ s[j] = "forget_devices"
  <2>1. PICK j : j = n + 4
    OBVIOUS
  <2>2. /\ j \in 1..Len(s) /\ ~(j <= 3) /\ ~(j <= 3 + n) /\ j <= m
        /\ j - (3 + n) = 1 /\ j > n + 3
    BY <1>20, <1>60, <1>15, <1>19, <2>1
  <2>3. s[j] = forgets[1]
    BY <1>14, <2>2
  <2>4. QED
    BY <1>8, <1>140, <1>60, <1>19, <2>2, <2>3
<1>201. ASSUME call.op = "update"
       PROVE  \E j \in DOMAIN s : j > n + 3 /\ s[j] = "prune"
  <2>1. PICK j : j = m + 1
    OBVIOUS
  <2>2. /\ j \in 1..Len(s) /\ ~(j <= 3) /\ ~(j <= 3 + n) /\ ~(j <= m)
        /\ j - m = 1 /\ j > n + 3
    BY <1>20, <1>15, <1>61, <1>201, <2>1
  <2>3. s[j] = prunes[1]
    BY <1>14, <2>2
  <2>4. QED
    BY <1>10, <1>140, <1>61, <1>201, <2>2, <2>3
<1>21. n + 3 <= Len(s)
  BY <1>2, <1>15
<1>22. QED
  BY <1>1, <1>2, <1>11, <1>60, <1>61, <1>14, <1>16, <1>17, <1>18, <1>19, <1>201, <1>21

\* Where a bind is, and what it has done.
LEMMA BindDone ==
    ASSUME NEW t, t.call \in BindCall, ~t.undo, t.at \in Nat \ {0}
    PROVE  LET n == Len(t.call.found)
           IN /\ n \in Nat /\ DOMAIN t.call.found = 1..n
              /\ Doing(t, "save_credential") <=> t.at = 1
              /\ Doing(t, "save_device") <=> t.at = 2
              /\ Doing(t, "forget_profiles") <=> t.at = 3
              /\ Doing(t, "save_profile") <=> t.at > 3 /\ t.at <= n + 3
              /\ \A s \in {"forget_devices", "forget_credential", "prune"} :
                    Doing(t, s) => t.at > n + 3
              /\ Doing(t, "prune") => t.call.op = "update"
              /\ Doing(t, "forget_devices") \/ Doing(t, "forget_credential")
                   => Replaced(t.call) # {}
              /\ \A s \in {"wipe_profiles", "wipe_devices", "wipe_credential",
                           "clear", "choose"} : ~Doing(t, s)
              /\ Done(t, "save_credential") <=> t.at > 1
              /\ Done(t, "save_device") <=> t.at > 2
              /\ Done(t, "forget_profiles") <=> t.at > 3
              /\ Done(t, "prune") => t.call.op = "update" /\ t.at > n + 3
              /\ Done(t, "forget_devices") => t.at > n + 3
              /\ \A s \in {"wipe_profiles", "wipe_devices", "wipe_credential",
                           "clear", "choose"} : ~Done(t, s)
              /\ ~Running(t) =>
                   /\ t.at > n + 3
                   /\ Replaced(t.call) # {} => Done(t, "forget_devices")
                   /\ t.call.op = "update" => Done(t, "prune")
<1>1. PICK n : n = Len(t.call.found)
  OBVIOUS
<1>2. PICK s : s = BindStatements(t.call)
  OBVIOUS
<1>3. Statements(t) = s
  BY <1>2 DEF Statements, BindCall
<1>4. PICK r \in BOOLEAN : r <=> Replaced(t.call) # {}
  OBVIOUS
<1>5. /\ n \in Nat /\ Len(s) \in Nat /\ DOMAIN s = 1..Len(s) /\ n + 3 <= Len(s)
      /\ s[1] = "save_credential" /\ s[2] = "save_device"
      /\ s[3] = "forget_profiles"
      /\ \A j \in 1..n : s[j + 3] = "save_profile"
      /\ \A j \in DOMAIN s : j > n + 3 =>
           \/ s[j] \in {"forget_devices", "forget_credential"} /\ r
           \/ s[j] = "prune" /\ t.call.op = "update"
      /\ r => \E j \in DOMAIN s : j > n + 3 /\ s[j] = "forget_devices"
      /\ t.call.op = "update" => \E j \in DOMAIN s : j > n + 3 /\ s[j] = "prune"
  BY <1>1, <1>2, <1>4, BindShape
<1>50. DOMAIN t.call.found = 1..n
  BY <1>1, BindShape
<1>6. \A j \in DOMAIN s : \/ j = 1 /\ s[j] = "save_credential"
                          \/ j = 2 /\ s[j] = "save_device"
                          \/ j = 3 /\ s[j] = "forget_profiles"
                          \/ j > 3 /\ j <= n + 3 /\ s[j] = "save_profile"
                          \/ j > n + 3 /\ s[j] \in {"forget_devices",
                                                    "forget_credential"} /\ r
                          \/ j > n + 3 /\ s[j] = "prune" /\ t.call.op = "update"
  <2> TAKE j \in DOMAIN s
  <2>1. j \in Nat /\ j >= 1
    BY <1>5
  <2>2. CASE j > n + 3
    BY <1>5, <2>2
  <2>3. CASE j > 3 /\ j <= n + 3
    <3>1. j - 3 \in 1..n /\ (j - 3) + 3 = j
      BY <1>5, <2>1, <2>3
    <3>2. s[j] = "save_profile"
      BY <1>5, <3>1
    <3>3. QED
      BY <2>3, <3>2
  <2>4. CASE j <= 3
    BY <1>5, <2>1, <2>4
  <2>5. QED
    BY <1>5, <2>1, <2>2, <2>3, <2>4
<1>7. 1 \in DOMAIN s /\ 2 \in DOMAIN s /\ 3 \in DOMAIN s
  BY <1>5
<1>8. \A v : Doing(t, v) <=> t.at \in DOMAIN s /\ s[t.at] = v
  BY <1>3 DEF Doing, Running
<1>9. \A v : Done(t, v) <=> \E i \in DOMAIN s : i < t.at /\ s[i] = v
  BY <1>3 DEF Done
<1>10. Running(t) <=> t.at \in DOMAIN s
  BY <1>3 DEF Running
<1>11. /\ Doing(t, "save_credential") <=> t.at = 1
       /\ Doing(t, "save_device") <=> t.at = 2
       /\ Doing(t, "forget_profiles") <=> t.at = 3
  BY <1>5, <1>6, <1>7, <1>8
<1>12. Doing(t, "save_profile") <=> t.at > 3 /\ t.at <= n + 3
  <2>1. t.at > 3 /\ t.at <= n + 3 => t.at \in DOMAIN s
    BY <1>5
  <2>2. QED
    BY <1>5, <1>6, <1>8, <2>1
<1>13. /\ \A v \in {"forget_devices", "forget_credential", "prune"} :
             Doing(t, v) => t.at > n + 3
       /\ Doing(t, "prune") => t.call.op = "update"
       /\ Doing(t, "forget_devices") \/ Doing(t, "forget_credential") => r
       /\ \A v \in {"wipe_profiles", "wipe_devices", "wipe_credential",
                    "clear", "choose"} : ~Doing(t, v)
  BY <1>6, <1>8
<1>14. /\ Done(t, "save_credential") <=> t.at > 1
       /\ Done(t, "save_device") <=> t.at > 2
       /\ Done(t, "forget_profiles") <=> t.at > 3
  BY <1>5, <1>6, <1>7, <1>9
<1>15. /\ Done(t, "prune") => t.call.op = "update" /\ t.at > n + 3
       /\ Done(t, "forget_devices") => t.at > n + 3
  BY <1>5, <1>6, <1>9
<1>16. \A v \in {"wipe_profiles", "wipe_devices", "wipe_credential",
                 "clear", "choose"} : ~Done(t, v)
  BY <1>6, <1>9
<1>17. ASSUME ~Running(t)
       PROVE  /\ t.at > n + 3
              /\ r => Done(t, "forget_devices")
              /\ t.call.op = "update" => Done(t, "prune")
  <2>1. t.at > Len(s)
    BY <1>5, <1>10, <1>17
  <2>2. \A j \in DOMAIN s : j < t.at
    BY <1>5, <2>1
  <2>3. QED
    BY <1>5, <1>9, <2>1, <2>2
<1>18. QED
  BY <1>1, <1>4, <1>5, <1>50, <1>11, <1>12, <1>13, <1>14, <1>15, <1>16, <1>17

\* Where a delete is, and what it has done.
LEMMA DeleteDone ==
    ASSUME NEW t, t.call.op = "delete", ~t.undo, t.at \in Nat \ {0}
    PROVE  /\ \A s : Doing(t, s) \/ Done(t, s) =>
                 s \in {"wipe_profiles", "wipe_devices", "wipe_credential"}
           /\ ~Running(t) =>
                /\ Done(t, "wipe_profiles") /\ Done(t, "wipe_devices")
                /\ Done(t, "wipe_credential")
<1>1. PICK s : s = DeleteStatements
  OBVIOUS
<1>2. /\ DOMAIN s = 1..3
      /\ s[1] = "wipe_profiles" /\ s[2] = "wipe_devices"
      /\ s[3] = "wipe_credential"
  BY <1>1 DEF DeleteStatements
<1>3. Statements(t) = s
  BY <1>1 DEF Statements
<1>4. /\ \A v : Doing(t, v) <=> t.at \in DOMAIN s /\ s[t.at] = v
      /\ \A v : Done(t, v) <=> \E i \in DOMAIN s : i < t.at /\ s[i] = v
      /\ Running(t) <=> t.at \in DOMAIN s
  BY <1>3 DEF Doing, Done, Running
<1>5. \A i \in DOMAIN s : i \in {1, 2, 3}
  BY <1>2
<1>6. 1 \in DOMAIN s /\ 2 \in DOMAIN s /\ 3 \in DOMAIN s
  BY <1>2
<1>7. ~Running(t) => t.at > 3
  BY <1>2, <1>4
<1>8. QED
  BY <1>2, <1>4, <1>5, <1>6, <1>7

\* Where a confirmation is, and what it has done.
LEMMA ConfirmDone ==
    ASSUME NEW t, t.call.op = "confirm", ~t.undo, t.at \in Nat \ {0}
    PROVE  /\ \A s : Doing(t, s) \/ Done(t, s) => s \in {"clear", "choose"}
           /\ Doing(t, "choose") => Done(t, "clear") /\ ~Done(t, "choose")
           /\ Doing(t, "clear") => ~Done(t, "choose") /\ ~Done(t, "clear")
           /\ Done(t, "choose") => Done(t, "clear")
           /\ ~Running(t) => Done(t, "clear") /\ Done(t, "choose")
<1>1. PICK s : s = ConfirmStatements
  OBVIOUS
<1>2. DOMAIN s = 1..2 /\ s[1] = "clear" /\ s[2] = "choose"
  BY <1>1 DEF ConfirmStatements
<1>3. Statements(t) = s
  BY <1>1 DEF Statements
<1>4. /\ \A v : Doing(t, v) <=> t.at \in DOMAIN s /\ s[t.at] = v
      /\ \A v : Done(t, v) <=> \E i \in DOMAIN s : i < t.at /\ s[i] = v
      /\ Running(t) <=> t.at \in DOMAIN s
  BY <1>3 DEF Doing, Done, Running
<1>5. \A i \in DOMAIN s : i \in {1, 2}
  BY <1>2
<1>6. 1 \in DOMAIN s /\ 2 \in DOMAIN s
  BY <1>2
<1>7. ~Running(t) => t.at > 2
  BY <1>2, <1>4
<1>8. QED
  BY <1>2, <1>4, <1>5, <1>6, <1>7

\* A statement that was being done is done.
LEMMA DoneNext ==
    ASSUME NEW t, t.at \in Nat, NEW later, later.call = t.call,
           later.undo = t.undo, later.at = t.at + 1,
           DOMAIN Statements(t) \subseteq Nat
    PROVE  \A s : Done(later, s) <=> Done(t, s) \/ Doing(t, s)
<1>1. Statements(later) = Statements(t)
  BY DEF Statements
<1>2. \A i \in DOMAIN Statements(t) : i < t.at + 1 <=> i < t.at \/ i = t.at
  OBVIOUS
<1>3. QED
  BY <1>1, <1>2 DEF Done, Doing, Running

-----------------------------------------------------------------------------
(* What a transaction sees of a table.                                     *)

\* What a transaction sees, and has touched, after a statement.
LEMMA SeenWritten ==
    ASSUME NEW rows, NEW w, NEW before, NEW after, before = Seen(rows, w)
    PROVE  /\ Seen(rows, Written(w, before, after)) = after
           /\ \A x \in Touched(Written(w, before, after)) :
                 \/ x \in Touched(w)
                 \/ x \in before /\ x \notin after
                 \/ x \in after /\ x \notin before
           /\ \A x \in Written(w, before, after).add :
                 x \in w.add \/ (x \in after /\ x \notin before)
           /\ before = after => /\ Touched(Written(w, before, after)) = Touched(w)
                                /\ Written(w, before, after).add = w.add
<1>1. PICK w2 : w2 = Written(w, before, after)
  OBVIOUS
<1>2. /\ w2.del = w.del \cup (before \ after)
      /\ w2.add = (w.add \cup (after \ before)) \ (before \ after)
  BY <1>1 DEF Written
<1>3. ASSUME NEW x
      PROVE  x \in (rows \ w2.del) \cup w2.add <=> x \in after
  <2>1. x \in before <=> (x \in rows /\ x \notin w.del) \/ x \in w.add
    BY DEF Seen
  <2>2. x \in w2.del <=> x \in w.del \/ (x \in before /\ x \notin after)
    BY <1>2
  <2>3. x \in w2.add <=> /\ x \in w.add \/ (x \in after /\ x \notin before)
                        /\ ~(x \in before /\ x \notin after)
    BY <1>2
  <2>4. QED
    BY <2>1, <2>2, <2>3
<1>4. Seen(rows, w2) = after
  BY <1>3 DEF Seen
<1>5. \A x \in Touched(w2) :
         \/ x \in Touched(w)
         \/ x \in before /\ x \notin after
         \/ x \in after /\ x \notin before
  BY <1>2 DEF Touched
<1>6. \A x \in w2.add : x \in w.add \/ (x \in after /\ x \notin before)
  BY <1>2
<1>7. ASSUME before = after
      PROVE  w2.add = w.add /\ w2.del = w.del
  <2>1. before \ after = {} /\ after \ before = {}
    BY <1>7
  <2>2. w2.del = w.del \cup {} /\ w2.add = (w.add \cup {}) \ {}
    BY <1>2, <2>1, Zenon
  <2>3. w.del \cup {} = w.del /\ (w.add \cup {}) \ {} = w.add
    OBVIOUS
  <2>4. QED
    BY <2>2, <2>3
<1>8. QED
  BY <1>1, <1>4, <1>5, <1>6, <1>7 DEF Touched

\* Others have made T2 of the table T: the statements done would make of it
\* what the transaction sees, if each row is either none of their business or
\* none of its.
LEMMA SeenFollows ==
    ASSUME NEW w, NEW T, NEW T2, NEW F, NEW F2, Seen(T, w) = F,
           \A x : \/ (x \in T <=> x \in T2) /\ (x \in F <=> x \in F2)
                  \/ x \notin Touched(w) /\ (x \in F2 <=> x \in T2)
    PROVE  Seen(T2, w) = F2
  BY DEF Seen, Touched

Coherent(C) ==
    \A c \in C : InScope(c.key, c.binding) /\ c.key.account = c.account

\* The rows a bind saves are of its binding and account.
LEMMA BoundRowIs ==
    ASSUME NEW call
    PROVE  /\ BoundRow(call).binding = call.binding
           /\ BoundRow(call).key = CallKey(call)
           /\ BoundRow(call).account = AccountOf[call.cookie]
           /\ CallKey(call).account = AccountOf[call.cookie]
           /\ CallKey(call).binding = call.binding
           /\ BoundDevice(call).binding = call.binding
           /\ BoundDevice(call).device = call.device
           /\ BoundDevice(call).key = CallKey(call)
  BY DEF BoundRow, BoundDevice, CallKey, BoundKey

\* Whoever holds the locks of a row that is saved holds one of every row it
\* collides with.
LEMMA CollidingHeld ==
    ASSUME NEW t, HoldsAll(t, BoundRow(t.call)), NEW c,
           c.key.account = c.account,
           \/ c.binding = BoundRow(t.call).binding
           \/ c.key = BoundRow(t.call).key
           \/ c.account = BoundRow(t.call).account
    PROVE  HoldsAny(t, c)
<1>0. BoundRow(t.call).key.account = BoundRow(t.call).account
  BY BoundRowIs
<1>1. c.binding = BoundRow(t.call).binding \/ c.account = BoundRow(t.call).account
  BY <1>0
<1>2. QED
  BY <1>1 DEF HoldsAll, HoldsAny

-----------------------------------------------------------------------------
(* What others may do beside a transaction.                                *)

\* What a transaction has done to the credentials stays as good when others
\* change none of the rows it has locked and add none that it has scanned.
LEMMA CredentialsSurvive ==
    ASSUME NEW t, NEW C, NEW C2, Coherent(C), Coherent(C2), LiveC(t, C),
           \A c : HoldsAny(t, c) => (c \in C <=> c \in C2),
           \A c \in C2 : c \notin C => ~CredentialScanned(t, c)
    PROVE  LiveC(t, C2)
<1> DEFINE row == BoundRow(t.call)
<1>1. \A c \in C2 : CredentialScanned(t, c) => HoldsAll(t, c)
  BY DEF LiveC
<1>2. \A c : HoldsAll(t, c) => HoldsAny(t, c)
  BY DEF HoldsAll, HoldsAny
<1>3. ASSUME Done(t, "save_credential"), NEW c \in C \cup C2,
             c \in CollidingIn(C, row) \/ c \in CollidingIn(C2, row)
      PROVE  HoldsAny(t, c)
  <2>1. HoldsAll(t, row) /\ c.key.account = c.account
    BY <1>3 DEF LiveC, Coherent
  <2>2. \/ c.binding = row.binding \/ c.key = row.key
        \/ c.account = row.account
    BY <1>3 DEF CollidingIn
  <2> HIDE DEF row
  <2>3. QED
    BY <2>1, <2>2, CollidingHeld DEF row
<1>4. Done(t, "save_credential") => CollidingIn(C2, row) \subseteq C
  BY <1>3 DEF CollidingIn
<1>5. ASSUME NEW x
      PROVE  \/ /\ x \in C <=> x \in C2
                /\ x \in CredentialsSoFar(t, C) <=> x \in CredentialsSoFar(t, C2)
             \/ /\ x \notin Touched(t.credentials)
                /\ x \in CredentialsSoFar(t, C2) <=> x \in C2
  <2>1. CASE HoldsAny(t, x)
    <3>1. x \in C <=> x \in C2
      BY <2>1
    <3>2. x \in CollidingIn(C, row) <=> x \in CollidingIn(C2, row)
      BY <3>1 DEF CollidingIn
    <3>3. QED
      BY <3>1, <3>2 DEF CredentialsSoFar, SavedCredential
  <2>2. CASE ~HoldsAny(t, x)
    <3>1. x \notin Touched(t.credentials)
      BY <1>2, <2>2 DEF LiveC
    <3>2. ~(x \in C2 /\ CredentialScanned(t, x))
      BY <1>1, <1>2, <2>2
    <3>3. Done(t, "save_credential") => x # row /\ x \notin CollidingIn(C2, row)
      BY <1>2, <1>3, <2>2 DEF LiveC, CollidingIn
    <3>4. x \in CredentialsSoFar(t, C2) <=> x \in C2
      BY <3>2, <3>3 DEF CredentialsSoFar, SavedCredential, CredentialScanned
    <3>5. QED
      BY <3>1, <3>4
  <2>3. QED
    BY <2>1, <2>2
<1>6. Seen(C2, t.credentials) = CredentialsSoFar(t, C2)
  <2>1. Seen(C, t.credentials) = CredentialsSoFar(t, C)
    BY DEF LiveC
  <2>2. QED
    BY <1>5, <2>1, SeenFollows
<1>7. Done(t, "save_credential") =>
         \A c, d \in CollidingIn(C2, BoundRow(t.call)) : c = d
  BY <1>3, <1>4 DEF LiveC, CollidingIn
<1>8. QED
  BY <1>1, <1>6, <1>7 DEF LiveC

\* Likewise for the devices.
LEMMA DevicesSurvive ==
    ASSUME NEW t, NEW D, NEW D2, LiveD(t, D),
           \A d : HoldsDevice(t, d) => (d \in D <=> d \in D2),
           \A d \in D2 : d \notin D => ~DeviceScanned(t, d)
    PROVE  LiveD(t, D2)
<1> DEFINE row == BoundDevice(t.call)
<1>1. \A d \in D2 : DeviceScanned(t, d) => HoldsDevice(t, d)
  BY DEF LiveD
<1>2. ASSUME NEW x
      PROVE  \/ /\ x \in D <=> x \in D2
                /\ x \in DevicesSoFar(t, D) <=> x \in DevicesSoFar(t, D2)
             \/ /\ x \notin Touched(t.devices)
                /\ x \in DevicesSoFar(t, D2) <=> x \in D2
  <2>1. CASE HoldsDevice(t, x)
    <3>1. x \in D <=> x \in D2
      BY <2>1
    <3>2. QED
      BY <3>1 DEF DevicesSoFar, SavedDevice
  <2>2. CASE ~HoldsDevice(t, x)
    <3>1. x \notin Touched(t.devices)
      BY <2>2 DEF LiveD
    <3>2. ~(x \in D2 /\ DeviceScanned(t, x))
      BY <1>1, <2>2
    <3>3. Done(t, "save_device") =>
             x # row /\ ~(x.binding = row.binding /\ x.device = row.device)
      BY <2>2 DEF LiveD, HoldsDevice
    <3>4. x \in DevicesSoFar(t, D2) <=> x \in D2
      BY <3>2, <3>3 DEF DevicesSoFar, SavedDevice, DeviceScanned
    <3>5. QED
      BY <3>1, <3>4
  <2>3. QED
    BY <2>1, <2>2
<1>3. Seen(D2, t.devices) = DevicesSoFar(t, D2)
  <2>1. Seen(D, t.devices) = DevicesSoFar(t, D)
    BY DEF LiveD
  <2>2. QED
    BY <1>2, <2>1, SeenFollows
<1>4. QED
  BY <1>1, <1>3 DEF LiveD

\* Two tables that have the same rows among those that t locks, and among
\* the others.
Alike(t, R, R2) == \A p : HoldsProfile(t, p) => (p \in R <=> p \in R2)
Beyond(t, R, R2) == \A p : ~HoldsProfile(t, p) => (p \in R <=> p \in R2)

\* An UPDATE keeps a row in its slot.
LEMMA InSlot ==
    ASSUME NEW p \in ProfileRow, NEW k, NEW d
    PROVE  /\ [p EXCEPT !.key = k, !.default = d].binding = p.binding
           /\ [p EXCEPT !.key = k, !.default = d].ident = p.ident
           /\ [p EXCEPT !.key = k, !.default = d].id = p.id
           /\ [p EXCEPT !.default = d].binding = p.binding
           /\ [p EXCEPT !.default = d].ident = p.ident
           /\ [p EXCEPT !.default = d].key = p.key
           /\ [p EXCEPT !.default = d].id = p.id
  BY DEF ProfileRow

\* The slot of a row that is inserted.
LEMMA NewSlot ==
    ASSUME NEW call, NEW i, NEW d
    PROVE  /\ NewProfile(call, i, d).binding = call.binding
           /\ NewProfile(call, i, d).ident = i
           /\ NewProfile(call, i, d).default = d
  BY DEF NewProfile

\* A lock on a profile is a lock on its slot.
LEMMA SameSlot ==
    ASSUME NEW t, NEW p, NEW q, p.binding = q.binding, p.ident = q.ident
    PROVE  HoldsProfile(t, p) <=> HoldsProfile(t, q)
  BY DEF HoldsProfile

\* saveDefaultProfile changes locked rows alike in tables that agree on them,
LEMMA DefaultAlike ==
    ASSUME NEW t, NEW seen, NEW R, NEW R2, R \subseteq ProfileRow,
           R2 \subseteq ProfileRow, Alike(t, R, R2)
    PROVE  Alike(t, WithDefault(t.call, seen, R), WithDefault(t.call, seen, R2))
<1> DEFINE f(p) == IF \E q \in seen : SameRow(p, q)
                   THEN [p EXCEPT !.key = CallKey(t.call), !.default = TRUE]
                   ELSE p
<1>0. \A p \in ProfileRow : f(p).binding = p.binding /\ f(p).ident = p.ident
  BY InSlot
<1>1. \A p \in ProfileRow : HoldsProfile(t, f(p)) <=> HoldsProfile(t, p)
  BY <1>0 DEF HoldsProfile
<1>2. CASE seen = {}
  BY <1>2 DEF Alike, WithDefault
<1>3. CASE seen # {}
  <2>1. /\ WithDefault(t.call, seen, R) = {f(p) : p \in R}
        /\ WithDefault(t.call, seen, R2) = {f(p) : p \in R2}
    BY <1>3 DEF WithDefault
  <2> HIDE DEF f
  <2>2. QED
    BY <1>1, <2>1 DEF Alike
<1>4. QED
  BY <1>2, <1>3

\* and no other rows.
LEMMA DefaultBeyond ==
    ASSUME NEW t, NEW seen, NEW R, R \subseteq ProfileRow,
           \A q \in seen : HoldsProfile(t, q),
           \A d : HoldsProfile(t, NewProfile(t.call, t.call.found[1], d))
    PROVE  Beyond(t, WithDefault(t.call, seen, R), R)
<1> DEFINE f(p) == IF \E q \in seen : SameRow(p, q)
                   THEN [p EXCEPT !.key = CallKey(t.call), !.default = TRUE]
                   ELSE p
<1>1. \A p \in ProfileRow : /\ HoldsProfile(t, f(p)) <=> HoldsProfile(t, p)
                            /\ ~HoldsProfile(t, p) => f(p) = p
  <2> TAKE p \in ProfileRow
  <2>1. (\E q \in seen : SameRow(p, q)) => HoldsProfile(t, p)
    BY SameSlot DEF SameRow
  <2>20. f(p).binding = p.binding /\ f(p).ident = p.ident
    BY InSlot
  <2>2. HoldsProfile(t, f(p)) <=> HoldsProfile(t, p)
    BY <2>20 DEF HoldsProfile
  <2>3. QED
    BY <2>1, <2>2
<1>2. CASE seen = {}
  BY <1>2 DEF Beyond, WithDefault
<1>3. CASE seen # {}
  <2>1. WithDefault(t.call, seen, R) = {f(p) : p \in R}
    BY <1>3 DEF WithDefault
  <2> HIDE DEF f
  <2>2. QED
    BY <1>1, <2>1 DEF Beyond
<1>4. QED
  BY <1>2, <1>3

\* So do the upserts of the other profiles,
LEMMA OthersAlike ==
    ASSUME NEW t, NEW idents, NEW R, NEW R2, R \subseteq ProfileRow,
           R2 \subseteq ProfileRow, Alike(t, R, R2),
           \A i \in idents : <<"profile", t.call.binding, i>> \in t.rows
    PROVE  Alike(t, WithOthers(t.call, idents, R), WithOthers(t.call, idents, R2))
<1> DEFINE f(p) == IF p.binding = t.call.binding /\ p.ident \in idents
                   THEN [p EXCEPT !.key = CallKey(t.call), !.default = FALSE]
                   ELSE p
           new(rows) == {NewProfile(t.call, i, FALSE) :
                           i \in {i \in idents : ~ \E p \in rows :
                                   p.binding = t.call.binding /\ p.ident = i}}
<1>0. \A p \in ProfileRow : f(p).binding = p.binding /\ f(p).ident = p.ident
  BY InSlot
<1>1. \A p \in ProfileRow : HoldsProfile(t, f(p)) <=> HoldsProfile(t, p)
  BY <1>0 DEF HoldsProfile
<1>2. \A p : p.binding = t.call.binding /\ p.ident \in idents => HoldsProfile(t, p)
  BY DEF HoldsProfile
<1>3. new(R) = new(R2)
  <2>1. \A i \in idents : (\E p \in R : p.binding = t.call.binding /\ p.ident = i)
                     <=> (\E p \in R2 : p.binding = t.call.binding /\ p.ident = i)
    BY <1>2 DEF Alike
  <2>2. {i \in idents : ~ \E p \in R : p.binding = t.call.binding /\ p.ident = i}
        = {i \in idents : ~ \E p \in R2 : p.binding = t.call.binding /\ p.ident = i}
    BY <2>1
  <2>3. QED
    BY <2>2
<1>4. /\ WithOthers(t.call, idents, R) = {f(p) : p \in R} \cup new(R)
      /\ WithOthers(t.call, idents, R2) = {f(p) : p \in R2} \cup new(R2)
  BY DEF WithOthers
<1> HIDE DEF f, new
<1>5. QED
  BY <1>1, <1>3, <1>4 DEF Alike

\* and they change no other rows.
LEMMA OthersBeyond ==
    ASSUME NEW t, NEW idents, NEW R, R \subseteq ProfileRow,
           \A i \in idents : <<"profile", t.call.binding, i>> \in t.rows
    PROVE  Beyond(t, WithOthers(t.call, idents, R), R)
<1> DEFINE f(p) == IF p.binding = t.call.binding /\ p.ident \in idents
                   THEN [p EXCEPT !.key = CallKey(t.call), !.default = FALSE]
                   ELSE p
           new(rows) == {NewProfile(t.call, i, FALSE) :
                           i \in {i \in idents : ~ \E p \in rows :
                                   p.binding = t.call.binding /\ p.ident = i}}
<1>1. \A p \in ProfileRow : /\ HoldsProfile(t, f(p)) <=> HoldsProfile(t, p)
                            /\ ~HoldsProfile(t, p) => f(p) = p
  <2> TAKE p \in ProfileRow
  <2>1. p.binding = t.call.binding /\ p.ident \in idents => HoldsProfile(t, p)
    BY DEF HoldsProfile
  <2>20. f(p).binding = p.binding /\ f(p).ident = p.ident
    BY InSlot
  <2>2. HoldsProfile(t, f(p)) <=> HoldsProfile(t, p)
    BY <2>20 DEF HoldsProfile
  <2>3. QED
    BY <2>1, <2>2
<1>2. \A p \in new(R) : HoldsProfile(t, p)
  <2>1. \A i \in idents : HoldsProfile(t, NewProfile(t.call, i, FALSE))
    BY DEF HoldsProfile, NewProfile
  <2>2. QED
    BY <2>1
<1>3. WithOthers(t.call, idents, R) = {f(p) : p \in R} \cup new(R)
  BY DEF WithOthers
<1> HIDE DEF f, new
<1>4. QED
  BY <1>1, <1>2, <1>3 DEF Beyond

\* What saveDefaultProfile makes of profiles is profiles.
LEMMA DefaultTyped ==
    ASSUME NEW call \in BindCall, NEW R, R \subseteq ProfileRow, NEW seen,
           1 \in DOMAIN call.found
    PROVE  WithDefault(call, seen, R) \subseteq ProfileRow
<1>1. call.found[1] \in Idents
  BY LifecycleAssumption DEF BindCall
<1>2. CallKey(call) \in Keys
  BY LifecycleAssumption DEF CallKey, BoundKey, BindCall, Keys, Kinds
<1>3. NewProfile(call, call.found[1], TRUE) \in ProfileRow
  BY <1>1, <1>2 DEF NewProfile, ProfileRow, BindCall
<1>4. \A p \in ProfileRow :
         [p EXCEPT !.key = CallKey(call), !.default = TRUE] \in ProfileRow
  BY <1>2 DEF ProfileRow
<1>5. QED
  BY <1>3, <1>4 DEF WithDefault

\* The rows of a bind's snapshot that are visible, and those it has deleted,
\* are settled by the locks on what it deletes.
LEMMA VisibleAlike ==
    ASSUME NEW t, NEW P, NEW P2, LiveP(t, P), Alike(t, P, P2),
           Done(t, "forget_profiles"),
           \A p \in P2 : p \notin P => ~ProfileScanned(t, p)
    PROVE  /\ \A p \in P \cup P2 : p.key \in Gone(t.call) =>
                 HoldsProfile(t, p) /\ p \in P /\ p \in P2
           /\ VisibleIn(P, t.call) = VisibleIn(P2, t.call)
<1>1. \A p \in P \cup P2 : p.key \in Gone(t.call) =>
         HoldsProfile(t, p) /\ p \in P /\ p \in P2
  BY DEF LiveP, ProfileScanned, Alike
<1>2. \A p : (\E q \in P : SameRow(p, q) /\ q.key \in Gone(t.call))
         <=> (\E q \in P2 : SameRow(p, q) /\ q.key \in Gone(t.call))
  BY <1>1
<1>3. QED
  BY <1>1, <1>2 DEF VisibleIn

\* What the bind has made of the profiles before it prunes.
LEMMA BoundAlike ==
    ASSUME NEW t, t.call \in BindCall, ~t.undo, t.at \in Nat \ {0},
           \A p \in t.call.rows : p.binding = t.call.binding,
           NEW P, NEW P2, P \subseteq ProfileRow, P2 \subseteq ProfileRow,
           LiveP(t, P), Alike(t, P, P2),
           \A p \in P2 : p \notin P => ~ProfileScanned(t, p)
    PROVE  /\ Alike(t, BoundSoFar(t, P), BoundSoFar(t, P2))
           /\ Beyond(t, BoundSoFar(t, P2), P2)
<1>1. CASE ~Done(t, "forget_profiles")
  <2>1. 1 \notin Saved(t)
    BY <1>1, BindDone DEF Saved
  <2>2. QED
    BY <1>1, <2>1 DEF BoundSoFar, Beyond
<1>2. CASE Done(t, "forget_profiles")
  <2>1. /\ \A p \in P \cup P2 : p.key \in Gone(t.call) =>
              HoldsProfile(t, p) /\ p \in P /\ p \in P2
        /\ VisibleIn(P, t.call) = VisibleIn(P2, t.call)
    BY <1>2, VisibleAlike
  <2>2. /\ Alike(t, KeptIn(P, t.call), KeptIn(P2, t.call))
        /\ Beyond(t, KeptIn(P2, t.call), P2)
    BY <2>1 DEF Alike, Beyond, KeptIn
  <2>3. CASE 1 \notin Saved(t)
    BY <1>2, <2>2, <2>3 DEF BoundSoFar
  <2>4. CASE 1 \in Saved(t)
    <3> DEFINE seen == SeenDefault(P, t.call)
               rest == {t.call.found[j] : j \in Saved(t) \ {1}}
               D == WithDefault(t.call, seen, KeptIn(P, t.call))
               D2 == WithDefault(t.call, seen, KeptIn(P2, t.call))
    <3>1. /\ BoundSoFar(t, P) = WithOthers(t.call, rest, D)
          /\ BoundSoFar(t, P2) = WithOthers(t.call, rest, D2)
      BY <2>1, <2>4 DEF BoundSoFar, DefaultSaved, SeenDefault
    <3>2. \A i \in SavedIdents(t) : <<"profile", t.call.binding, i>> \in t.rows
      BY DEF LiveP, Binds, BindCall
    <3>3. /\ \A i \in rest : <<"profile", t.call.binding, i>> \in t.rows
          /\ <<"profile", t.call.binding, t.call.found[1]>> \in t.rows
      BY <3>2, <2>4 DEF SavedIdents
    <3>4. /\ KeptIn(P, t.call) \subseteq ProfileRow
          /\ KeptIn(P2, t.call) \subseteq ProfileRow
      BY DEF KeptIn
    <3>5. D \subseteq ProfileRow /\ D2 \subseteq ProfileRow
      BY <3>4, <2>4, DefaultTyped DEF Saved
    <3>6. \A q \in seen : HoldsProfile(t, q)
      BY <3>3 DEF SeenDefault, VisibleIn, HoldsProfile
    <3>7. \A d : HoldsProfile(t, NewProfile(t.call, t.call.found[1], d))
      BY <3>3 DEF HoldsProfile, NewProfile
    <3> HIDE DEF seen, rest
    <3>8. Alike(t, D, D2)
      BY <2>2, <3>4, DefaultAlike
    <3>9. Beyond(t, D2, KeptIn(P2, t.call))
      BY <3>4, <3>6, <3>7, DefaultBeyond
    <3> HIDE DEF D, D2
    <3>10. Alike(t, WithOthers(t.call, rest, D), WithOthers(t.call, rest, D2))
      BY <3>3, <3>5, <3>8, OthersAlike
    <3>11. Beyond(t, WithOthers(t.call, rest, D2), D2)
      BY <3>3, <3>5, OthersBeyond
    <3>12. QED
      BY <2>2, <3>1, <3>9, <3>10, <3>11 DEF Beyond
  <2>5. QED
    BY <2>3, <2>4
<1>3. QED
  BY <1>1, <1>2

\* And all of it, whichever RPC's transaction it is.
LEMMA ProfilesAlike ==
    ASSUME NEW t, Shaped(t), ~t.undo,
           Binds(t) => \A p \in t.call.rows : p.binding = t.call.binding,
           NEW P, NEW P2, P \subseteq ProfileRow, P2 \subseteq ProfileRow,
           LiveP(t, P), Alike(t, P, P2),
           \A p \in P2 : p \notin P => ~ProfileScanned(t, p)
    PROVE  /\ Alike(t, ProfilesSoFar(t, P), ProfilesSoFar(t, P2))
           /\ Beyond(t, ProfilesSoFar(t, P2), P2)
<1>1. \A p \in P2 : ProfileScanned(t, p) => HoldsProfile(t, p)
  BY DEF LiveP, Alike
<1>2. CASE Binds(t)
  <2>1. t.call \in BindCall /\ t.at \in Nat \ {0}
    BY <1>2 DEF Shaped, Binds, Calls, RevalidateCall, DeleteCall, DeviceCall,
                ConfirmCall
  <2>2. /\ Alike(t, BoundSoFar(t, P), BoundSoFar(t, P2))
        /\ Beyond(t, BoundSoFar(t, P2), P2)
    BY <1>2, <2>1, BoundAlike
  <2>3. ASSUME NEW p, Done(t, "prune"), ~HoldsProfile(t, p),
               p \in BoundSoFar(t, P2) \/ p \in P2
        PROVE  p.binding # t.call.binding
    BY <1>1, <2>2, <2>3 DEF Beyond, ProfileScanned, ScansBinding
  <2>4. CASE Done(t, "prune")
    <3>1. \A rows, p : p \in Prune(t.call, rows) <=>
             /\ p \in rows
             /\ \/ t.call.op = "bind"
                \/ p.binding = t.call.binding =>
                     p.ident \in {t.call.found[i] : i \in DOMAIN t.call.found}
      BY DEF Prune, DeleteMissing
    <3>2. /\ ProfilesSoFar(t, P) = Prune(t.call, BoundSoFar(t, P))
          /\ ProfilesSoFar(t, P2) = Prune(t.call, BoundSoFar(t, P2))
      BY <1>2, <2>4 DEF ProfilesSoFar
    <3>3. QED
      BY <2>2, <2>3, <2>4, <3>1, <3>2 DEF Alike, Beyond
  <2>5. CASE ~Done(t, "prune")
    BY <1>2, <2>2, <2>5 DEF ProfilesSoFar
  <2>6. QED
    BY <2>4, <2>5
<1>3. CASE ~Binds(t)
  <2>1. CASE Done(t, "wipe_profiles")
    BY <1>1, <1>3, <2>1 DEF ProfilesSoFar, Alike, Beyond, ProfileScanned, ScansBinding
  <2>2. CASE ~Done(t, "wipe_profiles") /\ Done(t, "choose")
    <3>0. Done(t, "clear")
      BY <1>3, <2>2, DeleteDone, ConfirmDone DEF Shaped, Binds
    <3>1. \A p \in P2 : p.binding = t.call.binding => HoldsProfile(t, p)
      BY <1>1, <3>0 DEF ProfileScanned, ScansBinding
    <3> DEFINE f(p) == IF p.binding = t.call.binding
                       THEN [p EXCEPT !.default = Chosen(t.call, p)] ELSE p
    <3>2. \A p \in ProfileRow : f(p).binding = p.binding /\ f(p).ident = p.ident
      BY InSlot
    <3>3. \A p \in ProfileRow : HoldsProfile(t, f(p)) <=> HoldsProfile(t, p)
      BY <3>2 DEF HoldsProfile
    <3>4. \A p \in P2 : ~HoldsProfile(t, p) => f(p) = p
      BY <3>1
    <3>5. /\ ProfilesSoFar(t, P) = {f(p) : p \in P}
          /\ ProfilesSoFar(t, P2) = {f(p) : p \in P2}
      BY <1>3, <2>2 DEF ProfilesSoFar, WithChosen
    <3> HIDE DEF f
    <3>6. QED
      BY <3>3, <3>4, <3>5 DEF Alike, Beyond
  <2>3. CASE /\ ~Done(t, "wipe_profiles") /\ ~Done(t, "choose")
             /\ Done(t, "clear")
    <3>1. \A p \in P2 : p.binding = t.call.binding => HoldsProfile(t, p)
      BY <1>1, <2>3 DEF ProfileScanned, ScansBinding
    <3> DEFINE f(p) == IF p.binding = t.call.binding
                       THEN [p EXCEPT !.default = FALSE] ELSE p
    <3>2. \A p \in ProfileRow : f(p).binding = p.binding /\ f(p).ident = p.ident
      BY InSlot
    <3>3. \A p \in ProfileRow : HoldsProfile(t, f(p)) <=> HoldsProfile(t, p)
      BY <3>2 DEF HoldsProfile
    <3>4. \A p \in P2 : ~HoldsProfile(t, p) => f(p) = p
      BY <3>1
    <3>5. /\ ProfilesSoFar(t, P) = {f(p) : p \in P}
          /\ ProfilesSoFar(t, P2) = {f(p) : p \in P2}
      BY <1>3, <2>3 DEF ProfilesSoFar, WithoutDefault
    <3> HIDE DEF f
    <3>6. QED
      BY <3>3, <3>4, <3>5 DEF Alike, Beyond
  <2>4. CASE /\ ~Done(t, "wipe_profiles") /\ ~Done(t, "choose")
             /\ ~Done(t, "clear")
    BY <1>3, <2>4 DEF ProfilesSoFar, Beyond
  <2>5. QED
    BY <2>1, <2>2, <2>3, <2>4
<1>4. QED
  BY <1>2, <1>3

\* The default profile that a bind was let save still fits, after others
\* have written: they had the binding to themselves, or added nothing to it.
LEMMA DefaultSurvives ==
    ASSUME NEW t, t.call \in BindCall, ~t.undo, t.at \in Nat \ {0},
           \A p \in t.call.rows : p.binding = t.call.binding,
           NEW P, NEW P2, P \subseteq ProfileRow, P2 \subseteq ProfileRow,
           LiveP(t, P), Alike(t, P, P2), UniqueProfiles(P2), 1 \in Saved(t),
           \A p \in P2 : p \notin P => ~ProfileScanned(t, p),
           \A p \in P2 : p \notin P /\ p.binding = t.call.binding =>
               \A q \in P \cup t.profiles.add :
                  q.binding = t.call.binding => ~HoldsProfile(t, q)
    PROVE  DefaultFits(P2, t.call)
<1> DEFINE b == t.call.binding
           seen == SeenDefault(P, t.call)
           n == NewProfile(t.call, t.call.found[1], TRUE)
<1>1. Done(t, "forget_profiles") /\ 1 \in DOMAIN t.call.found
  BY BindDone DEF Saved
<1>2. /\ VisibleIn(P, t.call) = VisibleIn(P2, t.call)
      /\ DefaultFits(P, t.call)
  BY <1>1, VisibleAlike DEF LiveP, Binds, BindCall
<1>3. <<"profile", b, t.call.found[1]>> \in t.rows
  BY DEF LiveP, Binds, BindCall, SavedIdents
<1>4. /\ DefaultSaved(P, t.call) = WithDefault(t.call, seen, KeptIn(P, t.call))
      /\ DefaultSaved(P2, t.call) = WithDefault(t.call, seen, KeptIn(P2, t.call))
  BY <1>2 DEF DefaultSaved, SeenDefault
<1>5. \A q \in seen : q.binding = b /\ q.ident = t.call.found[1]
  BY DEF SeenDefault, VisibleIn
<1> DEFINE f(p) == IF \E q \in seen : SameRow(p, q)
                   THEN [p EXCEPT !.key = CallKey(t.call), !.default = TRUE]
                   ELSE p
<1>6. \A p \in ProfileRow : f(p).binding = p.binding
  BY InSlot
<1>7. \A p : p.binding # b => f(p) = p
  BY <1>5 DEF SameRow
<1>8. \A rows : /\ seen = {} => WithDefault(t.call, seen, rows) = rows \cup {n}
                /\ seen # {} => WithDefault(t.call, seen, rows) = {f(p) : p \in rows}
  BY DEF WithDefault
<1>9. n.binding = b /\ n.ident = t.call.found[1]
  BY DEF NewProfile
<1>10. CASE \A p \in P2 : p.binding = b => p \in P
  <2>1. \A x \in DefaultSaved(P2, t.call) :
           IF x.binding = b THEN x \in DefaultSaved(P, t.call) ELSE x \in P2
    <3> HIDE DEF f, n, seen, b
    <3>1. KeptIn(P2, t.call) \subseteq P2 /\ P2 \subseteq ProfileRow
      BY DEF KeptIn
    <3>2. \A p \in KeptIn(P2, t.call) : p.binding = b => p \in KeptIn(P, t.call)
      BY <1>10 DEF KeptIn
    <3>3. CASE seen = {}
      BY <1>4, <1>8, <1>9, <3>1, <3>2, <3>3
    <3>4. CASE seen # {}
      <4> TAKE x \in DefaultSaved(P2, t.call)
      <4>1. PICK p \in KeptIn(P2, t.call) : x = f(p)
        BY <1>4, <1>8, <3>4
      <4>2. x.binding = p.binding /\ (p.binding # b => x = p)
        BY <1>6, <1>7, <3>1, <4>1
      <4>3. p.binding = b => f(p) \in DefaultSaved(P, t.call)
        BY <1>4, <1>8, <3>2, <3>4
      <4>4. QED
        BY <3>1, <4>1, <4>2, <4>3
    <3>5. QED
      BY <3>3, <3>4
  <2>2. UniqueProfiles(DefaultSaved(P2, t.call))
    BY <1>2, <2>1 DEF UniqueProfiles, DefaultFits
  <2>3. QED
    BY <1>2, <2>2 DEF DefaultFits
<1>11. CASE \E p \in P2 : p.binding = b /\ p \notin P
  <2>1. \A q \in P \cup t.profiles.add : q.binding = b => ~HoldsProfile(t, q)
    BY <1>11
  <2>2. seen # {}
    <3> SUFFICES ASSUME seen = {} PROVE FALSE
      OBVIOUS
    <3> DEFINE rest == {t.call.found[j] : j \in Saved(t) \ {1}}
    <3>1. n \in DefaultSaved(P, t.call)
      <4> HIDE DEF f, n, seen
      <4>1. WithDefault(t.call, seen, KeptIn(P, t.call)) = KeptIn(P, t.call) \cup {n}
        BY <1>8
      <4>2. QED
        BY <1>4, <4>1
    <3>2. n.ident \notin rest
      <4>1. Injective(t.call.found)
        BY LifecycleAssumption DEF BindCall
      <4>2. QED
        BY <1>1, <1>9, <4>1 DEF Injective, Saved
    <3>3. BoundSoFar(t, P) = WithOthers(t.call, rest, DefaultSaved(P, t.call))
      BY DEF BoundSoFar
    <3> HIDE DEF n, rest
    <3>4. n \in BoundSoFar(t, P)
      BY <3>1, <3>2, <3>3 DEF WithOthers
    <3>5. n \in Prune(t.call, BoundSoFar(t, P))
      BY <1>1, <1>9, <3>4 DEF Prune, DeleteMissing
    <3>6. n \in ProfilesSoFar(t, P)
      BY <3>4, <3>5 DEF ProfilesSoFar, Binds, BindCall
    <3>7. n \in P \cup t.profiles.add
      BY <3>6 DEF LiveP, Seen
    <3>8. HoldsProfile(t, n)
      BY <1>3, <1>9 DEF HoldsProfile
    <3>9. QED
      BY <1>9, <2>1, <3>7, <3>8
  <2>3. \A p \in KeptIn(P2, t.call) : ~ \E q \in seen : SameRow(p, q)
    <3> SUFFICES ASSUME NEW p \in KeptIn(P2, t.call), NEW q \in seen, SameRow(p, q)
                 PROVE  FALSE
      OBVIOUS
    <3>1. p.binding = b /\ HoldsProfile(t, p) /\ p \in P2
      BY <1>3, <1>5 DEF SameRow, HoldsProfile, KeptIn
    <3>2. p \in P
      BY <3>1 DEF Alike
    <3>3. QED
      BY <2>1, <3>1, <3>2
  <2>4. DefaultSaved(P2, t.call) \subseteq P2
    <3>1. \A p \in KeptIn(P2, t.call) : f(p) = p /\ p \in P2
      BY <2>3 DEF KeptIn
    <3> HIDE DEF f
    <3> HIDE DEF n, seen
    <3>2. DefaultSaved(P2, t.call) = {f(p) : p \in KeptIn(P2, t.call)}
      BY <1>4, <1>8, <2>2
    <3>3. QED
      BY <3>1, <3>2
  <2>5. UniqueProfiles(DefaultSaved(P2, t.call))
    BY <2>4 DEF UniqueProfiles
  <2>6. QED
    BY <1>2, <2>5 DEF DefaultFits
<1>12. QED
  BY <1>10, <1>11

\* So is the profile that a Confirm has chosen.
LEMMA ChosenSurvives ==
    ASSUME NEW t, Shaped(t), ~t.undo, Done(t, "choose"),
           NEW P, NEW P2, P \subseteq ProfileRow, P2 \subseteq ProfileRow,
           LiveP(t, P), Alike(t, P, P2), UniqueProfiles(P2),
           \A p \in P2 : p \notin P => ~ProfileScanned(t, p)
    PROVE  /\ \E p \in P2 : Chosen(t.call, p)
           /\ UniqueProfiles(WithChosen(P2, t.call))
<1> DEFINE b == t.call.binding
           f(p) == IF p.binding = b
                   THEN [p EXCEPT !.default = Chosen(t.call, p)] ELSE p
<1>1. Done(t, "clear")
  <2>1. ~Binds(t)
    BY BindDone DEF Shaped, Binds, Calls, RevalidateCall, DeleteCall, DeviceCall,
                ConfirmCall
  <2>2. QED
    BY <2>1, DeleteDone, ConfirmDone DEF Shaped, Binds
<1>2. \A p : p.binding = b => (p \in P <=> p \in P2)
  BY <1>1 DEF LiveP, ProfileScanned, ScansBinding, Alike
<1>3. \E p \in P2 : Chosen(t.call, p)
  BY <1>2 DEF LiveP, Chosen
<1>4. \A rows : WithChosen(rows, t.call) = {f(p) : p \in rows}
  BY DEF WithChosen
<1>5. \A p \in ProfileRow : f(p).binding = p.binding /\ (p.binding # b => f(p) = p)
  BY InSlot
<1> HIDE DEF f, b
<1>6. \A x \in WithChosen(P2, t.call) :
         IF x.binding = b THEN x \in WithChosen(P, t.call) ELSE x \in P2
  <2> TAKE x \in WithChosen(P2, t.call)
  <2>1. PICK p \in P2 : x = f(p)
    BY <1>4
  <2>2. x.binding = p.binding /\ (p.binding # b => x = p)
    BY <1>5, <2>1
  <2>3. QED
    BY <1>2, <1>4, <2>1, <2>2
<1>7. UniqueProfiles(WithChosen(P, t.call))
  BY DEF LiveP
<1>8. UniqueProfiles(WithChosen(P2, t.call))
  BY <1>6, <1>7 DEF UniqueProfiles
<1>9. QED
  BY <1>3, <1>8

\* What a transaction has done to the profiles stays as good when others
\* change none of the rows it has locked and add none that it has scanned.
LEMMA ProfilesSurvive ==
    ASSUME NEW t, Shaped(t), ~t.undo,
           Binds(t) => \A p \in t.call.rows : p.binding = t.call.binding,
           NEW P, NEW P2, P \subseteq ProfileRow, P2 \subseteq ProfileRow,
           LiveP(t, P), Alike(t, P, P2), UniqueProfiles(P2),
           \A p \in P2 : p \notin P => ~ProfileScanned(t, p),
           Binds(t) /\ 1 \in Saved(t) =>
             \A p \in P2 : p \notin P /\ p.binding = t.call.binding =>
               \A q \in P \cup t.profiles.add :
                  q.binding = t.call.binding => ~HoldsProfile(t, q)
    PROVE  LiveP(t, P2)
<1>1. /\ Alike(t, ProfilesSoFar(t, P), ProfilesSoFar(t, P2))
      /\ Beyond(t, ProfilesSoFar(t, P2), P2)
  BY ProfilesAlike
<1>2. Seen(P2, t.profiles) = ProfilesSoFar(t, P2)
  <2> DEFINE F == ProfilesSoFar(t, P)
             F2 == ProfilesSoFar(t, P2)
  <2>1. Seen(P, t.profiles) = F
    BY DEF LiveP
  <2> HIDE DEF F, F2
  <2>2. \A x : \/ (x \in P <=> x \in P2) /\ (x \in F <=> x \in F2)
               \/ x \notin Touched(t.profiles) /\ (x \in F2 <=> x \in P2)
    BY <1>1 DEF F, F2, Alike, Beyond, LiveP
  <2>3. Seen(P2, t.profiles) = F2
    BY <2>1, <2>2 DEF Seen, Touched
  <2>4. QED
    BY <2>3 DEF F2
<1>3. \A p \in P2 : ProfileScanned(t, p) => HoldsProfile(t, p)
  BY DEF LiveP
<1>4. ASSUME Binds(t), 1 \in Saved(t)
      PROVE  DefaultFits(P2, t.call)
  <2>1. t.call \in BindCall /\ t.at \in Nat \ {0}
    BY <1>4 DEF Shaped, Binds, Calls, RevalidateCall, DeleteCall, DeviceCall,
                ConfirmCall
  <2>2. QED
    BY <1>4, <2>1, DefaultSurvives
<1>5. Done(t, "choose") => /\ \E p \in P2 : Chosen(t.call, p)
                           /\ UniqueProfiles(WithChosen(P2, t.call))
  BY ChosenSurvives
<1>6. QED
  BY <1>2, <1>3, <1>4, <1>5 DEF LiveP

\* What is inserted where u has scanned would land in a gap u holds, unless
\* there was an entry for it, which u has locked.
LEMMA CredentialMissed ==
    ASSUME NEW u, GapsHeld(u), NEW C, LiveC(u, C), NEW before, NEW after,
           \A c \in before : c \in C \/ ~CredentialScanned(u, c),
           u.gaps \cap CredentialsInserted(before, after) = {},
           NEW x \in after, ~HoldsAny(u, x)
    PROVE  ~CredentialScanned(u, x)
<1> SUFFICES ASSUME CredentialScanned(u, x) PROVE FALSE
  OBVIOUS
<1>1. x.binding = u.call.binding /\ Done(u, "wipe_credential")
  BY DEF CredentialScanned
<1>2. <<"binding", u.call.binding>> \notin u.rows
  BY <1>1 DEF HoldsAny
<1>3. <<"credentials", "binding", u.call.binding>> \in u.gaps
  BY <1>1, <1>2 DEF GapsHeld
<1>4. \A c \in before : c.binding # x.binding
  <2> SUFFICES ASSUME NEW c \in before, c.binding = x.binding PROVE FALSE
    OBVIOUS
  <2>1. CredentialScanned(u, c)
    BY <1>1 DEF CredentialScanned
  <2>2. HoldsAll(u, c)
    BY <2>1 DEF LiveC
  <2>3. QED
    BY <1>1, <1>2, <2>2 DEF HoldsAll
<1>5. <<"credentials", "binding", x.binding>> \in CredentialsInserted(before, after)
  BY <1>4 DEF CredentialsInserted
<1>6. QED
  BY <1>1, <1>3, <1>5

\* The same for a device: both of its entries are new, or locked.
LEMMA DeviceMissed ==
    ASSUME NEW u, GapsHeld(u), NEW D, LiveD(u, D), NEW before, NEW after,
           \A d \in before : d \in D \/ ~DeviceScanned(u, d),
           u.gaps \cap DevicesInserted(before, after) = {},
           \A d \in before \cup after : InScope(d.key, d.binding),
           NEW x \in after, ~HoldsDevice(u, x)
    PROVE  ~DeviceScanned(u, x)
<1>1. ASSUME Done(u, "wipe_devices"), x.binding = u.call.binding
      PROVE  FALSE
  <2>1. <<"devices", "binding", x.binding>> \in u.gaps
    BY <1>1 DEF GapsHeld
  <2> DEFINE e == <<"devices", "binding", x.binding, x.device>>
  <2>2. e \in DeviceEntries(after)
    BY DEF DeviceEntries
  <2>3. <<e[1], e[2], e[3]>> = <<"devices", "binding", x.binding>>
    OBVIOUS
  <2>4. e \notin DeviceEntries(before)
    <3> SUFFICES ASSUME e \in DeviceEntries(before) PROVE FALSE
      OBVIOUS
    <3>1. PICK d \in before : d.binding = x.binding /\ d.device = x.device
      BY DEF DeviceEntries
    <3>2. DeviceScanned(u, d)
      BY <1>1, <3>1 DEF DeviceScanned
    <3>3. HoldsDevice(u, d)
      BY <3>2 DEF LiveD
    <3>4. QED
      BY <3>1, <3>3 DEF HoldsDevice
  <2> HIDE DEF e
  <2>5. <<"devices", "binding", x.binding>> \in DevicesInserted(before, after)
    BY <2>2, <2>3, <2>4 DEF DevicesInserted, Inserted
  <2>6. QED
    BY <2>1, <2>5
<1>2. ASSUME Done(u, "forget_devices"), x.key \in Replaced(u.call)
      PROVE  FALSE
  <2>1. <<"devices", "key", x.key>> \in u.gaps
    BY <1>2 DEF GapsHeld
  <2> DEFINE e == <<"devices", "key", x.key, x.device>>
  <2>2. e \in DeviceEntries(after)
    BY DEF DeviceEntries
  <2>3. <<e[1], e[2], e[3]>> = <<"devices", "key", x.key>>
    OBVIOUS
  <2>4. e \notin DeviceEntries(before)
    <3> SUFFICES ASSUME e \in DeviceEntries(before) PROVE FALSE
      OBVIOUS
    <3>1. PICK d \in before : d.key = x.key /\ d.device = x.device
      BY DEF DeviceEntries
    <3>2. DeviceScanned(u, d)
      BY <1>2, <3>1 DEF DeviceScanned
    <3>3. HoldsDevice(u, d)
      BY <3>2 DEF LiveD
    <3>4. d.binding = x.binding
      BY <3>1 DEF InScope
    <3>5. QED
      BY <3>1, <3>3, <3>4 DEF HoldsDevice
  <2> HIDE DEF e
  <2>5. <<"devices", "key", x.key>> \in DevicesInserted(before, after)
    BY <2>2, <2>3, <2>4 DEF DevicesInserted, Inserted
  <2>6. QED
    BY <2>1, <2>5
<1>3. QED
  BY <1>1, <1>2 DEF DeviceScanned

\* And for a profile.
LEMMA ProfileMissed ==
    ASSUME NEW u, GapsHeld(u), NEW P, LiveP(u, P), NEW before, NEW after,
           \A p \in before : p \in P \/ ~ProfileScanned(u, p),
           u.gaps \cap ProfilesInserted(before, after) = {},
           \A p \in before \cup after : InScope(p.key, p.binding),
           NEW x \in after, ~HoldsProfile(u, x)
    PROVE  ~ProfileScanned(u, x)
<1>1. ASSUME ScansBinding(u), x.binding = u.call.binding
      PROVE  FALSE
  <2>1. <<"profiles", "binding", x.binding>> \in u.gaps
    BY <1>1 DEF GapsHeld
  <2> DEFINE e == <<"profiles", "binding", x.binding, x.ident>>
  <2>2. e \in ProfileEntries(after)
    BY DEF ProfileEntries
  <2>3. <<e[1], e[2], e[3]>> = <<"profiles", "binding", x.binding>>
    OBVIOUS
  <2>4. e \notin ProfileEntries(before)
    <3> SUFFICES ASSUME e \in ProfileEntries(before) PROVE FALSE
      OBVIOUS
    <3>1. PICK p \in before : p.binding = x.binding /\ p.ident = x.ident
      BY DEF ProfileEntries
    <3>2. ProfileScanned(u, p)
      BY <1>1, <3>1 DEF ProfileScanned
    <3>3. HoldsProfile(u, p)
      BY <3>2 DEF LiveP
    <3>4. QED
      BY <3>1, <3>3 DEF HoldsProfile
  <2> HIDE DEF e
  <2>5. <<"profiles", "binding", x.binding>> \in ProfilesInserted(before, after)
    BY <2>2, <2>3, <2>4 DEF ProfilesInserted, Inserted
  <2>6. QED
    BY <2>1, <2>5
<1>2. ASSUME Done(u, "forget_profiles"), x.key \in Gone(u.call)
      PROVE  FALSE
  <2>1. <<"profiles", "key", x.key>> \in u.gaps
    BY <1>2 DEF GapsHeld
  <2> DEFINE e == <<"profiles", "key", x.key, x.ident>>
  <2>2. e \in ProfileEntries(after)
    BY DEF ProfileEntries
  <2>3. <<e[1], e[2], e[3]>> = <<"profiles", "key", x.key>>
    OBVIOUS
  <2>4. e \notin ProfileEntries(before)
    <3> SUFFICES ASSUME e \in ProfileEntries(before) PROVE FALSE
      OBVIOUS
    <3>1. PICK p \in before : p.key = x.key /\ p.ident = x.ident
      BY DEF ProfileEntries
    <3>2. ProfileScanned(u, p)
      BY <1>2, <3>1 DEF ProfileScanned
    <3>3. HoldsProfile(u, p)
      BY <3>2 DEF LiveP
    <3>4. p.binding = x.binding
      BY <3>1 DEF InScope
    <3>5. QED
      BY <3>1, <3>3, <3>4 DEF HoldsProfile
  <2> HIDE DEF e
  <2>5. <<"profiles", "key", x.key>> \in ProfilesInserted(before, after)
    BY <2>2, <2>3, <2>4 DEF ProfilesInserted, Inserted
  <2>6. QED
    BY <2>1, <2>5
<1>3. QED
  BY <1>1, <1>2 DEF ProfileScanned

-----------------------------------------------------------------------------
(* The others, when the tables change.                                     *)

GInv == IInv /\ LInv /\ WriteInv

\* A step from these tables to those keeps off what u has locked or scanned.
CredentialsApart(u, C, C2) ==
    /\ \A c : HoldsAny(u, c) => (c \in C <=> c \in C2)
    /\ \A c \in C2 : c \notin C => ~CredentialScanned(u, c)
DevicesApart(u, D, D2) ==
    /\ \A d : HoldsDevice(u, d) => (d \in D <=> d \in D2)
    /\ \A d \in D2 : d \notin D => ~DeviceScanned(u, d)
ProfilesApart(u, P, P2) ==
    /\ Alike(u, P, P2)
    /\ \A p \in P2 : p \notin P => ~ProfileScanned(u, p)
    /\ Binds(u) /\ 1 \in Saved(u) =>
         \A p \in P2 : p \notin P /\ p.binding = u.call.binding =>
           \A q \in P \cup u.profiles.add :
              q.binding = u.call.binding => ~HoldsProfile(u, q)

\* A table that does not change is kept off.
LEMMA ApartSame ==
    ASSUME NEW u, NEW T
    PROVE  CredentialsApart(u, T, T) /\ DevicesApart(u, T, T) /\ ProfilesApart(u, T, T)
  BY DEF CredentialsApart, DevicesApart, ProfilesApart, Alike

\* A transaction that may still commit is of a call that is running.
LEMMA LiveCalls ==
    ASSUME GInv, NEW u \in txns, ~u.undo
    PROVE  /\ Shaped(u) /\ Live(u) /\ ~u.detached /\ u.call \in inflight
           /\ CallSound(u.call) /\ Opened(u.call)
<1>1. Shaped(u) /\ Live(u)
  BY DEF GInv, WriteInv
<1>2. ~u.detached
  BY DEF GInv, LInv, TxnsSound, TxnSound
<1>3. u.call \in inflight /\ Opened(u.call)
  BY <1>2 DEF GInv, LInv, LocksHaveCallers, TxnsSound, TxnSound
<1>4. CallSound(u.call)
  BY <1>3 DEF GInv, IInv, Sound, CallsAgree
<1>5. QED
  BY <1>1, <1>2, <1>3, <1>4

\* What CredentialLifecycle's invariant says of the tables.
LEMMA SoundTables ==
    ASSUME IInv
    PROVE  /\ Coherent(credentials) /\ profiles \subseteq ProfileRow
           /\ \A row \in devices \cup profiles : InScope(row.key, row.binding)
  BY DEF IInv, TypeOK, Sound, CredentialSound, Coherent

\* A step that keeps off what u has locked or scanned leaves it live.
LEMMA LiveStays ==
    ASSUME GInv, IInv', UniqueProfiles(profiles'), NEW u \in txns, ~u.undo,
           CredentialsApart(u, credentials, credentials'),
           DevicesApart(u, devices, devices'),
           ProfilesApart(u, profiles, profiles')
    PROVE  Live(u)'
<1>1. Shaped(u) /\ Live(u) /\ CallSound(u.call)
  BY LiveCalls
<1>2. Binds(u) => \A p \in u.call.rows : p.binding = u.call.binding
  BY <1>1 DEF CallSound, Binds
<1>3. Coherent(credentials) /\ profiles \subseteq ProfileRow
  BY SoundTables DEF GInv
<1>4. Coherent(credentials') /\ profiles' \subseteq ProfileRow
  BY DEF IInv, TypeOK, Sound, CredentialSound, Coherent
<1>5. LiveC(u, credentials')
  BY <1>1, <1>3, <1>4, CredentialsSurvive DEF Live, CredentialsApart
<1>6. LiveD(u, devices')
  BY <1>1, DevicesSurvive DEF Live, DevicesApart
<1>7. LiveP(u, profiles')
  BY <1>1, <1>2, <1>3, <1>4, ProfilesSurvive DEF Live, ProfilesApart
<1>8. GapsHeld(u) /\ AddsOwn(u)
  BY <1>1 DEF Live
<1>9. QED
  BY <1>5, <1>6, <1>7, <1>8 DEF Live

\* What a bind read stays sound: history only grows.
LEMMA ReadStays ==
    ASSUME submitted \subseteq submitted', revalidated \subseteq revalidated',
           NEW call, ReadSound(call)
    PROVE  ReadSound(call)'
  BY SoundStays DEF ReadSound

\* A transaction stays live while the tables stay.
LEMMA LiveSame ==
    ASSUME UNCHANGED tables, NEW u, Live(u)
    PROVE  Live(u)'
<1>1. /\ credentials' = credentials /\ devices' = devices
      /\ profiles' = profiles
  BY DEF tables
<1>2. /\ LiveC(u, credentials') /\ LiveD(u, devices')
      /\ LiveP(u, profiles') /\ GapsHeld(u) /\ AddsOwn(u)
  BY <1>1 DEF Live
<1>3. QED
  BY <1>2 DEF Live

\* No transaction is new.
LEMMA Unmoved ==
    ASSUME GInv, IInv', LInv', UniqueProfiles(profiles'),
           \A call \in inflight' : call \in inflight \/ ReadSound(call)',
           submitted \subseteq submitted', revalidated \subseteq revalidated',
           txns' \subseteq txns, \A u \in txns' : ~u.undo => Live(u)'
    PROVE  GInv'
<1>1. UniqueProfiles(profiles)'
  BY DEF UniqueProfiles
<1>2. (\A call \in inflight : ReadSound(call))'
  BY ReadStays DEF GInv, WriteInv
<1>3. \A t \in txns' : Shaped(t)' /\ ReadSound(t.call)'
  <2> TAKE t \in txns'
  <2>1. Shaped(t) /\ ReadSound(t.call)
    BY DEF GInv, WriteInv
  <2>2. Shaped(t)'
    BY <2>1 DEF Shaped, Binds
  <2>3. QED
    BY <2>1, <2>2, ReadStays
<1>4. (\A t \in txns : ~t.undo => Live(t))'
  OBVIOUS
<1>5. LocksApart'
  BY DEF GInv, WriteInv, LocksApart, ScansMiss
<1>6. WriteInv'
  BY <1>1, <1>2, <1>3, <1>4, <1>5 DEF WriteInv
<1>7. QED
  BY <1>6 DEF GInv

\* A transaction turns to its clean-up, which goes on, alone or not.
LEMMA TurnsInto ==
    ASSUME GInv, IInv', LInv', UniqueProfiles(profiles'), inflight' \subseteq inflight,
           submitted \subseteq submitted', revalidated \subseteq revalidated',
           NEW t \in txns, NEW left, txns' = (txns \ {t}) \cup left,
           \A u, v \in left : u = v,
           \A u \in left : /\ u.undo /\ Shaped(u) /\ u.call = t.call
                           /\ u.rows \subseteq t.rows,
           \A u \in txns \ {t} : ~u.undo => Live(u)'
    PROVE  GInv'
<1>1. UniqueProfiles(profiles)'
  BY DEF UniqueProfiles
<1>2. (\A call \in inflight : ReadSound(call))'
  BY ReadStays DEF GInv, WriteInv
<1>3. \A u \in txns' : Shaped(u)' /\ ReadSound(u.call)'
  <2> TAKE u \in txns'
  <2>1. Shaped(u) /\ ReadSound(u.call)
    BY DEF GInv, WriteInv
  <2>2. Shaped(u)'
    BY <2>1 DEF Shaped, Binds
  <2>3. QED
    BY <2>1, <2>2, ReadStays
<1>4. (\A u \in txns : ~u.undo => Live(u))'
  OBVIOUS
<1>5. LocksApart'
  <2>1. \A u, v \in txns' : u # v => u.rows \cap v.rows = {}
    <3>1. \A u, v \in txns : u # v => u.rows \cap v.rows = {}
      BY DEF GInv, WriteInv, LocksApart
    <3>2. \A u \in left : u.rows \subseteq t.rows
      OBVIOUS
    <3>3. \A u \in left, v \in txns \ {t} : u.rows \cap v.rows = {}
      BY <3>1, <3>2
    <3>4. QED
      BY <3>1, <3>3
  <2>2. \A u, v \in txns' : u # v /\ ~u.undo /\ ~v.undo => ScansMiss(u, v)
    BY DEF GInv, WriteInv, LocksApart
  <2>3. QED
    BY <2>1, <2>2 DEF LocksApart, ScansMiss
<1>6. WriteInv'
  BY <1>1, <1>2, <1>3, <1>4, <1>5 DEF WriteInv
<1>7. QED
  BY <1>6 DEF GInv

\* A clean-up on its own is sound.
LEMMA AloneShaped ==
    ASSUME NEW call \in Calls, call.op \in {"bind", "update"}, NEW i \in Nat \ {0},
           NEW u \in CleanUpFrom(call, i)
    PROVE  u.undo /\ Shaped(u) /\ u.call = call /\ u.rows = {}
<1>1. u = [Started(call) EXCEPT !.at = i, !.undo = TRUE, !.detached = TRUE]
  BY DEF CleanUpFrom
<1>2. /\ u.call = call /\ u.at = i /\ u.undo = TRUE /\ u.detached = TRUE
      /\ u.rows = {} /\ u.credentials = Unwritten /\ u.devices = Unwritten
      /\ u.profiles = Unwritten
  BY <1>1 DEF Started
<1>3. Unwritten.add = {}
  BY DEF Unwritten
<1>4. QED
  BY <1>2, <1>3 DEF Shaped, Binds

-----------------------------------------------------------------------------
(* A transaction begins.                                                   *)

\* At its first statement a transaction has done nothing,
LEMMA NothingDone ==
    ASSUME NEW t, t.at = 1, t.call \in Calls, ~t.undo,
           t.call.op \in {"bind", "update", "delete", "confirm"}
    PROVE  \A s : ~Done(t, s)
<1>1. DOMAIN Statements(t) \subseteq Nat \ {0}
  <2>1. CASE t.call.op = "delete"
    <3>1. Statements(t) = DeleteStatements
      BY <2>1 DEF Statements
    <3>2. DOMAIN DeleteStatements = 1..3
      BY DEF DeleteStatements
    <3>3. QED
      BY <3>1, <3>2
  <2>2. CASE t.call.op = "confirm"
    <3>1. Statements(t) = ConfirmStatements
      BY <2>2 DEF Statements
    <3>2. DOMAIN ConfirmStatements = 1..2
      BY DEF ConfirmStatements
    <3>3. QED
      BY <3>1, <3>2
  <2>3. CASE t.call.op \in {"bind", "update"}
    <3>1. t.call \in BindCall
      BY <2>3, CallKinds
    <3>2. Statements(t) = BindStatements(t.call)
      BY <2>3 DEF Statements
    <3>3. \E n \in Nat : DOMAIN BindStatements(t.call) = 1..n
      BY <3>1, BindShape
    <3>4. QED
      BY <3>2, <3>3
  <2>4. QED
    BY <2>1, <2>2, <2>3
<1>2. QED
  BY <1>1 DEF Done

\* so it is live, and scans and adds nothing.
LEMMA StartedLive ==
    ASSUME NEW call \in Calls, call.op \in {"bind", "update", "delete", "confirm"},
           UNCHANGED tables
    PROVE  /\ Shaped(Started(call)) /\ Live(Started(call))'
           /\ ~Started(call).undo /\ Started(call).rows = {}
           /\ Started(call).call = call
           /\ \A u : ScansMiss(Started(call), u) /\ ScansMiss(u, Started(call))
<1> DEFINE t == Started(call)
<1>1. /\ t.call = call /\ t.at = 1 /\ ~t.undo /\ ~t.detached /\ t.rows = {}
      /\ t.undo \in BOOLEAN /\ t.detached \in BOOLEAN
      /\ t.credentials.del = {} /\ t.credentials.add = {}
      /\ t.devices.del = {} /\ t.devices.add = {}
      /\ t.profiles.del = {} /\ t.profiles.add = {}
  BY DEF Started, Unwritten
<1> HIDE DEF t
<1>2. \A s : ~Done(t, s)
  BY <1>1, NothingDone
<1>3. Shaped(t)
  BY <1>1 DEF Shaped
<1>4. Binds(t) => SavedIdents(t) = {} /\ Saved(t) = {}
  <2>1. CASE Binds(t)
    <3>1. call \in BindCall
      BY <1>1, <2>1, CallKinds DEF Binds
    <3>2. DOMAIN call.found \subseteq Nat
      BY <3>1, BindShape
    <3>3. Saved(t) = {}
      BY <1>1, <3>2 DEF Saved
    <3>4. QED
      BY <3>3 DEF SavedIdents
  <2>2. QED
    BY <2>1
<1>5. \A T : Seen(T, t.credentials) = T /\ Seen(T, t.devices) = T /\ Seen(T, t.profiles) = T
  BY <1>1 DEF Seen
<1>6. \A C : LiveC(t, C)
  BY <1>1, <1>2, <1>5 DEF LiveC, Touched, CredentialsSoFar, CredentialScanned
<1>7. \A D : LiveD(t, D)
  BY <1>1, <1>2, <1>5 DEF LiveD, Touched, DevicesSoFar, DeviceScanned
<1>8. \A P : LiveP(t, P)
  <2>1. \A P : ProfilesSoFar(t, P) = P
    BY <1>2, <1>4 DEF ProfilesSoFar, BoundSoFar
  <2>2. QED
    BY <1>1, <1>2, <1>4, <1>5, <2>1 DEF LiveP, Touched, ProfileScanned, ScansBinding
<1>9. GapsHeld(t) /\ AddsOwn(t)
  BY <1>1, <1>2 DEF GapsHeld, AddsOwn, ScansBinding
<1>10. Live(t)'
  BY <1>6, <1>7, <1>8, <1>9 DEF Live
<1>11. \A u : ScansMiss(t, u) /\ ScansMiss(u, t)
  BY <1>1, <1>2 DEF ScansMiss, CredentialScanned, DeviceScanned, ProfileScanned,
                    ScansBinding
<1>12. QED
  BY <1>1, <1>3, <1>10, <1>11 DEF t

-----------------------------------------------------------------------------
(* Steps that leave the tables as they are.                                *)

\* The profiles stay unique while the tables stay.
LEMMA UniqueSame ==
    ASSUME GInv, UNCHANGED tables
    PROVE  UniqueProfiles(profiles')
  BY DEF GInv, WriteInv, tables

\* An RPC begins.
LEMMA BeginStays ==
    ASSUME GInv, IInv', LInv', Begin, UNCHANGED txns
    PROVE  GInv'
<1>1. UNCHANGED tables /\ revalidated' = revalidated /\ submitted \subseteq submitted'
  BY DEF Begin, Bind, Update, Revalidate, Delete, UpsertDevice, Confirm, Start
<1>2. \A call \in inflight' : call \in inflight \/ ReadSound(call)'
  <2> SUFFICES ASSUME NEW call \in inflight', call \notin inflight
               PROVE  call.op \in {"bind", "update"} => call.creds = {}
    BY DEF ReadSound
  <2>1. QED
    BY DEF Begin, Bind, Update, Revalidate, Delete, UpsertDevice, Confirm, Start
<1>3. \A u \in txns' : ~u.undo => Live(u)'
  BY <1>1, LiveSame, LiveCalls
<1>4. QED
  BY <1>1, <1>2, <1>3, UniqueSame, Unmoved

\* A transaction begins.
LEMMA JoinStays ==
    ASSUME GInv, IInv', LInv', NEW call, txns' = txns \cup {Started(call)},
           call \in Calls, call.op \in {"bind", "update", "delete", "confirm"},
           ReadSound(call)', inflight' \subseteq inflight \cup {call},
           UNCHANGED <<tables, submitted, revalidated>>
    PROVE  GInv'
<1> DEFINE s == Started(call)
<1>1. /\ Shaped(s) /\ Live(s)' /\ ~s.undo /\ s.rows = {} /\ s.call = call
      /\ \A u : ScansMiss(s, u) /\ ScansMiss(u, s)
  BY StartedLive
<1> HIDE DEF s
<1>2. UniqueProfiles(profiles)'
  BY UniqueSame DEF UniqueProfiles
<1>3. \A c : ReadSound(c) => ReadSound(c)'
  BY ReadStays
<1>4. (\A c \in inflight : ReadSound(c))'
  BY <1>3 DEF GInv, WriteInv
<1>5. \A u \in txns' : Shaped(u)' /\ ReadSound(u.call)'
  <2> TAKE u \in txns'
  <2>1. Shaped(u) /\ ReadSound(u.call)'
    BY <1>1, <1>3 DEF GInv, WriteInv, s
  <2>2. Shaped(u)'
    BY <2>1 DEF Shaped, Binds
  <2>3. QED
    BY <2>1, <2>2
<1>6. (\A u \in txns : ~u.undo => Live(u))'
  BY <1>1, LiveSame, LiveCalls DEF s
<1>7. LocksApart'
  <2>1. \A u, v \in txns' : u # v => u.rows \cap v.rows = {}
    BY <1>1 DEF GInv, WriteInv, LocksApart, s
  <2>2. \A u, v \in txns' : u # v /\ ~u.undo /\ ~v.undo => ScansMiss(u, v)
    BY <1>1 DEF GInv, WriteInv, LocksApart, s
  <2>3. QED
    BY <2>1, <2>2 DEF LocksApart, ScansMiss
<1>8. WriteInv'
  BY <1>2, <1>4, <1>5, <1>6, <1>7 DEF WriteInv
<1>9. QED
  BY <1>8 DEF GInv

\* A Delete or Confirm begins its transaction;
LEMMA EnterStays ==
    ASSUME GInv, IInv', LInv', NEW call \in inflight, Enter(call)
    PROVE  GInv'
<1>1. UNCHANGED vars /\ txns' = txns \cup {Started(call)}
  BY DEF Enter
<1>2. call \in Calls /\ call.op \in {"bind", "update", "delete", "confirm"}
  BY DEF Enter, GInv, IInv, TypeOK
<1>3. ReadSound(call)'
  BY DEF Enter, ReadSound
<1>4. QED
  BY <1>1, <1>2, <1>3, JoinStays DEF vars, tables

\* a Bind or Update does so with its first SELECT.
LEMMA OpenStays ==
    ASSUME GInv, IInv', LInv', NEW call \in inflight, Open(call)
    PROVE  GInv'
<1>0. PICK opened : opened = [call EXCEPT
              !.step = "open",
              !.creds = {c \in credentials : c.binding = call.binding},
              !.rows = {p \in profiles : p.binding = call.binding}]
  OBVIOUS
<1>1. /\ call.op \in {"bind", "update"} /\ call.step = "prepared"
      /\ inflight' = (inflight \ {call}) \cup {opened}
      /\ UNCHANGED <<tables, submitted, revalidated>>
      /\ txns' = txns \cup {Started(c) : c \in inflight' \ inflight}
  BY <1>0 DEF Open, TxnOpen, history
<1>2. call \in BindCall
  BY <1>1, CallKinds DEF GInv, IInv, TypeOK
<1>3. /\ opened.op \in {"bind", "update"} /\ opened.step = "open"
      /\ opened.creds \subseteq credentials /\ opened.id = call.id
  BY <1>0, <1>1, <1>2 DEF BindCall
<1>4. opened \in Calls
  BY <1>1 DEF IInv, TypeOK
<1>5. ReadSound(opened)'
  <2>1. \A c \in credentials' : CredentialSound(c)'
    BY DEF IInv, Sound
  <2>2. credentials' = credentials
    BY <1>1 DEF tables
  <2>3. QED
    BY <1>3, <2>1, <2>2 DEF ReadSound
<1>6. opened \notin inflight
  <2>1. \A c, d \in inflight : c.id = d.id => c = d
    BY DEF GInv, IInv, Sound, CallsAgree
  <2>2. QED
    BY <1>1, <1>3, <2>1
<1>7. inflight' \ inflight = {opened}
  BY <1>1, <1>6
<1>8. txns' = txns \cup {Started(opened)}
  BY <1>1, <1>7
<1>9. QED
  BY <1>1, <1>3, <1>4, <1>5, <1>8, JoinStays

\* A call ends without a trace, and its transaction with it, if it had one.
LEMMA EndStays ==
    ASSUME GInv, IInv', LInv', NEW call, Fail(call), txns' \subseteq txns
    PROVE  GInv'
<1>1. /\ inflight' \subseteq inflight /\ UNCHANGED tables
      /\ submitted' = submitted /\ revalidated' = revalidated
  BY DEF Fail, history
<1>2. \A u \in txns' : ~u.undo => Live(u)'
  BY <1>1, LiveSame, LiveCalls
<1>3. QED
  BY <1>1, <1>2, UniqueSame, Unmoved

\* A step that changes no table leaves the others live.
LEMMA UndoLive ==
    ASSUME GInv, UNCHANGED tables, NEW t
    PROVE  \A u \in txns \ {t} : ~u.undo => Live(u)'
  BY LiveSame, LiveCalls

\* A statement fails.
LEMMA ErrorStays ==
    ASSUME GInv, IInv', LInv', NEW t \in txns, Error(t)
    PROVE  GInv'
<1>1. CASE Armed(t)
  <2> DEFINE later == [t EXCEPT !.undo = TRUE, !.at = 1]
             left == {later}
  <2>1. DOMAIN t = TxnFields /\ Shaped(t) /\ Binds(t) /\ ~t.detached
    BY <1>1 DEF GInv, WriteInv, LInv, TxnsSound, TxnSound, Armed, Binds
  <2>2. /\ later.undo /\ later.undo \in BOOLEAN /\ later.at = 1 /\ later.call = t.call
        /\ later.detached = t.detached /\ later.rows = t.rows
        /\ later.credentials = t.credentials /\ later.devices = t.devices
        /\ later.profiles = t.profiles
    BY <2>1 DEF TxnFields
  <2>3. txns' = (txns \ {t}) \cup left /\ UNCHANGED vars
    BY <1>1 DEF Error
  <2> HIDE DEF later
  <2>4. Shaped(later)
    BY <2>1, <2>2 DEF Shaped, Binds
  <2>5. \A u \in left : /\ u.undo /\ Shaped(u) /\ u.call = t.call
                        /\ u.rows \subseteq t.rows
    BY <2>2, <2>4
  <2>6. \A u, v \in left : u = v
    OBVIOUS
  <2>7. UNCHANGED tables /\ inflight' = inflight
    BY <2>3 DEF vars, tables
  <2>8. submitted' = submitted /\ revalidated' = revalidated
    BY <2>3 DEF vars
  <2> HIDE DEF left
  <2>9. QED
    BY <2>3, <2>5, <2>6, <2>7, <2>8, UndoLive, UniqueSame, TurnsInto
<1>2. CASE ~Armed(t)
  BY <1>2, EndStays DEF Error
<1>3. QED
  BY <1>1, <1>2

\* A transaction is rolled back to break a deadlock.
LEMMA VictimStays ==
    ASSUME GInv, IInv', LInv', NEW t \in txns, Victim(t)
    PROVE  GInv'
<1> DEFINE left == IF t.undo THEN CleanUpFrom(t.call, t.at + 1)
                   ELSE IF Armed(t) THEN CleanUpFrom(t.call, 1) ELSE {}
<1>1. txns' = (txns \ {t}) \cup left /\ Fail(t.call)
  BY DEF Victim
<1>2. Shaped(t)
  BY DEF GInv, WriteInv
<1>3. \A u, v \in left : u = v
  BY CleanUpOne
<1>4. \A u \in left : /\ u.undo /\ Shaped(u) /\ u.call = t.call
                      /\ u.rows \subseteq t.rows
  <2>1. CASE t.undo
    <3>1. t.at + 1 \in Nat \ {0} /\ t.call \in Calls /\ t.call.op \in {"bind", "update"}
      BY <1>2, <2>1 DEF Shaped, Binds
    <3>2. QED
      BY <2>1, <3>1, AloneShaped
  <2>2. CASE ~t.undo /\ Armed(t)
    <3>1. t.call \in Calls /\ t.call.op \in {"bind", "update"}
      BY <1>2, <2>2 DEF Shaped, Armed
    <3>2. QED
      BY <2>2, <3>1, AloneShaped
  <2>3. QED
    BY <2>1, <2>2
<1>5. /\ inflight' \subseteq inflight /\ UNCHANGED tables
      /\ submitted' = submitted /\ revalidated' = revalidated
  BY <1>1 DEF Fail, history
<1> HIDE DEF left
<1>6. QED
  BY <1>1, <1>3, <1>4, <1>5, UndoLive, UniqueSame, TurnsInto

\* What comes after a statement of the clean-up.
LEMMA OnwardIs ==
    ASSUME GInv, NEW t \in txns, t.undo
    PROVE  \E left : /\ Onward(t) = (txns \ {t}) \cup left
                     /\ \A u, v \in left : u = v
                     /\ \A u \in left : /\ u.undo /\ Shaped(u) /\ u.call = t.call
                                        /\ u.rows \subseteq t.rows
<1>1. DOMAIN t = TxnFields /\ Shaped(t) /\ Binds(t)
  BY DEF GInv, WriteInv, LInv, TxnsSound, TxnSound, Shaped
<1>2. t.at + 1 \in Nat \ {0} /\ t.call \in Calls /\ t.call.op \in {"bind", "update"}
  BY <1>1 DEF Shaped, Binds
<1>3. CASE t.detached
  <2> DEFINE left == CleanUpFrom(t.call, t.at + 1)
  <2>1. Onward(t) = (txns \ {t}) \cup left
    BY <1>3 DEF Onward
  <2>2. \A u \in left : /\ u.undo /\ Shaped(u) /\ u.call = t.call
                        /\ u.rows \subseteq t.rows
    BY <1>2, AloneShaped
  <2>3. \A u, v \in left : u = v
    BY CleanUpOne
  <2> HIDE DEF left
  <2>4. QED
    BY <2>1, <2>2, <2>3
<1>4. CASE ~t.detached
  <2> DEFINE later == [t EXCEPT !.at = @ + 1]
             left == {later}
  <2>1. Onward(t) = (txns \ {t}) \cup left
    BY <1>4 DEF Onward
  <2>2. /\ later.undo = t.undo /\ later.at = t.at + 1 /\ later.call = t.call
        /\ later.detached = t.detached /\ later.rows = t.rows
        /\ later.credentials = t.credentials /\ later.devices = t.devices
        /\ later.profiles = t.profiles
    BY <1>1 DEF TxnFields
  <2> HIDE DEF later
  <2>3. Shaped(later)
    BY <1>1, <1>2, <2>2 DEF Shaped, Binds
  <2>4. \A u \in left : /\ u.undo /\ Shaped(u) /\ u.call = t.call
                        /\ u.rows \subseteq t.rows
    BY <2>2, <2>3
  <2>5. \A u, v \in left : u = v
    OBVIOUS
  <2> HIDE DEF left
  <2>6. QED
    BY <2>1, <2>4, <2>5
<1>5. QED
  BY <1>3, <1>4

\* A statement of the clean-up is passed over.
LEMMA PassStays ==
    ASSUME GInv, IInv', LInv', NEW t \in txns, PassOver(t)
    PROVE  GInv'
<1>1. PICK left : /\ txns' = (txns \ {t}) \cup left
                  /\ \A u, v \in left : u = v
                  /\ \A u \in left : /\ u.undo /\ Shaped(u) /\ u.call = t.call
                                     /\ u.rows \subseteq t.rows
  BY OnwardIs DEF PassOver
<1>2. UNCHANGED tables /\ inflight' = inflight
  BY DEF PassOver, vars, tables
<1>3. submitted' = submitted /\ revalidated' = revalidated
  BY DEF PassOver, vars
<1>4. QED
  BY <1>1, <1>2, <1>3, UndoLive, UniqueSame, TurnsInto

-----------------------------------------------------------------------------
(* Statements that are transactions of their own.                          *)

\* A statement that changes only credentials it locks keeps off the others.
LEMMA LockedApart ==
    ASSUME GInv, NEW u \in txns, ~u.undo, NEW C2, NEW locked,
           \A c \in (credentials \ C2) \cup (C2 \ credentials) :
              c \in locked,
           CredentialLocks(locked) \cap u.rows = {},
           u.gaps \cap CredentialsInserted(credentials, C2) = {}
    PROVE  CredentialsApart(u, credentials, C2)
<1>1. \A c \in locked : ~HoldsAny(u, c)
  BY DEF CredentialLocks, HoldsAny
<1>2. GapsHeld(u) /\ LiveC(u, credentials)
  BY LiveCalls DEF Live
<1>3. \A c \in C2 : c \notin credentials => ~CredentialScanned(u, c)
  <2> TAKE c \in C2
  <2> HAVE c \notin credentials
  <2>1. ~HoldsAny(u, c)
    BY <1>1
  <2>2. QED
    BY <1>2, <2>1, CredentialMissed
<1>4. QED
  BY <1>1, <1>3 DEF CredentialsApart

\* The same for devices.
LEMMA DevicesLockedApart ==
    ASSUME GInv, NEW u \in txns, ~u.undo, NEW D2, NEW locked,
           \A d \in (devices \ D2) \cup (D2 \ devices) :
              \E e \in locked : d.binding = e.binding /\ d.device = e.device,
           \A d \in D2 : InScope(d.key, d.binding),
           DeviceLocks(locked) \cap u.rows = {},
           u.gaps \cap DevicesInserted(devices, D2) = {}
    PROVE  DevicesApart(u, devices, D2)
<1>1. \A d \in (devices \ D2) \cup (D2 \ devices) : ~HoldsDevice(u, d)
  BY DEF DeviceLocks, HoldsDevice
<1>2. GapsHeld(u) /\ LiveD(u, devices)
  BY LiveCalls DEF Live
<1>3. \A d \in devices : InScope(d.key, d.binding)
  BY SoundTables DEF GInv
<1>4. \A d \in D2 : d \notin devices => ~DeviceScanned(u, d)
  <2> TAKE d \in D2
  <2> HAVE d \notin devices
  <2>1. ~HoldsDevice(u, d)
    BY <1>1
  <2>2. \A e \in devices \cup D2 : InScope(e.key, e.binding)
    BY <1>3
  <2>3. QED
    BY <1>2, <2>1, <2>2, DeviceMissed
<1>5. QED
  BY <1>1, <1>4 DEF DevicesApart

\* Validate, Refresh and UpsertDevice write by one statement.
LEMMA SaveAloneStays ==
    ASSUME GInv, IInv', LInv', NEW call \in inflight, SaveAlone(call)
    PROVE  GInv'
<1>1. /\ inflight' = inflight \ {call} /\ submitted' = submitted
      /\ revalidated \subseteq revalidated' /\ profiles' = profiles
      /\ txns' = txns
  BY DEF SaveAlone, RevalidateSave, DeviceSave, Finish
<1>2. UniqueProfiles(profiles')
  BY <1>1 DEF GInv, WriteInv
<1>3. ASSUME NEW u \in txns, ~u.undo
      PROVE  Live(u)'
  <2>1. CASE \E status \in Statuses :
            /\ RevalidateSave(call, status)
            /\ Holders(SaveCredentialLocks(RevalidatedRow(call, status)),
                       CredentialsInserted(credentials, credentials')) = {}
    <3>1. PICK status \in Statuses :
            /\ RevalidateSave(call, status)
            /\ Holders(SaveCredentialLocks(RevalidatedRow(call, status)),
                       CredentialsInserted(credentials, credentials')) = {}
      BY <2>1
    <3>2. PICK row : row = RevalidatedRow(call, status)
      OBVIOUS
    <3>3. /\ credentials' = SaveCredential(row) /\ devices' = devices
          /\ u.rows \cap SaveCredentialLocks(row) = {}
          /\ u.gaps \cap CredentialsInserted(credentials, credentials') = {}
      BY <1>3, <3>1, <3>2 DEF RevalidateSave, Holders
    <3>4. PICK locked : locked = Colliding(row) \cup {row}
      OBVIOUS
    <3>5. \A c \in (credentials \ credentials') \cup (credentials' \ credentials) :
             c \in locked
      BY <3>3, <3>4 DEF SaveCredential
    <3>6. CredentialLocks(locked) \cap u.rows = {}
      BY <3>3, <3>4 DEF SaveCredentialLocks
    <3>7. CredentialsApart(u, credentials, credentials')
      BY <1>3, <3>3, <3>5, <3>6, LockedApart
    <3>8. QED
      BY <1>1, <1>2, <1>3, <3>3, <3>7, ApartSame, LiveStays
  <2>2. CASE /\ DeviceSave(call)
             /\ Holders(DeviceLocks({[binding |-> call.binding,
                                      device |-> call.device]}),
                        DevicesInserted(devices, devices')) = {}
    <3>1. PICK slot : slot = [binding |-> call.binding, device |-> call.device]
      OBVIOUS
    <3>2. PICK locked : locked = {slot}
      OBVIOUS
    <3>3. /\ devices' = SaveDevice([binding |-> call.binding,
                                    device |-> call.device, key |-> call.key])
          /\ credentials' = credentials
          /\ u.rows \cap DeviceLocks(locked) = {}
          /\ u.gaps \cap DevicesInserted(devices, devices') = {}
      BY <1>3, <2>2, <3>1, <3>2 DEF DeviceSave, Holders
    <3>4. \A d \in (devices \ devices') \cup (devices' \ devices) :
             \E e \in locked : d.binding = e.binding /\ d.device = e.device
      BY <3>1, <3>2, <3>3 DEF SaveDevice
    <3>5. \A d \in devices' : InScope(d.key, d.binding)
      BY DEF IInv, Sound
    <3>6. DevicesApart(u, devices, devices')
      BY <1>3, <3>3, <3>4, <3>5, DevicesLockedApart
    <3>7. QED
      BY <1>1, <1>2, <1>3, <3>3, <3>6, ApartSame, LiveStays
  <2>3. QED
    BY <2>1, <2>2 DEF SaveAlone
<1>4. QED
  BY <1>1, <1>2, <1>3, Unmoved

-----------------------------------------------------------------------------
(* The clean-up on its own.                                                *)

\* What it changes: by its own, as a victim's transaction is not there to be
\* rolled back.
LEMMA CleanUpIs ==
    ASSUME NEW t, t.undo, Running(t)
    PROVE  \E s \in {"undo_profiles", "undo_devices", "undo_credential"} :
             \A v : Doing(t, v) <=> v = s
<1>1. PICK s : s = CleanUp
  OBVIOUS
<1>2. /\ DOMAIN s = 1..3 /\ s[1] = "undo_profiles" /\ s[2] = "undo_devices"
      /\ s[3] = "undo_credential"
  BY <1>1 DEF CleanUp
<1>3. Statements(t) = s
  BY <1>1 DEF Statements
<1>4. t.at \in DOMAIN s
  BY <1>3 DEF Running
<1>5. \A v : Doing(t, v) <=> s[t.at] = v
  BY <1>3, <1>4 DEF Doing, Running
<1>6. t.at \in {1, 2, 3}
  BY <1>2, <1>4
<1>7. QED
  BY <1>2, <1>5, <1>6

\* A clean-up on its own deletes profiles and devices, and puts back no
\* credential but what its bind read; it waits for the locks of the others.
LEMMA CleanUpWrites ==
    ASSUME GInv, NEW t \in txns, CleanUpAlone(t)
    PROVE  /\ profiles' \subseteq profiles /\ devices' \subseteq devices
           /\ \A c \in credentials' \ credentials : c \in t.call.creds
           /\ \A u \in txns : ~u.undo =>
                /\ CredentialsApart(u, credentials, credentials')
                /\ DevicesApart(u, devices, devices')
                /\ ProfilesApart(u, profiles, profiles')
<1> DEFINE call == t.call
<1>1. /\ t.undo /\ t.detached /\ Running(t) /\ WaitsFor(t) = {}
      /\ credentials' = CredentialsNext(t) /\ devices' = DevicesNext(t)
      /\ profiles' = ProfilesNext(t)
  BY DEF CleanUpAlone, GInv, LInv, TxnsSound, TxnSound
<1>2. /\ CredentialsNow(t) = credentials /\ DevicesNow(t) = devices
      /\ ProfilesNow(t) = profiles
  <2>1. /\ t.credentials = Unwritten /\ t.devices = Unwritten
        /\ t.profiles = Unwritten
    BY <1>1 DEF GInv, WriteInv, Shaped
  <2>2. \A T : Seen(T, Unwritten) = T
    BY DEF Seen, Unwritten
  <2>3. QED
    BY <2>1, <2>2 DEF CredentialsNow, DevicesNow, ProfilesNow
<1>3. \A u \in txns : ~u.undo => /\ u.rows \cap RowsLocked(t) = {}
                                 /\ u.gaps \cap Inserts(t) = {}
  BY <1>1 DEF WaitsFor, Holders
<1>4. PICK s \in {"undo_profiles", "undo_devices", "undo_credential"} :
        \A v : Doing(t, v) <=> v = s
  BY <1>1, CleanUpIs
<1>5. CASE s = "undo_profiles"
  <2>1. /\ credentials' = credentials /\ devices' = devices
        /\ profiles' = {p \in profiles : p.key # CallKey(call)}
    BY <1>1, <1>2, <1>4, <1>5 DEF CredentialsNext, DevicesNext, ProfilesNext
  <2>2. RowsLocked(t) = ProfileLocks({p \in AllProfiles : p.key \in {CallKey(call)}})
    BY <1>4, <1>5 DEF RowsLocked
  <2>3. profiles \subseteq AllProfiles
    BY DEF AllProfiles, Physical
  <2>4. ASSUME NEW u \in txns, ~u.undo
        PROVE  ProfilesApart(u, profiles, profiles')
    <3>1. \A p \in profiles \ profiles' : ~HoldsProfile(u, p)
      BY <1>3, <2>1, <2>2, <2>3, <2>4 DEF ProfileLocks, HoldsProfile
    <3>2. profiles' \subseteq profiles
      BY <2>1
    <3>3. QED
      BY <3>1, <3>2 DEF ProfilesApart, Alike
  <2>5. QED
    BY <2>1, <2>4, ApartSame
<1>6. CASE s = "undo_devices"
  <2>1. /\ credentials' = credentials /\ profiles' = profiles
        /\ devices' = {d \in devices : d.key # CallKey(call)}
    BY <1>1, <1>2, <1>4, <1>6 DEF CredentialsNext, DevicesNext, ProfilesNext
  <2>2. RowsLocked(t) = DeviceLocks({d \in AllDevices : d.key \in {CallKey(call)}})
    BY <1>4, <1>6 DEF RowsLocked
  <2>3. devices \subseteq AllDevices
    BY DEF AllDevices, Physical
  <2>4. ASSUME NEW u \in txns, ~u.undo
        PROVE  DevicesApart(u, devices, devices')
    <3>1. \A d \in devices \ devices' : ~HoldsDevice(u, d)
      BY <1>3, <2>1, <2>2, <2>3, <2>4 DEF DeviceLocks, HoldsDevice
    <3>2. devices' \subseteq devices
      BY <2>1
    <3>3. QED
      BY <3>1, <3>2 DEF DevicesApart
  <2>5. QED
    BY <2>1, <2>4, ApartSame
<1>7. CASE s = "undo_credential"
  <2>1. /\ devices' = devices /\ profiles' = profiles
        /\ credentials' = CredentialsUndone(call)
    BY <1>1, <1>2, <1>4, <1>7 DEF CredentialsNext, DevicesNext, ProfilesNext
  <2>2. RowsLocked(t) =
          IF Replaced(call) = {}
          THEN CredentialLocks({c \in AllCredentials : c.key \in {CallKey(call)}})
          ELSE UNION {SaveCredentialLocks(row) : row \in call.creds}
    BY <1>4, <1>7 DEF RowsLocked
  <2>3. credentials \subseteq AllCredentials
    BY DEF AllCredentials, Physical
  <2>4. \A u \in txns : ~u.undo =>
           u.gaps \cap CredentialsInserted(credentials, credentials') = {}
    <3>1. CredentialsInserted(credentials, credentials') \subseteq Inserts(t)
      BY <1>1, <1>2 DEF Inserts
    <3>2. QED
      BY <1>3, <3>1
  <2>5. CASE Replaced(call) = {}
    <3>1. credentials' = {c \in credentials : c.key # CallKey(call)}
      BY <2>1, <2>5 DEF CredentialsUndone
    <3>2. PICK locked : locked = {c \in AllCredentials : c.key \in {CallKey(call)}}
      OBVIOUS
    <3>3. \A c \in (credentials \ credentials') \cup (credentials' \ credentials) :
             c \in locked
      BY <2>3, <3>1, <3>2
    <3>4. RowsLocked(t) = CredentialLocks(locked)
      BY <2>2, <2>5, <3>2
    <3>5. \A u \in txns : ~u.undo => CredentialsApart(u, credentials, credentials')
      BY <1>3, <2>4, <3>3, <3>4, LockedApart
    <3>6. QED
      BY <2>1, <3>1, <3>5, ApartSame
  <2>6. CASE Replaced(call) # {}
    <3>1. call.creds # {}
      BY <2>6 DEF Replaced
    <3>2. credentials' = UNION {IF CredentialAccepted(row) THEN SaveCredential(row)
                                ELSE credentials : row \in call.creds}
      BY <2>1, <2>6 DEF CredentialsUndone
    <3>3. PICK locked : locked = UNION {Colliding(row) \cup {row} : row \in call.creds}
      OBVIOUS
    <3>4. \A c \in credentials' \ credentials : c \in call.creds
      BY <3>2 DEF SaveCredential
    <3>5. \A c \in credentials \ credentials' : c \in locked
      <4> TAKE c \in credentials \ credentials'
      <4>1. PICK row \in call.creds : TRUE
        BY <3>1
      <4>2. c \notin IF CredentialAccepted(row) THEN SaveCredential(row) ELSE credentials
        BY <3>2
      <4>3. c \in Colliding(row)
        BY <4>2 DEF SaveCredential
      <4>4. QED
        BY <3>3, <4>3
    <3>6. \A c \in (credentials \ credentials') \cup (credentials' \ credentials) :
             c \in locked
      BY <3>3, <3>4, <3>5
    <3>7. CredentialLocks(locked) \subseteq RowsLocked(t)
      <4>1. RowsLocked(t) = UNION {SaveCredentialLocks(row) : row \in call.creds}
        BY <2>2, <2>6
      <4>2. ASSUME NEW c \in locked
            PROVE  {<<"binding", c.binding>>, <<"account", c.account>>}
                     \subseteq RowsLocked(t)
        <5>1. PICK row \in call.creds : c \in Colliding(row) \cup {row}
          BY <3>3
        <5>2. {<<"binding", c.binding>>, <<"account", c.account>>}
                \subseteq SaveCredentialLocks(row)
          BY <5>1 DEF SaveCredentialLocks, CredentialLocks
        <5>3. QED
          BY <4>1, <5>2
      <4>3. QED
        BY <4>2 DEF CredentialLocks
    <3>8. \A u \in txns : ~u.undo => CredentialLocks(locked) \cap u.rows = {}
      BY <1>3, <3>7
    <3>9. \A u \in txns : ~u.undo => CredentialsApart(u, credentials, credentials')
      BY <2>4, <3>6, <3>8, LockedApart
    <3>10. QED
      BY <2>1, <3>4, <3>9, ApartSame
  <2>7. QED
    BY <2>5, <2>6
<1>8. QED
  BY <1>5, <1>6, <1>7

\* So it leaves the tables sound,
LEMMA CleanUpAloneSound ==
    ASSUME GInv, NEW t \in txns, CleanUpAlone(t)
    PROVE  IInv'
<1>1. /\ profiles' \subseteq profiles /\ devices' \subseteq devices
      /\ \A c \in credentials' \ credentials : c \in t.call.creds
  BY CleanUpWrites
<1>2. UNCHANGED <<inflight, used, applied, submitted, revalidated>>
  BY DEF CleanUpAlone, history
<1>3. t.undo /\ Shaped(t) /\ ReadSound(t.call)
  BY DEF CleanUpAlone, GInv, WriteInv, LInv, TxnsSound, TxnSound
<1>4. t.call \in BindCall /\ t.call.op \in {"bind", "update"}
  BY <1>3, CallKinds DEF Shaped, Binds
<1>5. \A c \in t.call.creds : c \in CredentialRow /\ CredentialSound(c)
  BY <1>3, <1>4 DEF ReadSound, BindCall
<1>6. TypeOK'
  BY <1>1, <1>2, <1>5 DEF GInv, IInv, TypeOK
<1>7. \A c : CredentialSound(c) => CredentialSound(c)'
  BY <1>2, SoundStays
<1>8. (\A c \in credentials : CredentialSound(c))'
  BY <1>1, <1>5, <1>7 DEF GInv, IInv, Sound
<1>9. (\A row \in devices \cup profiles : InScope(row.key, row.binding))'
  BY <1>1 DEF GInv, IInv, Sound
<1>10. CallsAgree'
  BY <1>2, SoundStays DEF GInv, IInv, Sound, CallsAgree
<1>11. QED
  BY <1>6, <1>8, <1>9, <1>10 DEF IInv, Sound

\* and the transactions of the others live.
LEMMA CleanUpAloneStays ==
    ASSUME GInv, IInv', LInv', NEW t \in txns, CleanUpAlone(t)
    PROVE  GInv'
<1>0. t.undo
  BY DEF CleanUpAlone, GInv, LInv, TxnsSound, TxnSound
<1>1. PICK left : /\ txns' = (txns \ {t}) \cup left
                  /\ \A u, v \in left : u = v
                  /\ \A u \in left : /\ u.undo /\ Shaped(u) /\ u.call = t.call
                                     /\ u.rows \subseteq t.rows
  BY <1>0, OnwardIs DEF CleanUpAlone
<1>2. inflight' = inflight /\ submitted' = submitted /\ revalidated' = revalidated
  BY DEF CleanUpAlone, history
<1>3. UniqueProfiles(profiles')
  BY CleanUpWrites DEF GInv, WriteInv, UniqueProfiles
<1>4. \A u \in txns \ {t} : ~u.undo => Live(u)'
  BY <1>3, CleanUpWrites, LiveStays
<1>5. QED
  BY <1>1, <1>2, <1>3, <1>4, TurnsInto

-----------------------------------------------------------------------------
(* The commit.                                                             *)

\* What becomes public is what the transaction sees.
LEMMA CommitSees ==
    ASSUME GInv, NEW t \in txns, Commit(t)
    PROVE  /\ ~t.undo /\ ~Running(t)
           /\ credentials' = Seen(credentials, t.credentials)
           /\ credentials' = CredentialsSoFar(t, credentials)
           /\ devices' = Seen(devices, t.devices)
           /\ devices' = DevicesSoFar(t, devices)
           /\ profiles' = Seen(profiles, t.profiles)
           /\ profiles' = ProfilesSoFar(t, profiles)
<1>1. ~t.undo /\ ~Running(t)
  BY DEF Commit
<1>2. Live(t)
  BY <1>1, LiveCalls
<1>3. QED
  BY <1>1, <1>2 DEF Commit, CredentialsNow, DevicesNow, ProfilesNow, Live, LiveC,
                    LiveD, LiveP

\* The three kinds of transactions, at their ends.
LEMMA AtTheEnd ==
    ASSUME GInv, NEW t \in txns, ~t.undo, ~Running(t)
    PROVE  \/ Binds(t) /\ t.call \in BindCall /\ Done(t, "save_credential")
           \/ t.call.op = "delete" /\ Done(t, "wipe_profiles")
           \/ t.call.op = "confirm" /\ Done(t, "clear")
<1>1. Shaped(t)
  BY DEF GInv, WriteInv
<1>2. CASE Binds(t)
  <2>1. t.call \in BindCall
    BY <1>1, <1>2, CallKinds DEF Shaped, Binds
  <2>2. PICK n \in Nat : t.at > n + 3 /\ (Done(t, "save_credential") <=> t.at > 1)
    BY <1>1, <2>1, BindDone DEF Shaped
  <2>3. QED
    BY <1>1, <1>2, <2>1, <2>2 DEF Shaped
<1>3. CASE t.call.op = "delete"
  BY <1>1, <1>3, DeleteDone DEF Shaped
<1>4. CASE t.call.op = "confirm"
  BY <1>1, <1>4, ConfirmDone DEF Shaped
<1>5. QED
  BY <1>1, <1>2, <1>3, <1>4 DEF Shaped, Binds

\* What one commits the others neither see nor have scanned.
LEMMA CommitApart ==
    ASSUME GInv, NEW t \in txns, Commit(t), NEW u \in txns, u # t, ~u.undo
    PROVE  /\ CredentialsApart(u, credentials, credentials')
           /\ DevicesApart(u, devices, devices')
           /\ ProfilesApart(u, profiles, profiles')
<1>1. ~t.undo /\ ~Running(t) /\ Live(t) /\ Live(u) /\ Shaped(u)
  BY CommitSees, LiveCalls
<1>2. u.rows \cap t.rows = {} /\ ScansMiss(u, t) /\ ScansMiss(t, u)
  BY <1>1 DEF GInv, WriteInv, LocksApart
<1>3. CredentialsApart(u, credentials, credentials')
  <2>1. \A c : HoldsAll(t, c) => ~HoldsAny(u, c)
    BY <1>2 DEF HoldsAll, HoldsAny
  <2>2. \A c \in t.credentials.del \cup t.credentials.add : HoldsAll(t, c)
    BY <1>1 DEF Live, LiveC, Touched
  <2>3. credentials' = (credentials \ t.credentials.del) \cup t.credentials.add
    BY CommitSees DEF Seen
  <2>4. \A c \in t.credentials.add : ~CredentialScanned(u, c)
    BY <1>2 DEF ScansMiss
  <2>5. QED
    BY <2>1, <2>2, <2>3, <2>4 DEF CredentialsApart
<1>4. DevicesApart(u, devices, devices')
  <2>1. \A d : HoldsDevice(t, d) => ~HoldsDevice(u, d)
    BY <1>2 DEF HoldsDevice
  <2>2. \A d \in t.devices.del \cup t.devices.add : HoldsDevice(t, d)
    BY <1>1 DEF Live, LiveD, Touched
  <2>3. devices' = (devices \ t.devices.del) \cup t.devices.add
    BY CommitSees DEF Seen
  <2>4. \A d \in t.devices.add : ~DeviceScanned(u, d)
    BY <1>2 DEF ScansMiss
  <2>5. QED
    BY <2>1, <2>2, <2>3, <2>4 DEF DevicesApart
<1>5. ProfilesApart(u, profiles, profiles')
  <2>1. \A p : HoldsProfile(t, p) => ~HoldsProfile(u, p)
    BY <1>2 DEF HoldsProfile
  <2>2. \A p \in t.profiles.del \cup t.profiles.add : HoldsProfile(t, p)
    BY <1>1 DEF Live, LiveP, Touched
  <2>3. profiles' = (profiles \ t.profiles.del) \cup t.profiles.add
    BY CommitSees DEF Seen
  <2>4. \A p \in t.profiles.add : ~ProfileScanned(u, p)
    BY <1>2 DEF ScansMiss
  <2>5. Alike(u, profiles, profiles')
    BY <2>1, <2>2, <2>3 DEF Alike
  <2>6. \A p \in profiles' : p \notin profiles =>
           ~ProfileScanned(u, p) /\ p.binding = t.call.binding
    BY <1>1, <2>3, <2>4 DEF Live, AddsOwn
  <2>7. ASSUME Binds(u), 1 \in Saved(u),
               NEW p \in profiles', p \notin profiles,
               p.binding = u.call.binding,
               NEW q \in profiles \cup u.profiles.add,
               q.binding = u.call.binding
        PROVE  ~HoldsProfile(u, q)
    <3>1. t.call.binding = u.call.binding
      BY <2>6, <2>7
    <3>2. CASE Done(t, "save_credential")
      <4>1. HoldsAll(t, BoundRow(t.call))
        BY <1>1, <3>2 DEF Live, LiveC
      <4>2. u.call \in BindCall
        BY <1>1, <2>7, CallKinds DEF Shaped, Binds
      <4>3. Done(u, "save_credential")
        <5>1. 1 + 3 < u.at /\ u.at \in Nat \ {0}
          BY <1>1, <2>7 DEF Saved, Shaped
        <5>2. Done(u, "save_credential") <=> u.at > 1
          BY <1>1, <4>2, BindDone DEF Shaped
        <5>3. QED
          BY <5>1, <5>2
      <4>4. HoldsAll(u, BoundRow(u.call))
        BY <1>1, <4>3 DEF Live, LiveC
      <4>5. BoundRow(t.call).binding = BoundRow(u.call).binding
        BY <3>1 DEF BoundRow
      <4>6. QED
        BY <1>2, <4>1, <4>4, <4>5 DEF HoldsAll
    <3>3. CASE t.call.op = "delete" /\ Done(t, "wipe_profiles")
      <4>1. profiles' = {r \in profiles : r.binding # t.call.binding}
        BY <3>3, CommitSees DEF ProfilesSoFar, Binds
      <4>2. QED
        BY <2>7, <4>1
    <3>4. CASE Done(t, "clear")
      <4>1. ProfileScanned(t, q)
        BY <2>7, <3>1, <3>4 DEF ProfileScanned, ScansBinding
      <4>2. q \in profiles
        BY <1>2, <2>7, <4>1 DEF ScansMiss
      <4>3. HoldsProfile(t, q)
        BY <1>1, <4>1, <4>2 DEF Live, LiveP
      <4>4. QED
        BY <2>1, <4>3
    <3>5. QED
      BY <1>1, <3>2, <3>3, <3>4, AtTheEnd
  <2>8. QED
    BY <2>5, <2>6, <2>7 DEF ProfilesApart
<1>6. QED
  BY <1>3, <1>4, <1>5

-----------------------------------------------------------------------------
(* The commit is the step of CredentialLifecycle.                          *)

\* No credential is left to forget once the bound one is saved: what it
\* replaces was its binding's own.
LEMMA NoneToForget ==
    ASSUME NEW call, call.op \in {"bind", "update"}, CallSound(call),
           NEW C, Coherent(C)
    PROVE  \A c \in SavedCredential(C, BoundRow(call)) : c.key \notin Replaced(call)
<1> SUFFICES ASSUME NEW c \in SavedCredential(C, BoundRow(call)),
                    c.key \in Replaced(call)
             PROVE  FALSE
  OBVIOUS
<1>1. c.key.binding = call.binding /\ c.key # CallKey(call)
  BY DEF Replaced, CallSound, InScope
<1>2. c # BoundRow(call)
  BY <1>1, BoundRowIs
<1>3. c \in C /\ c.binding # call.binding
  BY <1>2, BoundRowIs DEF SavedCredential, CollidingIn
<1>4. QED
  BY <1>1, <1>3 DEF Coherent, InScope

\* The statements of CredentialLifecycle, in this module's words.
LEMMA SavedAs ==
    ASSUME NEW call
    PROVE  /\ \A row : /\ Colliding(row) = CollidingIn(credentials, row)
                       /\ SaveCredential(row) = SavedCredential(credentials, row)
                       /\ SaveDevice(row) = SavedDevice(devices, row)
           /\ Kept(call) = KeptIn(profiles, call)
           /\ Visible(call) = VisibleIn(profiles, call)
           /\ \A rows : SaveDefault(call, rows) =
                          WithDefault(call, SeenDefault(profiles, call), rows)
           /\ SetDefault(call) = WithChosen(profiles, call)
<1>1. \A row : Colliding(row) = CollidingIn(credentials, row)
  BY DEF Colliding, CollidingIn
<1>2. \A row : SaveCredential(row) = SavedCredential(credentials, row)
  BY <1>1 DEF SaveCredential, SavedCredential
<1>3. \A row : SaveDevice(row) = SavedDevice(devices, row)
  BY DEF SaveDevice, SavedDevice
<1>4. Kept(call) = KeptIn(profiles, call)
  BY DEF Kept, KeptIn
<1>5. Visible(call) = VisibleIn(profiles, call)
  BY DEF Visible, VisibleIn
<1>6. \A rows : SaveDefault(call, rows) =
                  WithDefault(call, SeenDefault(profiles, call), rows)
  BY <1>5 DEF SaveDefault, WithDefault, SeenDefault
<1>7. SetDefault(call) = WithChosen(profiles, call)
  BY DEF SetDefault, WithChosen
<1>8. QED
  BY <1>1, <1>2, <1>3, <1>4, <1>5, <1>6, <1>7

\* The COMMIT of a bind is CredentialLifecycle's one step.
LEMMA BindCommits ==
    ASSUME GInv, NEW t \in txns, Commit(t), Binds(t)
    PROVE  TxnCommit(t.call)
<1> DEFINE call == t.call
           n == Len(call.found)
<1>1. ~t.undo /\ ~Running(t)
  BY CommitSees
<1>2. /\ Shaped(t) /\ Live(t) /\ call \in BindCall /\ CallSound(call)
      /\ call.op \in {"bind", "update"} /\ call.step = "open"
  BY <1>1, LiveCalls, CallKinds DEF Binds, Shaped, Opened
<1>3. /\ n \in Nat /\ DOMAIN call.found = 1..n /\ t.at > n + 3
      /\ Replaced(call) # {} => Done(t, "forget_devices")
      /\ call.op = "update" => Done(t, "prune")
      /\ Done(t, "save_credential") <=> t.at > 1
      /\ Done(t, "save_device") <=> t.at > 2
      /\ Done(t, "forget_profiles") <=> t.at > 3
      /\ Done(t, "prune") => call.op = "update"
      /\ ~Done(t, "wipe_credential") /\ ~Done(t, "wipe_devices")
  BY <1>1, <1>2, BindDone DEF Shaped
<1>4. /\ Done(t, "save_credential") /\ Done(t, "save_device")
      /\ Done(t, "forget_profiles")
  BY <1>2, <1>3 DEF Shaped
<1>5. Saved(t) = 1..n
  BY <1>2, <1>3 DEF Saved, Shaped
<1>6. CredentialAccepted(BoundRow(call))
  BY <1>2, <1>4, SavedAs DEF Live, LiveC, CredentialAccepted
<1>7. credentials' = CredentialsAfter(call)
  <2>1. credentials' = SaveCredential(BoundRow(call))
    BY <1>3, <1>4, CommitSees, SavedAs DEF CredentialsSoFar
  <2>2. \A c \in SaveCredential(BoundRow(call)) : c.key \notin Replaced(call)
    BY <1>2, NoneToForget, SavedAs, SoundTables DEF GInv
  <2>3. QED
    BY <2>1, <2>2 DEF CredentialsAfter
<1>8. devices' = DevicesAfter(call)
  <2>1. devices' = {d \in SaveDevice(BoundDevice(call)) :
                       Done(t, "forget_devices") => d.key \notin Replaced(call)}
    BY <1>3, <1>4, CommitSees, SavedAs DEF DevicesSoFar
  <2>2. ~Done(t, "forget_devices") => Replaced(call) = {}
    BY <1>3
  <2>3. QED
    BY <2>1, <2>2 DEF DevicesAfter
<1>9. call.found # <<>> => n # 0
  BY <1>2, LifecycleAssumption DEF BindCall
<1>90. call.found = <<>> => n = 0
  OBVIOUS
<1>10. call.found # <<>> => DefaultAccepted(call, Kept(call))
  <2>1. call.found # <<>> => 1 \in Saved(t)
    BY <1>3, <1>5, <1>9
  <2>2. 1 \in Saved(t) => DefaultFits(profiles, call)
    BY <1>2 DEF Live, LiveP
  <2>3. DefaultFits(profiles, call) => DefaultAccepted(call, Kept(call))
    BY SavedAs DEF DefaultFits, DefaultAccepted, DefaultSaved
  <2>4. QED
    BY <2>1, <2>2, <2>3
<1>11. BoundSoFar(t, profiles) = SaveProfiles(call, Kept(call))
  <2>1. CASE call.found = <<>>
    <3>1. 1 \notin Saved(t)
      BY <1>5, <1>90, <2>1
    <3>2. QED
      BY <1>4, <2>1, <3>1, SavedAs DEF BoundSoFar, SaveProfiles
  <2>2. CASE call.found # <<>>
    <3>1. 1 \in Saved(t) /\ Saved(t) \ {1} = 2..n
      BY <1>3, <1>5, <1>9, <2>2
    <3>2. {call.found[j] : j \in Saved(t) \ {1}} = {call.found[i] : i \in 2..n}
      BY <3>1
    <3>3. DefaultSaved(profiles, call) = SaveDefault(call, Kept(call))
      BY SavedAs DEF DefaultSaved
    <3>4. \A rows : SaveOthers(call, rows)
                      = WithOthers(call, {call.found[i] : i \in 2..n}, rows)
      BY DEF SaveOthers, WithOthers
    <3>5. QED
      BY <2>2, <3>1, <3>2, <3>3, <3>4 DEF BoundSoFar, SaveProfiles
  <2>3. QED
    BY <2>1, <2>2
<1>12. profiles' = ProfilesAfter(call)
  <2>1. profiles' = ProfilesSoFar(t, profiles)
    BY CommitSees
  <2>2. call.op = "bind" => ~Done(t, "prune")
    BY <1>3
  <2>3. ProfilesSoFar(t, profiles) = Prune(call, BoundSoFar(t, profiles))
    BY <1>2, <1>3, <2>2 DEF ProfilesSoFar, Prune, Binds
  <2>4. QED
    BY <1>11, <2>1, <2>3 DEF ProfilesAfter
<1>13. Finish(call) /\ UNCHANGED revalidated
  BY DEF Commit
<1>14. QED
  BY <1>2, <1>6, <1>7, <1>8, <1>10, <1>12, <1>13 DEF TxnCommit

\* So is every COMMIT.
LEMMA CommitIs ==
    ASSUME GInv, NEW t \in txns, Commit(t)
    PROVE  TxnCommit(t.call) \/ DeleteWipe(t.call) \/ ConfirmSet(t.call)
<1>1. ~t.undo /\ ~Running(t) /\ Shaped(t) /\ Live(t)
  BY CommitSees, LiveCalls
<1>2. Finish(t.call) /\ UNCHANGED revalidated
  BY DEF Commit
<1>3. CASE Binds(t)
  BY <1>3, BindCommits
<1>4. CASE t.call.op = "delete"
  <2>1. /\ Done(t, "wipe_profiles") /\ Done(t, "wipe_devices")
        /\ Done(t, "wipe_credential")
    BY <1>1, <1>4, DeleteDone DEF Shaped
  <2>2. QED
    BY <1>2, <1>4, <2>1, CommitSees DEF DeleteWipe, CredentialsSoFar, DevicesSoFar,
       ProfilesSoFar, Binds
<1>5. CASE t.call.op = "confirm"
  <2>1. /\ Done(t, "choose") /\ \A s : Done(t, s) => s \in {"clear", "choose"}
    BY <1>1, <1>5, ConfirmDone DEF Shaped
  <2>2. credentials' = credentials /\ devices' = devices
    BY <2>1, CommitSees DEF CredentialsSoFar, DevicesSoFar
  <2>3. profiles' = SetDefault(t.call)
    BY <1>5, <2>1, CommitSees, SavedAs DEF ProfilesSoFar, Binds
  <2>4. /\ \E p \in profiles : Chosen(t.call, p)
        /\ UniqueProfiles(SetDefault(t.call))
    BY <1>1, <2>1, SavedAs DEF Live, LiveP
  <2>5. QED
    BY <1>2, <1>5, <2>2, <2>3, <2>4 DEF ConfirmSet
<1>6. QED
  BY <1>1, <1>3, <1>4, <1>5 DEF Shaped, Binds

\* The transactions of the others stay live over a COMMIT.
LEMMA CommitStays ==
    ASSUME GInv, IInv', LInv', NEW t \in txns, Commit(t)
    PROVE  GInv'
<1>1. /\ inflight' \subseteq inflight /\ submitted' = submitted
      /\ revalidated' = revalidated /\ txns' = txns \ {t}
  BY DEF Commit, Finish
<1>2. t.call \in inflight
  BY CommitSees, LiveCalls
<1>3. UniqueProfiles(profiles')
  <2>1. CASE TxnCommit(t.call)
    BY <1>2, <2>1, BindUnique DEF GInv, WriteInv
  <2>2. CASE DeleteWipe(t.call)
    BY <2>2 DEF GInv, WriteInv, UniqueProfiles, DeleteWipe
  <2>3. CASE ConfirmSet(t.call)
    BY <2>3 DEF ConfirmSet
  <2>4. QED
    BY <2>1, <2>2, <2>3, CommitIs
<1>4. \A u \in txns' : ~u.undo => Live(u)'
  BY <1>1, <1>3, CommitApart, LiveStays
<1>5. QED
  BY <1>1, <1>3, <1>4, Unmoved

-----------------------------------------------------------------------------
(* A statement of a transaction that may still commit.                     *)

\* Statements are numbered.
LEMMA StatementsNat ==
    ASSUME NEW t, Shaped(t)
    PROVE  DOMAIN Statements(t) \subseteq Nat \ {0}
<1>1. CASE t.undo
  <2>1. Statements(t) = CleanUp
    BY <1>1 DEF Statements
  <2>2. DOMAIN CleanUp = 1..3
    BY DEF CleanUp
  <2>3. QED
    BY <2>1, <2>2
<1>2. CASE ~t.undo /\ t.call.op = "delete"
  <2>1. Statements(t) = DeleteStatements
    BY <1>2 DEF Statements
  <2>2. DOMAIN DeleteStatements = 1..3
    BY DEF DeleteStatements
  <2>3. QED
    BY <2>1, <2>2
<1>3. CASE ~t.undo /\ t.call.op = "confirm"
  <2>1. Statements(t) = ConfirmStatements
    BY <1>3 DEF Statements
  <2>2. DOMAIN ConfirmStatements = 1..2
    BY DEF ConfirmStatements
  <2>3. QED
    BY <2>1, <2>2
<1>4. CASE ~t.undo /\ t.call.op \in {"bind", "update"}
  <2>1. t.call \in BindCall
    BY <1>4, CallKinds DEF Shaped
  <2>2. Statements(t) = BindStatements(t.call)
    BY <1>4 DEF Statements
  <2>3. \E n \in Nat : DOMAIN BindStatements(t.call) = 1..n
    BY <2>1, BindShape
  <2>4. QED
    BY <2>2, <2>3
<1>5. QED
  BY <1>1, <1>2, <1>3, <1>4 DEF Shaped

\* The stage of a transaction after a statement.
Follows(t, later) ==
    /\ later.call = t.call /\ later.at = t.at + 1
    /\ later.undo = t.undo /\ later.detached = t.detached
    /\ later.rows = t.rows \cup RowsLocked(t)
    /\ later.gaps = t.gaps \cup GapsLocked(t)
    /\ later.credentials =
         WorkOf(t, t.credentials, CredentialsNow(t), CredentialsNext(t))
    /\ later.devices = WorkOf(t, t.devices, DevicesNow(t), DevicesNext(t))
    /\ later.profiles = WorkOf(t, t.profiles, ProfilesNow(t), ProfilesNext(t))

\* A statement that is granted its locks.
LEMMA StatementFollows ==
    ASSUME GInv, NEW t \in txns, Statement(t)
    PROVE  /\ \E later : txns' = (txns \ {t}) \cup {later} /\ Follows(t, later)
           /\ UNCHANGED vars /\ Running(t) /\ ~t.detached /\ Accepted(t)
           /\ \A u \in txns \ {t} : /\ u.rows \cap RowsLocked(t) = {}
                                    /\ u.gaps \cap Inserts(t) = {}
<1>1. /\ UNCHANGED vars /\ Running(t) /\ ~t.detached /\ Accepted(t)
      /\ WaitsFor(t) = {}
  BY DEF Statement
<1>2. DOMAIN t = TxnFields
  BY DEF GInv, LInv, TxnsSound, TxnSound
<1>3. PICK later : later = [t EXCEPT
             !.at = @ + 1,
             !.rows = @ \cup RowsLocked(t),
             !.gaps = @ \cup GapsLocked(t),
             !.credentials = WorkOf(t, @, CredentialsNow(t), CredentialsNext(t)),
             !.devices = WorkOf(t, @, DevicesNow(t), DevicesNext(t)),
             !.profiles = WorkOf(t, @, ProfilesNow(t), ProfilesNext(t))]
  OBVIOUS
<1>4. Follows(t, later)
  BY <1>2, <1>3 DEF Follows, TxnFields
<1>5. txns' = (txns \ {t}) \cup {later}
  BY <1>3 DEF Statement
<1>6. \A u \in txns \ {t} : /\ u.rows \cap RowsLocked(t) = {}
                            /\ u.gaps \cap Inserts(t) = {}
  BY <1>1 DEF WaitsFor, Holders
<1>7. QED
  BY <1>1, <1>4, <1>5, <1>6

\* One statement at a time, done once it was being done.
LEMMA DoingOne ==
    ASSUME NEW t, Shaped(t), ~t.undo, Running(t)
    PROVE  \E s : /\ \A v : Doing(t, v) <=> v = s
                  /\ Binds(t) =>
                       s \in {"save_credential", "save_device",
                              "forget_profiles", "save_profile",
                              "forget_devices", "forget_credential", "prune"}
                  /\ t.call.op = "delete" =>
                       s \in {"wipe_profiles", "wipe_devices",
                              "wipe_credential"}
                  /\ t.call.op = "confirm" => s \in {"clear", "choose"}
<1>1. PICK s : s = Statements(t)[t.at]
  OBVIOUS
<1>2. \A v : Doing(t, v) <=> v = s
  BY <1>1 DEF Doing
<1>3. t.at \in Nat \ {0}
  BY DEF Shaped
<1>4. t.call.op = "delete" => s \in {"wipe_profiles", "wipe_devices",
                                     "wipe_credential"}
  BY <1>2, <1>3, DeleteDone
<1>5. t.call.op = "confirm" => s \in {"clear", "choose"}
  BY <1>2, <1>3, ConfirmDone
<1>6. ASSUME Binds(t)
      PROVE  s \in {"save_credential", "save_device", "forget_profiles",
                    "save_profile", "forget_devices", "forget_credential",
                    "prune"}
  <2>1. t.call \in BindCall
    BY <1>6, CallKinds DEF Shaped, Binds
  <2>2. PICK q : q = BindStatements(t.call)
    OBVIOUS
  <2>3. PICK n : n = Len(t.call.found)
    OBVIOUS
  <2>4. /\ n \in Nat /\ Len(q) \in Nat /\ DOMAIN q = 1..Len(q)
        /\ q[1] = "save_credential" /\ q[2] = "save_device"
        /\ q[3] = "forget_profiles"
        /\ \A j \in 1..n : q[j + 3] = "save_profile"
        /\ \A j \in DOMAIN q : j > n + 3 =>
              q[j] \in {"forget_devices", "forget_credential", "prune"}
    <3>1. \A j \in DOMAIN q : j > n + 3 =>
              q[j] \in {"forget_devices", "forget_credential", "prune"}
      BY <2>1, <2>2, <2>3, BindShape
    <3>2. QED
      BY <2>1, <2>2, <2>3, <3>1, BindShape
  <2>5. s = q[t.at] /\ t.at \in DOMAIN q
    BY <1>1, <1>6, <2>2 DEF Running, Statements, Binds
  <2>6. CASE t.at > n + 3
    BY <2>4, <2>5, <2>6
  <2>7. CASE t.at > 3 /\ t.at <= n + 3
    <3>1. t.at - 3 \in 1..n /\ (t.at - 3) + 3 = t.at
      BY <1>3, <2>4, <2>7
    <3>2. q[t.at] = "save_profile"
      BY <2>4, <3>1
    <3>3. QED
      BY <2>5, <3>2
  <2>8. CASE t.at \in {1, 2, 3}
    BY <2>4, <2>5, <2>8
  <2>9. QED
    BY <1>3, <2>4, <2>6, <2>7, <2>8
<1>7. QED
  BY <1>2, <1>4, <1>5, <1>6

\* What is done, and held, after a statement.
LEMMA DoneFollows ==
    ASSUME NEW t, Shaped(t), NEW later, Follows(t, later)
    PROVE  /\ \A s : Done(later, s) <=> Done(t, s) \/ Doing(t, s)
           /\ Binds(later) <=> Binds(t)
           /\ \A c : HoldsAll(t, c) => HoldsAll(later, c)
           /\ \A d : HoldsDevice(t, d) => HoldsDevice(later, d)
           /\ \A p : HoldsProfile(t, p) => HoldsProfile(later, p)
<1>1. \A s : Done(later, s) <=> Done(t, s) \/ Doing(t, s)
  <2>1. DOMAIN Statements(t) \subseteq Nat
    BY StatementsNat
  <2>2. t.at \in Nat
    BY DEF Shaped
  <2>3. QED
    BY <2>1, <2>2, DoneNext DEF Follows
<1>2. QED
  BY <1>1 DEF Follows, Binds, HoldsAll, HoldsDevice, HoldsProfile

\* A row a statement locks is held after it.
LEMMA CredentialLocked ==
    ASSUME NEW t, NEW later, Follows(t, later), NEW rows,
           CredentialLocks(rows) \subseteq RowsLocked(t), NEW c \in rows
    PROVE  HoldsAll(later, c)
  BY DEF Follows, CredentialLocks, HoldsAll

\* A statement, and the credentials.
LEMMA StatementC ==
    ASSUME GInv, NEW t \in txns, ~t.undo, Running(t), Accepted(t),
           NEW later, Follows(t, later)
    PROVE  LiveC(later, credentials)
<1> DEFINE N == CredentialsNow(t)
           X == CredentialsNext(t)
           b == t.call.binding
           row == BoundRow(t.call)
<1>1. /\ Shaped(t) /\ Live(t) /\ CallSound(t.call)
      /\ LiveC(t, credentials) /\ Coherent(credentials)
  BY LiveCalls, SoundTables DEF GInv, Live
<1>2. /\ \A s : Done(later, s) <=> Done(t, s) \/ Doing(t, s)
      /\ \A c : HoldsAll(t, c) => HoldsAll(later, c)
      /\ later.call = t.call
  BY <1>1, DoneFollows DEF Follows
<1>3. PICK s : /\ \A v : Doing(t, v) <=> v = s
               /\ Binds(t) =>
                    s \in {"save_credential", "save_device",
                           "forget_profiles", "save_profile",
                           "forget_devices", "forget_credential", "prune"}
               /\ t.call.op = "delete" =>
                    s \in {"wipe_profiles", "wipe_devices",
                           "wipe_credential"}
               /\ t.call.op = "confirm" => s \in {"clear", "choose"}
  BY <1>1, DoingOne
<1>4. /\ N = Seen(credentials, t.credentials)
      /\ N = CredentialsSoFar(t, credentials)
      /\ N \subseteq AllCredentials /\ credentials \subseteq AllCredentials
  <2>1. N = Seen(credentials, t.credentials)
    BY DEF CredentialsNow
  <2>2. N = CredentialsSoFar(t, credentials)
    BY <1>1, <2>1 DEF LiveC
  <2>3. t.credentials.add \subseteq AllCredentials /\ credentials \subseteq AllCredentials
    BY DEF AllCredentials, Physical
  <2>4. QED
    BY <2>1, <2>2, <2>3 DEF Seen
<1>5. later.credentials = Written(t.credentials, N, X)
  BY DEF Follows, WorkOf
<1>6. SUFFICES /\ X = CredentialsSoFar(later, credentials)
               /\ \A c \in (N \ X) \cup (X \ N) : HoldsAll(later, c)
               /\ \A c \in credentials :
                     CredentialScanned(later, c) => HoldsAll(later, c)
               /\ Done(later, "save_credential") =>
                    /\ \A c, d \in CollidingIn(credentials, row) : c = d
                    /\ HoldsAll(later, row)
  <2> HIDE DEF N, X
  <2>0. N = Seen(credentials, t.credentials)
    BY <1>4
  <2>1. Seen(credentials, Written(t.credentials, N, X)) = X
    BY <2>0, SeenWritten
  <2>2. \A c \in Touched(Written(t.credentials, N, X)) :
           c \in Touched(t.credentials) \/ c \in (N \ X) \cup (X \ N)
    <3>1. \A c \in Touched(Written(t.credentials, N, X)) :
             \/ c \in Touched(t.credentials)
             \/ c \in N /\ c \notin X
             \/ c \in X /\ c \notin N
      BY <2>0, SeenWritten
    <3>2. QED
      BY <3>1
  <2>3. QED
    BY <1>1, <1>2, <1>5, <2>1, <2>2 DEF LiveC
<1>7. CASE Binds(t)
  <2>1. t.call \in BindCall /\ t.at \in Nat \ {0}
    BY <1>1, <1>7, CallKinds DEF Shaped, Binds
  <2>2. ~Done(t, "wipe_credential") /\ s # "wipe_credential"
    BY <1>3, <2>1, BindDone
  <2>3. ~Done(later, "wipe_credential")
    BY <1>2, <1>3, <2>2
  <2>4. CASE s = "save_credential"
    <3>1. ~Done(t, "save_credential")
      <4>1. t.at = 1
        BY <1>3, <2>1, <2>4, BindDone
      <4>2. QED
        BY <1>1, <1>7, <4>1, NothingDone DEF Shaped
    <3>2. N = credentials
      BY <1>4, <2>2, <3>1 DEF CredentialsSoFar
    <3>3. X = SavedCredential(credentials, row)
      BY <1>3, <2>4, SavedAs DEF CredentialsNext
    <3>4. X = CredentialsSoFar(later, credentials)
      BY <1>2, <1>3, <2>3, <2>4, <3>3 DEF CredentialsSoFar
    <3>5. RowsLocked(t) = CredentialLocks(Colliding(row) \cup {row})
      BY <1>3, <2>4 DEF RowsLocked, SaveCredentialLocks
    <3>6. PICK rows : rows = Colliding(row) \cup {row}
      OBVIOUS
    <3>7. \A c \in rows : HoldsAll(later, c)
      BY <3>5, <3>6, CredentialLocked
    <3>8. \A c \in (N \ X) \cup (X \ N) : c \in rows
      BY <3>2, <3>3, <3>6, SavedAs DEF SavedCredential
    <3>9. \A c, d \in CollidingIn(credentials, row) : c = d
      BY <1>3, <2>4, SavedAs DEF Accepted, CredentialAccepted
    <3>10. QED
      BY <2>3, <3>4, <3>6, <3>7, <3>8, <3>9 DEF CredentialScanned
  <2>5. CASE s # "save_credential"
    <3>1. Done(later, "save_credential") <=> Done(t, "save_credential")
      BY <1>2, <1>3, <2>5
    <3>2. CredentialsSoFar(later, credentials) = N
      BY <1>2, <1>4, <2>2, <2>3, <3>1 DEF CredentialsSoFar
    <3>3. X = N
      <4>1. CASE s = "forget_credential"
        <5>1. X = {c \in N : c.key \notin Replaced(t.call)}
          BY <1>3, <4>1 DEF CredentialsNext
        <5>2. Done(t, "save_credential")
          <6>1. PICK n \in Nat : /\ Doing(t, "forget_credential") => t.at > n + 3
                                 /\ Done(t, "save_credential") <=> t.at > 1
            BY <1>1, <2>1, BindDone
          <6>2. QED
            BY <1>3, <2>1, <4>1, <6>1
        <5>3. N = SavedCredential(credentials, row)
          BY <1>4, <2>2, <5>2 DEF CredentialsSoFar
        <5>4. \A c \in N : c.key \notin Replaced(t.call)
          BY <1>1, <1>7, <5>3, NoneToForget DEF Binds
        <5>5. QED
          BY <5>1, <5>4
      <4>2. CASE s # "forget_credential"
        BY <1>3, <1>7, <2>5, <4>2 DEF CredentialsNext
      <4>3. QED
        BY <4>1, <4>2
    <3>4. QED
      BY <1>1, <1>2, <2>3, <3>1, <3>2, <3>3 DEF CredentialScanned, LiveC
  <2>6. QED
    BY <2>4, <2>5
<1>8. CASE t.call.op = "delete"
  <2>1. \A v : Done(t, v) => v # "save_credential"
    BY <1>1, <1>8, DeleteDone DEF Shaped
  <2>2. ~Done(later, "save_credential") /\ ~Done(t, "save_credential")
    BY <1>2, <1>3, <1>8, <2>1
  <2>3. CASE s = "wipe_credential"
    <3>1. X = {c \in N : c.binding # b}
      BY <1>3, <2>3 DEF CredentialsNext
    <3>2. N = IF Done(t, "wipe_credential") THEN {c \in credentials : c.binding # b}
              ELSE credentials
      BY <1>4, <2>2 DEF CredentialsSoFar
    <3>3. CredentialsSoFar(later, credentials) = {c \in credentials : c.binding # b}
      BY <1>2, <1>3, <2>3 DEF CredentialsSoFar
    <3>4. X = CredentialsSoFar(later, credentials)
      BY <3>1, <3>2, <3>3
    <3>5. PICK rows : rows = {r \in AllCredentials : r.binding = b}
      OBVIOUS
    <3>6. RowsLocked(t) = CredentialLocks(rows)
      BY <1>3, <2>3, <3>5 DEF RowsLocked
    <3>7. \A c \in rows : HoldsAll(later, c)
      BY <3>6, CredentialLocked
    <3>8. \A c \in credentials : c.binding = b => c \in rows
      BY <1>4, <3>5
    <3>9. \A c \in (N \ X) \cup (X \ N) : c \in rows
      BY <1>4, <3>1, <3>5
    <3>10. QED
      BY <1>2, <2>2, <3>4, <3>7, <3>8, <3>9 DEF CredentialScanned
  <2>4. CASE s # "wipe_credential"
    <3>1. X = N
      BY <1>3, <1>8, <2>4 DEF CredentialsNext
    <3>2. Done(later, "wipe_credential") <=> Done(t, "wipe_credential")
      BY <1>2, <1>3, <2>4
    <3>3. CredentialsSoFar(later, credentials) = N
      BY <1>2, <1>4, <2>2, <3>2 DEF CredentialsSoFar
    <3>4. QED
      BY <1>1, <1>2, <2>2, <3>1, <3>2, <3>3 DEF CredentialScanned, LiveC
  <2>5. QED
    BY <2>3, <2>4
<1>9. CASE t.call.op = "confirm"
  <2>1. \A v : Done(t, v) => v \in {"clear", "choose"}
    BY <1>1, <1>9, ConfirmDone DEF Shaped
  <2>2. \A v : Done(later, v) => v \in {"clear", "choose"}
    BY <1>2, <1>3, <1>9, <2>1
  <2>3. X = N
    BY <1>3, <1>9 DEF CredentialsNext
  <2>4. N = credentials /\ CredentialsSoFar(later, credentials) = credentials
    BY <1>4, <2>1, <2>2 DEF CredentialsSoFar
  <2>5. QED
    BY <2>2, <2>3, <2>4 DEF CredentialScanned
<1>10. QED
  BY <1>1, <1>7, <1>8, <1>9 DEF Shaped, Binds

\* What is touched after a statement: that before, and what it changes.
LEMMA WrittenFollows ==
    ASSUME NEW T, NEW w, NEW N, NEW X, N = Seen(T, w), NEW w2,
           w2 = Written(w, N, X)
    PROVE  /\ Seen(T, w2) = X
           /\ \A x \in Touched(w2) : x \in Touched(w) \/ x \in (N \ X) \cup (X \ N)
           /\ \A x \in w2.add : x \in w.add \/ x \in X \ N
<1>1. Seen(T, w2) = X
  BY SeenWritten
<1>2. \A x \in Touched(w2) : \/ x \in Touched(w)
                             \/ x \in N /\ x \notin X
                             \/ x \in X /\ x \notin N
  BY SeenWritten
<1>3. \A x \in w2.add : x \in w.add \/ (x \in X /\ x \notin N)
  BY SeenWritten
<1>4. QED
  BY <1>1, <1>2, <1>3

\* The statement that is done, and what is done after it.
LEMMA StatementIs ==
    ASSUME NEW t, Shaped(t), ~t.undo, Running(t), NEW later, Follows(t, later)
    PROVE  \E s : /\ \A v : Doing(t, v) <=> v = s
                  /\ \A v : Done(later, v) <=> Done(t, v) \/ v = s
                  /\ Binds(t) =>
                       s \in {"save_credential", "save_device",
                              "forget_profiles", "save_profile",
                              "forget_devices", "forget_credential", "prune"}
                  /\ t.call.op = "delete" =>
                       s \in {"wipe_profiles", "wipe_devices",
                              "wipe_credential"}
                  /\ t.call.op = "confirm" => s \in {"clear", "choose"}
<1>1. PICK s : /\ \A v : Doing(t, v) <=> v = s
               /\ Binds(t) =>
                    s \in {"save_credential", "save_device",
                           "forget_profiles", "save_profile",
                           "forget_devices", "forget_credential", "prune"}
               /\ t.call.op = "delete" =>
                    s \in {"wipe_profiles", "wipe_devices",
                           "wipe_credential"}
               /\ t.call.op = "confirm" => s \in {"clear", "choose"}
  BY DoingOne
<1>2. \A v : Done(later, v) <=> Done(t, v) \/ v = s
  BY <1>1, DoneFollows
<1>3. QED
  BY <1>1, <1>2

\* A device whose slot a statement locks is held after it.
LEMMA DeviceLocked ==
    ASSUME NEW t, NEW later, Follows(t, later), NEW rows,
           DeviceLocks(rows) \subseteq RowsLocked(t), NEW d, NEW e \in rows,
           d.binding = e.binding, d.device = e.device
    PROVE  HoldsDevice(later, d)
  BY DEF Follows, DeviceLocks, HoldsDevice

\* A statement, and the devices.
LEMMA StatementD ==
    ASSUME GInv, NEW t \in txns, ~t.undo, Running(t),
           NEW later, Follows(t, later)
    PROVE  LiveD(later, devices)
<1> DEFINE N == DevicesNow(t)
           X == DevicesNext(t)
           b == t.call.binding
           row == BoundDevice(t.call)
<1>1. Shaped(t) /\ Live(t) /\ LiveD(t, devices)
  BY LiveCalls DEF Live
<1>2. /\ \A d : HoldsDevice(t, d) => HoldsDevice(later, d)
      /\ later.call = t.call
  BY <1>1, DoneFollows DEF Follows
<1>3. PICK s : /\ \A v : Doing(t, v) <=> v = s
               /\ \A v : Done(later, v) <=> Done(t, v) \/ v = s
               /\ Binds(t) =>
                    s \in {"save_credential", "save_device",
                           "forget_profiles", "save_profile",
                           "forget_devices", "forget_credential", "prune"}
               /\ t.call.op = "delete" =>
                    s \in {"wipe_profiles", "wipe_devices",
                           "wipe_credential"}
               /\ t.call.op = "confirm" => s \in {"clear", "choose"}
  BY <1>1, StatementIs
<1>4. /\ N = Seen(devices, t.devices)
      /\ N = DevicesSoFar(t, devices)
      /\ N \subseteq AllDevices /\ devices \subseteq AllDevices
  <2>1. N = Seen(devices, t.devices)
    BY DEF DevicesNow
  <2>2. N = DevicesSoFar(t, devices)
    BY <1>1, <2>1 DEF LiveD
  <2>3. t.devices.add \subseteq AllDevices /\ devices \subseteq AllDevices
    BY DEF AllDevices, Physical
  <2>4. QED
    BY <2>1, <2>2, <2>3 DEF Seen
<1>5. later.devices = Written(t.devices, N, X)
  BY DEF Follows, WorkOf
<1>6. SUFFICES /\ X = DevicesSoFar(later, devices)
               /\ \A d \in (N \ X) \cup (X \ N) : HoldsDevice(later, d)
               /\ \A d \in devices :
                     DeviceScanned(later, d) => HoldsDevice(later, d)
               /\ Done(later, "save_device") => HoldsDevice(later, row)
  <2> HIDE DEF N, X
  <2>0. N = Seen(devices, t.devices)
    BY <1>4
  <2>1. /\ Seen(devices, later.devices) = X
        /\ \A d \in Touched(later.devices) :
              d \in Touched(t.devices) \/ d \in (N \ X) \cup (X \ N)
    BY <1>5, <2>0, WrittenFollows
  <2>2. QED
    BY <1>1, <1>2, <2>1 DEF LiveD
<1>7. CASE Binds(t)
  <2>1. t.call \in BindCall /\ t.at \in Nat \ {0}
    BY <1>1, <1>7, CallKinds DEF Shaped, Binds
  <2>2. ~Done(t, "wipe_devices") /\ ~Done(later, "wipe_devices")
    BY <1>3, <1>7, <2>1, BindDone
  <2>3. CASE s = "save_device"
    <3>1. ~Done(t, "save_device") /\ ~Done(t, "forget_devices")
      <4>1. PICK n \in Nat : /\ Doing(t, "save_device") <=> t.at = 2
                             /\ Done(t, "save_device") <=> t.at > 2
                             /\ Done(t, "forget_devices") => t.at > n + 3
        BY <1>1, <2>1, BindDone
      <4>2. QED
        BY <1>3, <2>3, <4>1
    <3>2. N = devices
      BY <1>4, <2>2, <3>1 DEF DevicesSoFar
    <3>3. X = SavedDevice(devices, row)
      BY <1>3, <2>3, SavedAs DEF DevicesNext
    <3>4. Done(later, "save_device") /\ ~Done(later, "forget_devices")
      BY <1>3, <2>3, <3>1
    <3>5. X = DevicesSoFar(later, devices)
      BY <1>2, <2>2, <3>3, <3>4 DEF DevicesSoFar
    <3>6. PICK rows : rows = {row}
      OBVIOUS
    <3>7. RowsLocked(t) = DeviceLocks(rows)
      BY <1>3, <2>3, <3>6 DEF RowsLocked
    <3>8. \A d : d.binding = row.binding /\ d.device = row.device => HoldsDevice(later, d)
      BY <3>6, <3>7, DeviceLocked
    <3>9. \A d \in (N \ X) \cup (X \ N) : d.binding = row.binding /\ d.device = row.device
      BY <3>2, <3>3 DEF SavedDevice
    <3>10. HoldsDevice(later, row)
      BY <3>8
    <3>11. QED
      BY <2>2, <3>4, <3>5, <3>8, <3>9, <3>10 DEF DeviceScanned
  <2>4. CASE s = "forget_devices"
    <3>1. Done(t, "save_device")
      <4>1. PICK n \in Nat : /\ Doing(t, "forget_devices") => t.at > n + 3
                             /\ Done(t, "save_device") <=> t.at > 2
        BY <1>1, <2>1, BindDone
      <4>2. QED
        BY <1>3, <2>1, <2>4, <4>1
    <3>2. Done(later, "save_device") /\ Done(later, "forget_devices")
      BY <1>3, <2>4, <3>1
    <3>3. X = {d \in N : d.key \notin Replaced(t.call)}
      BY <1>3, <2>4 DEF DevicesNext
    <3>4. N = {d \in SavedDevice(devices, row) :
                  Done(t, "forget_devices") => d.key \notin Replaced(t.call)}
      BY <1>4, <2>2, <3>1 DEF DevicesSoFar
    <3>5. DevicesSoFar(later, devices) =
            {d \in SavedDevice(devices, row) : d.key \notin Replaced(t.call)}
      BY <1>2, <2>2, <3>2 DEF DevicesSoFar
    <3>6. X = DevicesSoFar(later, devices)
      BY <3>3, <3>4, <3>5
    <3>7. PICK rows : rows = {r \in AllDevices : r.key \in Replaced(t.call)}
      OBVIOUS
    <3>8. RowsLocked(t) = DeviceLocks(rows)
      BY <1>3, <2>4, <3>7 DEF RowsLocked
    <3>9. \A d \in rows : HoldsDevice(later, d)
      BY <3>8, DeviceLocked
    <3>10. \A d \in (N \ X) \cup (X \ N) : d \in rows
      BY <1>4, <3>3, <3>7
    <3>11. \A d \in devices : d.key \in Replaced(t.call) => d \in rows
      BY <1>4, <3>7
    <3>12. HoldsDevice(later, row)
      BY <1>1, <1>2, <3>1 DEF LiveD
    <3>13. QED
      BY <1>2, <2>2, <3>6, <3>9, <3>10, <3>11, <3>12 DEF DeviceScanned
  <2>5. CASE s \notin {"save_device", "forget_devices"}
    <3>1. X = N
      BY <1>3, <1>7, <2>5 DEF DevicesNext
    <3>2. /\ Done(later, "save_device") <=> Done(t, "save_device")
          /\ Done(later, "forget_devices") <=> Done(t, "forget_devices")
      BY <1>3, <2>5
    <3>3. DevicesSoFar(later, devices) = N
      BY <1>2, <1>4, <2>2, <3>2 DEF DevicesSoFar
    <3>4. QED
      BY <1>1, <1>2, <2>2, <3>1, <3>2, <3>3 DEF DeviceScanned, LiveD
  <2>6. QED
    BY <2>3, <2>4, <2>5
<1>8. CASE t.call.op = "delete"
  <2>1. \A v : Done(t, v) => v \in {"wipe_profiles", "wipe_devices", "wipe_credential"}
    BY <1>1, <1>8, DeleteDone DEF Shaped
  <2>2. /\ ~Done(later, "save_device") /\ ~Done(t, "save_device")
        /\ ~Done(later, "forget_devices")
    BY <1>3, <1>8, <2>1
  <2>3. CASE s = "wipe_devices"
    <3>1. X = {d \in N : d.binding # b}
      BY <1>3, <2>3 DEF DevicesNext
    <3>2. N = IF Done(t, "wipe_devices") THEN {d \in devices : d.binding # b}
              ELSE devices
      BY <1>4, <2>2 DEF DevicesSoFar
    <3>3. DevicesSoFar(later, devices) = {d \in devices : d.binding # b}
      BY <1>2, <1>3, <2>3 DEF DevicesSoFar
    <3>4. X = DevicesSoFar(later, devices)
      BY <3>1, <3>2, <3>3
    <3>5. PICK rows : rows = {r \in AllDevices : r.binding = b}
      OBVIOUS
    <3>6. RowsLocked(t) = DeviceLocks(rows)
      BY <1>3, <2>3, <3>5 DEF RowsLocked
    <3>7. \A d \in rows : HoldsDevice(later, d)
      BY <3>6, DeviceLocked
    <3>8. \A d \in devices : d.binding = b => d \in rows
      BY <1>4, <3>5
    <3>9. \A d \in (N \ X) \cup (X \ N) : d \in rows
      BY <1>4, <3>1, <3>5
    <3>10. QED
      BY <1>2, <2>2, <3>4, <3>7, <3>8, <3>9 DEF DeviceScanned
  <2>4. CASE s # "wipe_devices"
    <3>1. X = N
      BY <1>3, <1>8, <2>4 DEF DevicesNext
    <3>2. Done(later, "wipe_devices") <=> Done(t, "wipe_devices")
      BY <1>3, <2>4
    <3>3. DevicesSoFar(later, devices) = N
      BY <1>2, <1>4, <2>2, <3>2 DEF DevicesSoFar
    <3>4. QED
      BY <1>1, <1>2, <2>2, <3>1, <3>2, <3>3 DEF DeviceScanned, LiveD
  <2>5. QED
    BY <2>3, <2>4
<1>9. CASE t.call.op = "confirm"
  <2>1. \A v : Done(t, v) => v \in {"clear", "choose"}
    BY <1>1, <1>9, ConfirmDone DEF Shaped
  <2>2. \A v : Done(later, v) => v \in {"clear", "choose"}
    BY <1>3, <1>9, <2>1
  <2>3. X = N
    BY <1>3, <1>9 DEF DevicesNext
  <2>4. N = devices /\ DevicesSoFar(later, devices) = devices
    BY <1>4, <2>1, <2>2 DEF DevicesSoFar
  <2>5. QED
    BY <2>2, <2>3, <2>4 DEF DeviceScanned
<1>10. QED
  BY <1>1, <1>7, <1>8, <1>9 DEF Shaped, Binds

-----------------------------------------------------------------------------
(* What a statement makes of the profiles.                                 *)

\* Upserts of some profiles and then of another are upserts of them all.
LEMMA OthersTwice ==
    ASSUME NEW call, NEW idents, NEW i, i \notin idents, NEW R, R \subseteq ProfileRow
    PROVE  /\ WithOthers(call, {}, R) = R
           /\ WithOthers(call, {i}, WithOthers(call, idents, R))
                = WithOthers(call, idents \cup {i}, R)
<1> DEFINE f(p) == [p EXCEPT !.key = CallKey(call), !.default = FALSE]
           g(p, js) == IF p.binding = call.binding /\ p.ident \in js THEN f(p) ELSE p
           none(js, rows) == {j \in js : ~ \E p \in rows :
                                p.binding = call.binding /\ p.ident = j}
           n(j) == NewProfile(call, j, FALSE)
<1>1. \A js, rows : WithOthers(call, js, rows)
                      = {g(p, js) : p \in rows} \cup {n(j) : j \in none(js, rows)}
  BY DEF WithOthers
<1>2. \A p \in ProfileRow : \A js : g(p, js).binding = p.binding /\ g(p, js).ident = p.ident
  BY InSlot
<1>3. \A j : n(j).binding = call.binding /\ n(j).ident = j
  BY DEF NewProfile
<1>4. \A p, js : p.ident \notin js => g(p, js) = p
  OBVIOUS
<1>5. \A p, js, ks : (p.ident \in js <=> p.ident \in ks) => g(p, js) = g(p, ks)
  OBVIOUS
<1>6. \A js, rows : none(js, rows) = {j \in js : ~ \E p \in rows :
                                p.binding = call.binding /\ p.ident = j}
  OBVIOUS
<1> HIDE DEF f, g, none, n
<1>7. WithOthers(call, {}, R) = R
  <2>1. none({}, R) = {}
    BY <1>6
  <2>2. \A p : g(p, {}) = p
    BY <1>4
  <2>3. {g(p, {}) : p \in R} = R
    BY <2>2
  <2>4. WithOthers(call, {}, R) = {g(p, {}) : p \in R} \cup {n(j) : j \in none({}, R)}
    BY <1>1
  <2>5. {n(j) : j \in none({}, R)} = {}
    BY <2>1
  <2>6. QED
    BY <2>3, <2>4, <2>5
<1> DEFINE S == WithOthers(call, idents, R)
           all == idents \cup {i}
<1>8. S = {g(p, idents) : p \in R} \cup {n(j) : j \in none(idents, R)}
  BY <1>1
<1>9. none({i}, S) = none({i}, R)
  <2>1. (\E p \in S : p.binding = call.binding /\ p.ident = i)
          <=> (\E p \in R : p.binding = call.binding /\ p.ident = i)
    <3>1. ASSUME NEW p \in S, p.binding = call.binding, p.ident = i
          PROVE  \E q \in R : q.binding = call.binding /\ q.ident = i
      <4>1. p \notin {n(j) : j \in none(idents, R)}
        BY <1>3, <1>6, <3>1
      <4>2. PICK q \in R : p = g(q, idents)
        BY <1>8, <4>1
      <4>3. QED
        BY <1>2, <3>1, <4>2
    <3>2. ASSUME NEW q \in R, q.binding = call.binding, q.ident = i
          PROVE  \E p \in S : p.binding = call.binding /\ p.ident = i
      <4>1. g(q, idents) \in S
        BY <1>8
      <4>2. QED
        BY <1>2, <3>2, <4>1
    <3>3. QED
      BY <3>1, <3>2
  <2>2. QED
    BY <1>6, <2>1
<1>10. none(all, R) = none(idents, R) \cup none({i}, R)
  BY <1>6
<1>11. \A p \in R : g(g(p, idents), {i}) = g(p, all)
  <2> TAKE p \in R
  <2>1. CASE p.ident = i
    <3>1. g(p, idents) = p
      BY <1>4, <2>1
    <3>2. g(p, {i}) = g(p, all)
      BY <1>5, <2>1
    <3>3. QED
      BY <3>1, <3>2
  <2>2. CASE p.ident # i
    <3>1. g(p, idents).ident = p.ident
      BY <1>2
    <3>2. g(g(p, idents), {i}) = g(p, idents)
      BY <1>4, <2>2, <3>1
    <3>3. g(p, idents) = g(p, all)
      BY <1>5, <2>2
    <3>4. QED
      BY <3>2, <3>3
  <2>3. QED
    BY <2>1, <2>2
<1>12. \A j \in none(idents, R) : g(n(j), {i}) = n(j)
  BY <1>3, <1>4, <1>6
<1>13. {g(p, {i}) : p \in S} = {g(p, all) : p \in R} \cup {n(j) : j \in none(idents, R)}
  <2>1. \A x : (\E p \in S : x = g(p, {i}))
           <=> \/ \E p \in R : x = g(p, all)
               \/ \E j \in none(idents, R) : x = n(j)
    BY <1>8, <1>11, <1>12
  <2>2. QED
    BY <2>1
<1>14. WithOthers(call, {i}, S) = {g(p, {i}) : p \in S} \cup {n(j) : j \in none({i}, R)}
  BY <1>1, <1>9
<1>15. WithOthers(call, all, R) = {g(p, all) : p \in R} \cup {n(j) : j \in none(all, R)}
  BY <1>1
<1>16. WithOthers(call, {i}, S) = WithOthers(call, all, R)
  BY <1>10, <1>13, <1>14, <1>15
<1>17. QED
  BY <1>7, <1>16

\* The two UPDATEs of a Confirm together.
LEMMA ChosenTwice ==
    ASSUME NEW call, NEW P, P \subseteq ProfileRow, NEW N, N = WithoutDefault(P, call)
    PROVE  /\ {IF Chosen(call, p) THEN [p EXCEPT !.default = TRUE] ELSE p : p \in N}
                = WithChosen(P, call)
           /\ (\E p \in N : Chosen(call, p)) => \E p \in P : Chosen(call, p)
<1> DEFINE g(p) == IF p.binding = call.binding THEN [p EXCEPT !.default = FALSE] ELSE p
           h(p) == IF Chosen(call, p) THEN [p EXCEPT !.default = TRUE] ELSE p
           f(p) == IF p.binding = call.binding
                   THEN [p EXCEPT !.default = Chosen(call, p)] ELSE p
<1>1. \A p \in ProfileRow : Chosen(call, g(p)) <=> Chosen(call, p)
  <2> TAKE p \in ProfileRow
  <2>1. g(p).binding = p.binding /\ g(p).ident = p.ident /\ g(p).key = p.key
    BY InSlot
  <2>2. QED
    BY <2>1 DEF Chosen
<1>2. \A p \in ProfileRow : h(g(p)) = f(p)
  <2> TAKE p \in ProfileRow
  <2>1. CASE Chosen(call, p)
    <3>1. p.binding = call.binding /\ Chosen(call, g(p))
      BY <1>1, <2>1 DEF Chosen
    <3>2. h(g(p)) = [g(p) EXCEPT !.default = TRUE] /\ g(p) = [p EXCEPT !.default = FALSE]
      BY <3>1
    <3>3. f(p) = [p EXCEPT !.default = TRUE]
      <4>1. Chosen(call, p) = TRUE
        BY <2>1 DEF Chosen
      <4>2. QED
        BY <3>1, <4>1
    <3>4. [[p EXCEPT !.default = FALSE] EXCEPT !.default = TRUE]
            = [p EXCEPT !.default = TRUE]
      BY DEF ProfileRow
    <3>5. QED
      BY <3>2, <3>3, <3>4
  <2>2. CASE ~Chosen(call, p)
    <3>1. h(g(p)) = g(p)
      BY <1>1, <2>2
    <3>2. Chosen(call, p) = FALSE
      BY <2>2 DEF Chosen
    <3>3. f(p) = g(p)
      BY <3>2
    <3>4. QED
      BY <3>1, <3>3
  <2>3. QED
    BY <2>1, <2>2
<1>3. N = {g(p) : p \in P}
  BY DEF WithoutDefault
<1>4. WithChosen(P, call) = {f(p) : p \in P}
  BY DEF WithChosen
<1> HIDE DEF g, f
<1>5. {h(p) : p \in N} = {f(p) : p \in P}
  <2>1. \A x : (\E p \in N : x = h(p)) <=> (\E p \in P : x = f(p))
    BY <1>2, <1>3
  <2>2. QED
    BY <2>1
<1>6. QED
  BY <1>1, <1>3, <1>4, <1>5

\* A profile a statement locks is held after it.
LEMMA ProfileLocked ==
    ASSUME NEW t, NEW later, Follows(t, later), NEW rows,
           ProfileLocks(rows) \subseteq RowsLocked(t), NEW p \in rows
    PROVE  HoldsProfile(later, p)
  BY DEF Follows, ProfileLocks, HoldsProfile

\* What a statement scans of the profiles it locks.
LEMMA ProfilesScanned ==
    ASSUME GInv, NEW t \in txns, ~t.undo, Running(t), NEW later, Follows(t, later)
    PROVE  \A p \in profiles : ProfileScanned(later, p) => HoldsProfile(later, p)
<1> DEFINE b == t.call.binding
<1>1. Shaped(t) /\ LiveP(t, profiles)
  BY LiveCalls DEF Live
<1>2. PICK s : /\ \A v : Doing(t, v) <=> v = s
               /\ \A v : Done(later, v) <=> Done(t, v) \/ v = s
  BY <1>1, StatementIs
<1>3. later.call = t.call
  BY DEF Follows
<1>4. \A p : HoldsProfile(t, p) => HoldsProfile(later, p)
  BY <1>1, DoneFollows
<1>5. profiles \subseteq AllProfiles
  BY DEF AllProfiles, Physical
<1>6. ASSUME s = "forget_profiles", NEW p \in profiles, p.key \in Gone(t.call)
      PROVE  HoldsProfile(later, p)
  <2>1. PICK rows : rows = {r \in AllProfiles : r.key \in Gone(t.call)}
    OBVIOUS
  <2>2. RowsLocked(t) = ProfileLocks(rows)
    BY <1>2, <1>6, <2>1 DEF RowsLocked
  <2>3. QED
    BY <1>5, <1>6, <2>1, <2>2, ProfileLocked
<1>7. ASSUME s \in {"prune", "wipe_profiles", "clear"}, NEW p \in profiles,
             p.binding = b
      PROVE  HoldsProfile(later, p)
  <2>1. PICK rows : rows = {r \in AllProfiles : r.binding = b}
    OBVIOUS
  <2>2. RowsLocked(t) = ProfileLocks(rows)
    BY <1>2, <1>7, <2>1 DEF RowsLocked
  <2>3. QED
    BY <1>5, <1>7, <2>1, <2>2, ProfileLocked
<1>8. ASSUME NEW p \in profiles, ProfileScanned(later, p)
      PROVE  \/ ProfileScanned(t, p)
             \/ s = "forget_profiles" /\ p.key \in Gone(t.call)
             \/ s \in {"prune", "wipe_profiles", "clear"} /\ p.binding = b
  BY <1>2, <1>3, <1>8 DEF ProfileScanned, ScansBinding
<1>9. QED
  BY <1>1, <1>4, <1>6, <1>7, <1>8 DEF LiveP

\* The profiles a bind has saved.
LEMMA SavedNext ==
    ASSUME NEW t, Shaped(t), ~t.undo, Binds(t), NEW later, Follows(t, later)
    PROVE  LET n == Len(t.call.found)
           IN /\ n \in Nat /\ DOMAIN t.call.found = 1..n
              /\ Saved(t) = {j \in 1..n : j + 3 < t.at}
              /\ Doing(t, "save_profile") =>
                   /\ Profile(t) \in 1..n /\ Profile(t) \notin Saved(t)
                   /\ Saved(later) = Saved(t) \cup {Profile(t)}
                   /\ Profile(t) = 1 => Saved(t) = {}
                   /\ Profile(t) # 1 => 1 \in Saved(t)
              /\ ~Doing(t, "save_profile") => Saved(later) = Saved(t)
<1>1. t.call \in BindCall /\ t.at \in Nat \ {0}
  BY CallKinds DEF Shaped, Binds
<1>2. PICK n : n = Len(t.call.found)
  OBVIOUS
<1>3. /\ n \in Nat /\ DOMAIN t.call.found = 1..n
      /\ Doing(t, "save_profile") <=> t.at > 3 /\ t.at <= n + 3
  BY <1>1, <1>2, BindDone
<1>4. /\ Saved(t) = {j \in 1..n : j + 3 < t.at}
      /\ Saved(later) = {j \in 1..n : j + 3 < t.at + 1}
  BY <1>3 DEF Saved, Follows
<1>5. ASSUME Doing(t, "save_profile")
      PROVE  /\ Profile(t) \in 1..n /\ Profile(t) \notin Saved(t)
             /\ Saved(later) = Saved(t) \cup {Profile(t)}
             /\ Profile(t) = 1 => Saved(t) = {}
             /\ Profile(t) # 1 => 1 \in Saved(t)
  <2>1. PICK j : j = t.at - 3
    OBVIOUS
  <2>2. j \in 1..n /\ t.at = j + 3
    BY <1>1, <1>3, <1>5, <2>1
  <2>3. \A i \in 1..n : /\ i + 3 < t.at + 1 <=> i + 3 < t.at \/ i = j
                        /\ ~(j = 1 /\ i + 3 < t.at)
    BY <1>3, <2>2
  <2>4. j \notin Saved(t)
    BY <1>4, <2>2
  <2>5. j # 1 => 1 \in Saved(t)
    BY <1>3, <1>4, <2>2
  <2>6. Saved(later) = Saved(t) \cup {j}
    BY <1>4, <2>2, <2>3
  <2>7. j = 1 => Saved(t) = {}
    BY <1>4, <2>3
  <2>8. QED
    BY <2>1, <2>2, <2>4, <2>5, <2>6, <2>7 DEF Profile
<1>6. ASSUME ~Doing(t, "save_profile")
      PROVE  Saved(later) = Saved(t)
  <2>1. t.at <= 3 \/ t.at > n + 3
    BY <1>1, <1>3, <1>6
  <2>2. \A i \in 1..n : i + 3 < t.at + 1 <=> i + 3 < t.at
    BY <1>1, <1>3, <2>1
  <2>3. QED
    BY <1>4, <2>2
<1>7. QED
  BY <1>2, <1>3, <1>4, <1>5, <1>6

\* ProfileRepo.Save of one profile.
LEMMA SaveOne ==
    ASSUME NEW t, t.call \in BindCall, Profile(t) \in DOMAIN t.call.found,
           NEW rows
    PROVE  SaveOthers(JustProfile(t), rows)
             = WithOthers(t.call, {t.call.found[Profile(t)]}, rows)
<1> DEFINE one == <<t.call.found[1], t.call.found[Profile(t)]>>
<1>1. PICK call : call = JustProfile(t)
  OBVIOUS
<1>2. /\ call.binding = t.call.binding /\ call.id = t.call.id
      /\ call.cookie = t.call.cookie
      /\ call.found = one
  BY <1>1 DEF JustProfile, BindCall
<1>3. {call.found[i] : i \in 2..Len(call.found)} = {t.call.found[Profile(t)]}
  <2>1. Len(one) = 2 /\ one[2] = t.call.found[Profile(t)]
    OBVIOUS
  <2>2. 2..2 = {2}
    OBVIOUS
  <2>3. QED
    BY <1>2, <2>1, <2>2
<1>4. CallKey(call) = CallKey(t.call)
  BY <1>2 DEF CallKey
<1>5. \A i, d : NewProfile(call, i, d) = NewProfile(t.call, i, d)
  BY <1>2, <1>4 DEF NewProfile
<1>6. SaveOthers(call, rows) = WithOthers(t.call, {t.call.found[Profile(t)]}, rows)
  <2>1. PICK others : others = {t.call.found[Profile(t)]}
    OBVIOUS
  <2>2. {call.found[i] : i \in 2..Len(call.found)} = others
    BY <1>3, <2>1
  <2>3. SaveOthers(call, rows) =
          {IF p.binding = t.call.binding /\ p.ident \in others
           THEN [p EXCEPT !.key = CallKey(t.call), !.default = FALSE]
           ELSE p : p \in rows}
          \cup {NewProfile(t.call, ident, FALSE) :
                  ident \in {i \in others : ~ \E p \in rows :
                     (p.binding = t.call.binding /\ p.ident \in others) /\ p.ident = i}}
    BY <1>2, <1>4, <1>5, <2>2 DEF SaveOthers
  <2>4. {i \in others : ~ \E p \in rows :
            (p.binding = t.call.binding /\ p.ident \in others) /\ p.ident = i}
        = {i \in others : ~ \E p \in rows : p.binding = t.call.binding /\ p.ident = i}
    OBVIOUS
  <2>5. SaveOthers(call, rows) = WithOthers(t.call, others, rows)
    BY <2>3, <2>4 DEF WithOthers
  <2>6. QED
    BY <2>1, <2>5
<1>7. QED
  BY <1>1, <1>6

\* What the transaction sees of the profiles before a statement.
LEMMA ProfilesBefore ==
    ASSUME GInv, NEW t \in txns, ~t.undo
    PROVE  /\ ProfilesNow(t) = Seen(profiles, t.profiles)
           /\ ProfilesNow(t) = ProfilesSoFar(t, profiles)
           /\ ProfilesNow(t) \subseteq AllProfiles
           /\ ProfilesNow(t) \subseteq ProfileRow
           /\ profiles \subseteq ProfileRow
<1>1. Shaped(t) /\ LiveP(t, profiles)
  BY LiveCalls DEF Live
<1>2. ProfilesNow(t) = Seen(profiles, t.profiles)
  BY DEF ProfilesNow
<1>3. ProfilesNow(t) = ProfilesSoFar(t, profiles)
  BY <1>1, <1>2 DEF LiveP
<1>4. t.profiles.add \subseteq AllProfiles /\ profiles \subseteq AllProfiles
  BY DEF AllProfiles, Physical
<1>5. profiles \subseteq ProfileRow /\ t.profiles.add \subseteq ProfileRow
  BY <1>1, SoundTables DEF GInv, Shaped
<1>6. QED
  BY <1>2, <1>3, <1>4, <1>5 DEF Seen

\* A bind's statement: what it makes of the profiles, and what it locks.
LEMMA BindStatementP ==
    ASSUME GInv, NEW t \in txns, ~t.undo, Running(t), Accepted(t), Binds(t),
           NEW later, Follows(t, later)
    PROVE  /\ ProfilesNext(t) = ProfilesSoFar(later, profiles)
           /\ \A p : ~HoldsProfile(later, p) =>
                 (p \in ProfilesNow(t) <=> p \in ProfilesNext(t))
           /\ \A i \in SavedIdents(later) :
                 <<"profile", t.call.binding, i>> \in later.rows
           /\ 1 \in Saved(later) => DefaultFits(profiles, t.call)
<1> DEFINE N == ProfilesNow(t)
           X == ProfilesNext(t)
           b == t.call.binding
           call == t.call
           n == Len(t.call.found)
<1>1. /\ Shaped(t) /\ LiveP(t, profiles) /\ CallSound(call)
      /\ call \in BindCall /\ t.at \in Nat \ {0} /\ later.call = call
  BY LiveCalls, CallKinds DEF Live, Shaped, Binds, Follows
<1>2. PICK s : /\ \A v : Doing(t, v) <=> v = s
               /\ \A v : Done(later, v) <=> Done(t, v) \/ v = s
               /\ s \in {"save_credential", "save_device",
                         "forget_profiles", "save_profile",
                         "forget_devices", "forget_credential", "prune"}
  BY <1>1, StatementIs
<1>3. /\ Binds(later) /\ \A p : HoldsProfile(t, p) => HoldsProfile(later, p)
      /\ t.rows \subseteq later.rows
  BY <1>1, DoneFollows DEF Follows
<1>4. /\ N = ProfilesSoFar(t, profiles) /\ N \subseteq AllProfiles
      /\ N \subseteq ProfileRow /\ profiles \subseteq ProfileRow
  BY ProfilesBefore
<1>5. /\ n \in Nat /\ DOMAIN call.found = 1..n
      /\ Saved(t) = {j \in 1..n : j + 3 < t.at}
      /\ s = "save_profile" =>
           /\ Profile(t) \in 1..n /\ Profile(t) \notin Saved(t)
           /\ Saved(later) = Saved(t) \cup {Profile(t)}
           /\ Profile(t) = 1 => Saved(t) = {}
           /\ Profile(t) # 1 => 1 \in Saved(t)
      /\ s # "save_profile" => Saved(later) = Saved(t)
  BY <1>1, <1>2, SavedNext
<1>6. /\ s = "forget_profiles" <=> t.at = 3
      /\ s = "save_profile" <=> t.at > 3 /\ t.at <= n + 3
      /\ Done(t, "forget_profiles") <=> t.at > 3
      /\ Done(t, "prune") => t.at > n + 3
      /\ s = "prune" => call.op = "update"
  <2>1. /\ Doing(t, "forget_profiles") <=> t.at = 3
        /\ Doing(t, "save_profile") <=> t.at > 3 /\ t.at <= n + 3
        /\ Done(t, "forget_profiles") <=> t.at > 3
        /\ Done(t, "prune") => t.at > n + 3
        /\ Doing(t, "prune") => call.op = "update"
    BY <1>1, BindDone
  <2>2. QED
    BY <1>2, <2>1
<1>7. /\ \A i \in SavedIdents(t) : <<"profile", b, i>> \in t.rows
      /\ 1 \in Saved(t) => DefaultFits(profiles, call)
  BY <1>1 DEF LiveP
<1>8. CASE s = "forget_profiles"
  <2>1. /\ Saved(t) = {} /\ Saved(later) = {} /\ ~Done(t, "forget_profiles")
        /\ ~Done(t, "prune") /\ ~Done(later, "prune") /\ Done(later, "forget_profiles")
    BY <1>1, <1>2, <1>5, <1>6, <1>8
  <2>2. N = profiles
    BY <1>4, <2>1 DEF ProfilesSoFar, BoundSoFar
  <2>3. X = KeptIn(profiles, call)
    BY <1>2, <1>8, <2>2 DEF ProfilesNext, KeptIn
  <2>4. ProfilesSoFar(later, profiles) = KeptIn(profiles, call)
    BY <1>1, <1>3, <2>1 DEF ProfilesSoFar, BoundSoFar
  <2>5. PICK rows : rows = {r \in AllProfiles : r.key \in Gone(call)}
    OBVIOUS
  <2>6. RowsLocked(t) = ProfileLocks(rows)
    BY <1>2, <1>8, <2>5 DEF RowsLocked
  <2>7. \A p \in rows : HoldsProfile(later, p)
    BY <2>6, ProfileLocked
  <2>8. \A p \in N : p \notin X => p \in rows
    BY <1>4, <2>2, <2>3, <2>5 DEF KeptIn
  <2>9. X \subseteq N
    BY <2>2, <2>3 DEF KeptIn
  <2>10. SavedIdents(later) = {}
    BY <2>1 DEF SavedIdents
  <2>11. QED
    BY <2>1, <2>3, <2>4, <2>7, <2>8, <2>9, <2>10
<1>9. CASE s = "save_profile"
  <2>1. /\ Done(t, "forget_profiles") /\ Done(later, "forget_profiles")
        /\ ~Done(t, "prune") /\ ~Done(later, "prune")
    BY <1>1, <1>2, <1>5, <1>6, <1>9
  <2>2. PICK j : j = Profile(t)
    OBVIOUS
  <2>3. PICK i : i = call.found[j]
    OBVIOUS
  <2>4. /\ j \in 1..n /\ j \notin Saved(t) /\ Saved(later) = Saved(t) \cup {j}
        /\ j = 1 => Saved(t) = {}
        /\ j # 1 => 1 \in Saved(t)
    BY <1>5, <1>9, <2>2
  <2>5. RowsLocked(t) = {<<"profile", b, i>>}
    BY <1>2, <1>9, <2>2, <2>3 DEF RowsLocked
  <2>6. <<"profile", b, i>> \in later.rows
    BY <2>5 DEF Follows
  <2>7. \A k \in SavedIdents(later) : <<"profile", b, k>> \in later.rows
    <3>1. \A k \in SavedIdents(later) : k \in SavedIdents(t) \/ k = i
      BY <1>1, <2>3, <2>4 DEF SavedIdents
    <3>2. QED
      BY <1>3, <1>7, <2>6, <3>1
  <2>8. CASE j = 1
    <3> DEFINE seen == SeenDefault(profiles, call)
    <3>1. N = KeptIn(profiles, call)
      <4>1. 1 \notin Saved(t)
        BY <2>4, <2>8
      <4>2. QED
        BY <1>4, <2>1, <4>1 DEF ProfilesSoFar, BoundSoFar
    <3>2. X = WithDefault(call, seen, N)
      BY <1>2, <1>9, <2>2, <2>8, SavedAs DEF ProfilesNext
    <3>3. X = DefaultSaved(profiles, call)
      BY <3>1, <3>2 DEF DefaultSaved
    <3>4. X \subseteq ProfileRow
      BY <1>1, <1>4, <1>5, <2>4, <2>8, <3>2, DefaultTyped
    <3>5. ProfilesSoFar(later, profiles) = X
      <4>1. Saved(later) = {1} /\ Saved(later) \ {1} = {}
        BY <2>4, <2>8
      <4>2. {call.found[k] : k \in Saved(later) \ {1}} = {}
        BY <4>1
      <4>3. BoundSoFar(later, profiles) = WithOthers(call, {}, X)
        BY <1>1, <3>3, <4>1, <4>2 DEF BoundSoFar
      <4>4. PICK none : none = {}
        OBVIOUS
      <4>5. call.found[1] \notin none
        BY <4>4
      <4> HIDE DEF X, N, call
      <4>6. WithOthers(call, {}, X) = X
        BY <3>4, <4>5, OthersTwice
      <4> USE DEF call
      <4>7. QED
        BY <1>3, <2>1, <4>3, <4>6 DEF ProfilesSoFar
    <3>6. \A q \in seen : HoldsProfile(later, q)
      BY <1>1, <2>3, <2>6, <2>8 DEF SeenDefault, VisibleIn, HoldsProfile, CallSound, Binds
    <3>7. \A d : HoldsProfile(later, NewProfile(call, call.found[1], d))
      BY <2>3, <2>6, <2>8 DEF HoldsProfile, NewProfile
    <3>8. Beyond(later, X, N)
      <4> HIDE DEF seen, N, X
      <4>1. QED
        BY <1>1, <1>4, <3>2, <3>6, <3>7, DefaultBeyond
    <3>9. DefaultFits(profiles, call)
      <4>1. DefaultAccepted(call, N)
        BY <1>2, <1>9, <2>2, <2>8 DEF Accepted
      <4>2. QED
        BY <3>3, <3>2, <4>1, SavedAs DEF DefaultAccepted, DefaultFits
    <3>10. QED
      BY <2>7, <3>5, <3>8, <3>9 DEF Beyond
  <2>9. CASE j # 1
    <3>1. PICK I : I = {call.found[k] : k \in Saved(t) \ {1}}
      OBVIOUS
    <3>2. PICK D : D = DefaultSaved(profiles, call)
      OBVIOUS
    <3>3. 1 \in Saved(t) /\ 1 \in Saved(later)
      BY <2>4, <2>9
    <3>4. N = WithOthers(call, I, D)
      BY <1>4, <2>1, <3>1, <3>2, <3>3 DEF ProfilesSoFar, BoundSoFar
    <3>5. D \subseteq ProfileRow
      <4>1. KeptIn(profiles, call) \subseteq ProfileRow
        BY <1>4 DEF KeptIn
      <4>2. 1 \in DOMAIN call.found
        BY <1>5, <3>3
      <4>3. QED
        BY <1>1, <3>2, <4>1, <4>2, DefaultTyped DEF DefaultSaved
    <3>6. X = WithOthers(call, {i}, N)
      <4>1. X = SaveOthers(JustProfile(t), N)
        BY <1>2, <1>9, <2>2, <2>9 DEF ProfilesNext
      <4>2. Profile(t) \in DOMAIN t.call.found
        BY <1>5, <2>2, <2>4
      <4>3. QED
        BY <1>1, <2>2, <2>3, <4>1, <4>2, SaveOne
    <3>7. i \notin I
      <4>1. Injective(call.found)
        BY <1>1, LifecycleAssumption DEF BindCall
      <4>2. QED
        BY <1>5, <2>3, <2>4, <3>1, <4>1 DEF Injective
    <3>8. X = WithOthers(call, I \cup {i}, D)
      BY <3>4, <3>5, <3>6, <3>7, OthersTwice
    <3>9. {call.found[k] : k \in Saved(later) \ {1}} = I \cup {i}
      <4>1. Saved(later) \ {1} = (Saved(t) \ {1}) \cup {j}
        BY <2>4, <2>9
      <4>2. QED
        BY <2>3, <3>1, <4>1
    <3>10. ProfilesSoFar(later, profiles) = X
      BY <1>1, <1>3, <2>1, <3>2, <3>3, <3>8, <3>9 DEF ProfilesSoFar, BoundSoFar
    <3>11. Beyond(later, X, N)
      <4>1. PICK one : one = {i}
        OBVIOUS
      <4>2. \A k \in one : <<"profile", later.call.binding, k>> \in later.rows
        BY <1>1, <2>6, <4>1
      <4>3. X = WithOthers(later.call, one, N)
        BY <1>1, <3>6, <4>1
      <4> HIDE DEF N, X
      <4>4. QED
        BY <1>4, <4>2, <4>3, OthersBeyond
    <3>12. QED
      BY <1>7, <2>7, <3>3, <3>10, <3>11 DEF Beyond
  <2>10. QED
    BY <2>8, <2>9
<1>10. CASE s \notin {"forget_profiles", "save_profile"}
  <2>1. Saved(later) = Saved(t)
    BY <1>5, <1>10
  <2>2. SavedIdents(later) = SavedIdents(t)
    BY <1>1, <2>1 DEF SavedIdents
  <2>3. Done(later, "forget_profiles") <=> Done(t, "forget_profiles")
    BY <1>2, <1>10
  <2>4. BoundSoFar(later, profiles) = BoundSoFar(t, profiles)
    BY <1>1, <2>1, <2>3 DEF BoundSoFar
  <2>5. CASE s = "prune"
    <3>1. X = Prune(call, N)
      BY <1>2, <2>5 DEF ProfilesNext
    <3>2. \A rows : Prune(call, Prune(call, rows)) = Prune(call, rows)
      BY DEF Prune, DeleteMissing
    <3>3. ProfilesSoFar(later, profiles) = Prune(call, BoundSoFar(t, profiles))
      BY <1>1, <1>2, <1>3, <2>4, <2>5 DEF ProfilesSoFar
    <3>4. X = ProfilesSoFar(later, profiles)
      BY <1>4, <3>1, <3>2, <3>3 DEF ProfilesSoFar
    <3>5. PICK rows : rows = {r \in AllProfiles : r.binding = b}
      OBVIOUS
    <3>6. RowsLocked(t) = ProfileLocks(rows)
      BY <1>2, <2>5, <3>5 DEF RowsLocked
    <3>7. \A p \in rows : HoldsProfile(later, p)
      BY <3>6, ProfileLocked
    <3>8. X \subseteq N /\ \A p \in N : p \notin X => p \in rows
      BY <1>4, <3>1, <3>5 DEF Prune, DeleteMissing
    <3>9. QED
      BY <1>3, <1>7, <2>1, <2>2, <3>4, <3>7, <3>8
  <2>6. CASE s # "prune"
    <3>1. X = N
      BY <1>2, <1>10, <2>6 DEF ProfilesNext
    <3>2. Done(later, "prune") <=> Done(t, "prune")
      BY <1>2, <2>6
    <3>3. ProfilesSoFar(later, profiles) = N
      BY <1>1, <1>3, <1>4, <2>4, <3>2 DEF ProfilesSoFar
    <3>4. QED
      BY <1>3, <1>7, <2>1, <2>2, <3>1, <3>3
  <2>7. QED
    BY <2>5, <2>6
<1>11. QED
  BY <1>8, <1>9, <1>10

\* The rows of a binding, as a statement finds them, are locked once it is
\* done, in whatever form it leaves them.
LEMMA OfBindingLocked ==
    ASSUME NEW t, NEW later, Follows(t, later),
           RowsLocked(t) = ProfileLocks({r \in AllProfiles : r.binding = t.call.binding})
    PROVE  \A p \in AllProfiles : \A q :
             /\ p.binding = t.call.binding
             /\ q.binding = p.binding /\ q.ident = p.ident
             => HoldsProfile(later, q)
<1>1. PICK rows : rows = {r \in AllProfiles : r.binding = t.call.binding}
  OBVIOUS
<1>2. RowsLocked(t) = ProfileLocks(rows)
  BY <1>1
<1>3. \A p \in rows : HoldsProfile(later, p)
  BY <1>2, ProfileLocked
<1>4. QED
  BY <1>1, <1>3 DEF HoldsProfile

\* A statement of a DELETE.
LEMMA DeleteStatementP ==
    ASSUME GInv, NEW t \in txns, ~t.undo, Running(t), t.call.op = "delete",
           NEW later, Follows(t, later)
    PROVE  /\ ProfilesNext(t) = ProfilesSoFar(later, profiles)
           /\ \A p : ~HoldsProfile(later, p) =>
                 (p \in ProfilesNow(t) <=> p \in ProfilesNext(t))
<1> DEFINE N == ProfilesNow(t)
           X == ProfilesNext(t)
           b == t.call.binding
<1>1. Shaped(t) /\ LiveP(t, profiles) /\ later.call = t.call
  BY LiveCalls DEF Live, Follows
<1>2. PICK s : /\ \A v : Doing(t, v) <=> v = s
               /\ \A v : Done(later, v) <=> Done(t, v) \/ v = s
               /\ s \in {"wipe_profiles", "wipe_devices", "wipe_credential"}
  BY <1>1, StatementIs
<1>3. \A v : Done(t, v) => v \in {"wipe_profiles", "wipe_devices", "wipe_credential"}
  BY <1>1, DeleteDone DEF Shaped
<1>4. /\ ~Binds(t) /\ ~Binds(later)
      /\ ~Done(t, "clear") /\ ~Done(t, "choose")
      /\ ~Done(later, "clear") /\ ~Done(later, "choose")
  BY <1>1, <1>2, <1>3 DEF Binds
<1>5. /\ N = ProfilesSoFar(t, profiles) /\ N \subseteq AllProfiles
  BY ProfilesBefore
<1>6. N = IF Done(t, "wipe_profiles") THEN {p \in profiles : p.binding # b}
          ELSE profiles
  BY <1>4, <1>5 DEF ProfilesSoFar
<1>7. CASE s = "wipe_profiles"
  <2>1. X = {p \in N : p.binding # b}
    BY <1>2, <1>7 DEF ProfilesNext
  <2>2. ProfilesSoFar(later, profiles) = {p \in profiles : p.binding # b}
    BY <1>1, <1>2, <1>4, <1>7 DEF ProfilesSoFar
  <2>3. X = ProfilesSoFar(later, profiles)
    BY <1>6, <2>1, <2>2
  <2>4. RowsLocked(t) = ProfileLocks({r \in AllProfiles : r.binding = b})
    BY <1>2, <1>7 DEF RowsLocked
  <2>5. \A p \in N : p.binding = b => HoldsProfile(later, p)
    BY <1>5, <2>4, OfBindingLocked
  <2>6. QED
    BY <2>1, <2>3, <2>5
<1>8. CASE s # "wipe_profiles"
  <2>1. X = N
    BY <1>2, <1>8 DEF ProfilesNext
  <2>2. ProfilesSoFar(later, profiles) = N
    BY <1>1, <1>2, <1>4, <1>6, <1>8 DEF ProfilesSoFar
  <2>3. QED
    BY <2>1, <2>2
<1>9. QED
  BY <1>7, <1>8

\* A statement of a CONFIRM.
LEMMA ConfirmStatementP ==
    ASSUME GInv, NEW t \in txns, ~t.undo, Running(t), t.call.op = "confirm",
           Accepted(t), NEW later, Follows(t, later)
    PROVE  /\ ProfilesNext(t) = ProfilesSoFar(later, profiles)
           /\ \A p : ~HoldsProfile(later, p) =>
                 (p \in ProfilesNow(t) <=> p \in ProfilesNext(t))
           /\ Done(later, "choose") =>
                /\ \E p \in profiles : Chosen(t.call, p)
                /\ UniqueProfiles(WithChosen(profiles, t.call))
<1> DEFINE N == ProfilesNow(t)
           X == ProfilesNext(t)
           b == t.call.binding
           call == t.call
<1>1. /\ Shaped(t) /\ LiveP(t, profiles) /\ later.call = t.call
      /\ t.at \in Nat \ {0}
  BY LiveCalls DEF Live, Follows, Shaped
<1>2. PICK s : /\ \A v : Doing(t, v) <=> v = s
               /\ \A v : Done(later, v) <=> Done(t, v) \/ v = s
               /\ s \in {"clear", "choose"}
  BY <1>1, StatementIs
<1>3. /\ \A v : Doing(t, v) \/ Done(t, v) => v \in {"clear", "choose"}
      /\ Doing(t, "choose") => Done(t, "clear") /\ ~Done(t, "choose")
      /\ Doing(t, "clear") => ~Done(t, "choose") /\ ~Done(t, "clear")
  BY <1>1, ConfirmDone
<1>4. /\ ~Binds(t) /\ ~Binds(later)
      /\ ~Done(t, "wipe_profiles") /\ ~Done(later, "wipe_profiles")
  BY <1>1, <1>2, <1>3 DEF Binds
<1>5. /\ N = ProfilesSoFar(t, profiles) /\ N \subseteq AllProfiles
      /\ N \subseteq ProfileRow /\ profiles \subseteq ProfileRow
  BY ProfilesBefore
<1>6. RowsLocked(t) = ProfileLocks({r \in AllProfiles : r.binding = b})
  BY <1>2 DEF RowsLocked
<1>7. \A p \in N : \A q : /\ p.binding = b
                           /\ q.binding = p.binding /\ q.ident = p.ident
                           => HoldsProfile(later, q)
  BY <1>5, <1>6, OfBindingLocked
<1>8. CASE s = "clear"
  <2>1. N = profiles
    BY <1>2, <1>3, <1>4, <1>5, <1>8 DEF ProfilesSoFar
  <2> DEFINE f(p) == IF p.binding = b THEN [p EXCEPT !.default = FALSE] ELSE p
  <2>2. X = {f(p) : p \in N}
    BY <1>2, <1>8 DEF ProfilesNext, Cleared
  <2>3. ProfilesSoFar(later, profiles) = {f(p) : p \in profiles}
    BY <1>1, <1>2, <1>3, <1>4, <1>8 DEF ProfilesSoFar, WithoutDefault
  <2>4. \A p \in N : /\ f(p).binding = p.binding /\ f(p).ident = p.ident
                     /\ p.binding # b => f(p) = p
    BY <1>5, InSlot
  <2> HIDE DEF f, N, X
  <2>5. \A p \in N : p \notin X => HoldsProfile(later, p)
    BY <1>7, <2>2, <2>4
  <2>6. \A p \in X : p \notin N => HoldsProfile(later, p)
    <3> SUFFICES ASSUME NEW p \in X, p \notin N PROVE HoldsProfile(later, p)
      OBVIOUS
    <3>1. PICK q \in N : p = f(q)
      BY <2>2
    <3>2. q.binding = b
      BY <2>4, <3>1
    <3>3. p.binding = q.binding /\ p.ident = q.ident
      BY <2>4, <3>1
    <3>4. QED
      BY <1>7, <3>2, <3>3
  <2>7. ~Done(later, "choose")
    BY <1>2, <1>3, <1>8
  <2>8. QED
    BY <2>1, <2>2, <2>3, <2>5, <2>6, <2>7 DEF N, X
<1>9. CASE s = "choose"
  <2>1. N = WithoutDefault(profiles, call)
    BY <1>2, <1>3, <1>4, <1>5, <1>9 DEF ProfilesSoFar
  <2> DEFINE f(p) == IF Chosen(call, p) THEN [p EXCEPT !.default = TRUE] ELSE p
  <2>2. X = {f(p) : p \in N} /\ X = Picked(t)
    BY <1>2, <1>9 DEF ProfilesNext, Picked
  <2>3. /\ X = WithChosen(profiles, call)
        /\ (\E p \in N : Chosen(call, p)) => \E p \in profiles : Chosen(call, p)
    BY <1>5, <2>1, <2>2, ChosenTwice
  <2>4. ProfilesSoFar(later, profiles) = WithChosen(profiles, call)
    BY <1>1, <1>2, <1>3, <1>4, <1>9 DEF ProfilesSoFar
  <2>5. \A p \in N : /\ f(p).binding = p.binding /\ f(p).ident = p.ident
                     /\ p.binding # b => f(p) = p
    BY <1>5, InSlot DEF Chosen
  <2>6. (\E p \in N : Chosen(call, p)) /\ UniqueProfiles(X)
    BY <1>2, <1>9, <2>2 DEF Accepted
  <2> HIDE DEF f, N, X
  <2>7. \A p \in N : p \notin X => HoldsProfile(later, p)
    BY <1>7, <2>2, <2>5
  <2>8. \A p \in X : p \notin N => HoldsProfile(later, p)
    <3> SUFFICES ASSUME NEW p \in X, p \notin N PROVE HoldsProfile(later, p)
      OBVIOUS
    <3>1. PICK q \in N : p = f(q)
      BY <2>2
    <3>2. q.binding = b
      BY <2>5, <3>1
    <3>3. p.binding = q.binding /\ p.ident = q.ident
      BY <2>5, <3>1
    <3>4. QED
      BY <1>7, <3>2, <3>3
  <2>9. QED
    BY <2>3, <2>4, <2>6, <2>7, <2>8 DEF N, X
<1>10. QED
  BY <1>2, <1>8, <1>9

\* A statement, and the profiles.
LEMMA StatementP ==
    ASSUME GInv, NEW t \in txns, ~t.undo, Running(t), Accepted(t),
           NEW later, Follows(t, later)
    PROVE  LiveP(later, profiles)
<1> DEFINE N == ProfilesNow(t)
           X == ProfilesNext(t)
<1>1. Shaped(t) /\ LiveP(t, profiles) /\ later.call = t.call
  BY LiveCalls DEF Live, Follows
<1>2. \A p : HoldsProfile(t, p) => HoldsProfile(later, p)
  BY <1>1, DoneFollows
<1>3. N = Seen(profiles, t.profiles)
  BY ProfilesBefore
<1>4. later.profiles = Written(t.profiles, N, X)
  BY DEF Follows, WorkOf
<1>5. /\ Seen(profiles, later.profiles) = X
      /\ \A p \in Touched(later.profiles) :
            p \in Touched(t.profiles) \/ p \in (N \ X) \cup (X \ N)
  <2> HIDE DEF N, X
  <2>1. QED
    BY <1>3, <1>4, WrittenFollows
<1>6. \A p \in profiles : ProfileScanned(later, p) => HoldsProfile(later, p)
  BY ProfilesScanned
<1>7. Binds(later) <=> Binds(t)
  BY <1>1, DoneFollows
<1>8. /\ X = ProfilesSoFar(later, profiles)
      /\ \A p : ~HoldsProfile(later, p) => (p \in N <=> p \in X)
      /\ Binds(later) =>
           /\ \A i \in SavedIdents(later) :
                <<"profile", later.call.binding, i>> \in later.rows
           /\ 1 \in Saved(later) => DefaultFits(profiles, later.call)
      /\ Done(later, "choose") =>
           /\ \E p \in profiles : Chosen(later.call, p)
           /\ UniqueProfiles(WithChosen(profiles, later.call))
  <2>1. CASE Binds(t)
    <3>1. ~Done(later, "choose")
      <4>1. t.call \in BindCall /\ t.at \in Nat \ {0}
        BY <1>1, <2>1, CallKinds DEF Shaped, Binds
      <4>2. ~Done(t, "choose") /\ ~Doing(t, "choose")
        BY <4>1, BindDone
      <4>3. QED
        BY <1>1, <4>2, DoneFollows
    <3>2. QED
      BY <1>1, <2>1, <3>1, BindStatementP
  <2>2. CASE t.call.op = "delete"
    <3>1. ~Binds(later)
      BY <1>7, <2>2 DEF Binds
    <3>2. ~Done(later, "choose")
      <4>1. \A v : Doing(t, v) \/ Done(t, v) =>
               v \in {"wipe_profiles", "wipe_devices", "wipe_credential"}
        BY <1>1, <2>2, DeleteDone DEF Shaped
      <4>2. QED
        BY <1>1, <4>1, DoneFollows
    <3>3. QED
      BY <2>2, <3>1, <3>2, DeleteStatementP
  <2>3. CASE t.call.op = "confirm"
    <3>1. ~Binds(later)
      BY <1>7, <2>3 DEF Binds
    <3>2. QED
      BY <1>1, <2>3, <3>1, ConfirmStatementP
  <2>4. QED
    BY <1>1, <2>1, <2>2, <2>3 DEF Shaped, Binds
<1>9. \A p \in Touched(later.profiles) : HoldsProfile(later, p)
  BY <1>1, <1>2, <1>5, <1>8 DEF LiveP
<1>10. QED
  BY <1>5, <1>6, <1>8, <1>9 DEF LiveP

-----------------------------------------------------------------------------
(* The gaps.                                                               *)

\* Whatever rows there are, a scan locks the gap around the value it seeks.
LEMMA NearItself ==
    ASSUME NEW S, NEW rank \in [S -> Nat], NEW present, present \subseteq S,
           NEW v \in S
    PROVE  v \in Near(rank, present, v)
<1>1. \A x \in present : rank[x] \in Nat
  OBVIOUS
<1>2. rank[v] \in Nat /\ v \in DOMAIN rank
  OBVIOUS
<1>3. QED
  BY <1>1, <1>2 DEF Near

\* So the gap around a key it seeks,
LEMMA KeyGapLocked ==
    ASSUME NEW rows, \A r \in rows : r.key \in Keys, NEW ks, NEW k \in ks,
           k \in Keys, NEW table
    PROVE  <<table, "key", k>> \in KeyGaps(table, rows, ks)
<1>1. {r.key : r \in rows} \subseteq Keys
  OBVIOUS
<1>2. k \in Near(KeyRank, {r.key : r \in rows}, k)
  BY <1>1, NearItself, OrderAssumption
<1>3. k \in UNION {Near(KeyRank, {r.key : r \in rows}, v) : v \in ks}
  BY <1>2
<1>4. QED
  BY <1>3 DEF KeyGaps

\* and around a binding.
LEMMA BindingGapLocked ==
    ASSUME NEW rows, \A r \in rows : r.binding \in Bindings,
           NEW b \in Bindings, NEW table
    PROVE  <<table, "binding", b>> \in BindingGaps(table, rows, b)
<1>1. {r.binding : r \in rows} \subseteq Bindings
  OBVIOUS
<1>2. b \in Near(BindingRank, {r.binding : r \in rows}, b)
  BY <1>1, NearItself, OrderAssumption
<1>3. QED
  BY <1>2 DEF BindingGaps

\* The rows that are in the tables, seen or not yet.
LEMMA AllTyped ==
    ASSUME GInv
    PROVE  /\ AllCredentials \subseteq CredentialRow
           /\ AllDevices \subseteq DeviceRow
           /\ AllProfiles \subseteq ProfileRow
<1>1. \A t \in txns : /\ t.credentials.add \subseteq CredentialRow
                      /\ t.devices.add \subseteq DeviceRow
                      /\ t.profiles.add \subseteq ProfileRow
  BY DEF GInv, WriteInv, Shaped
<1>2. /\ credentials \subseteq CredentialRow
      /\ devices \subseteq DeviceRow
      /\ profiles \subseteq ProfileRow
  BY DEF GInv, IInv, TypeOK
<1>3. AllCredentials \subseteq CredentialRow
  BY <1>1, <1>2 DEF AllCredentials, Physical
<1>4. AllDevices \subseteq DeviceRow
  BY <1>1, <1>2 DEF AllDevices, Physical
<1>5. AllProfiles \subseteq ProfileRow
  BY <1>1, <1>2 DEF AllProfiles, Physical
<1>6. QED
  BY <1>3, <1>4, <1>5

\* The keys a call seeks.
LEMMA KeysSought ==
    ASSUME NEW call \in Calls
    PROVE  /\ call.binding \in Bindings
           /\ call.op \in {"bind", "update"} =>
                Replaced(call) \subseteq Keys /\ Gone(call) \subseteq Keys
<1>1. call.binding \in Bindings
  BY DEF Calls, BindCall, RevalidateCall, DeleteCall, DeviceCall, ConfirmCall,
         CredentialRow
<1>2. ASSUME call.op \in {"bind", "update"}
      PROVE  Replaced(call) \subseteq Keys /\ Gone(call) \subseteq Keys
  <2>1. call \in BindCall
    BY <1>2, CallKinds
  <2>2. CallKey(call) \in Keys
    BY <2>1, LifecycleAssumption DEF CallKey, BoundKey, BindCall, Keys, Kinds
  <2>3. \A c \in call.creds : c.key \in Keys
    BY <2>1 DEF BindCall, CredentialRow
  <2>4. QED
    BY <2>2, <2>3 DEF Replaced, Gone
<1>3. QED
  BY <1>1, <1>2

\* A statement, and the gaps.
LEMMA StatementGaps ==
    ASSUME GInv, NEW t \in txns, ~t.undo, Running(t),
           NEW later, Follows(t, later)
    PROVE  GapsHeld(later)
<1> DEFINE call == t.call
           b == t.call.binding
<1>1. /\ Shaped(t) /\ GapsHeld(t) /\ later.call = t.call
      /\ t.rows \subseteq later.rows /\ t.gaps \subseteq later.gaps
      /\ RowsLocked(t) \subseteq later.rows
      /\ GapsLocked(t) \subseteq later.gaps
  BY LiveCalls DEF Live, Follows
<1>2. PICK s : /\ \A v : Doing(t, v) <=> v = s
               /\ \A v : Done(later, v) <=> Done(t, v) \/ v = s
               /\ Binds(t) =>
                    s \in {"save_credential", "save_device",
                           "forget_profiles", "save_profile",
                           "forget_devices", "forget_credential", "prune"}
               /\ t.call.op = "delete" =>
                    s \in {"wipe_profiles", "wipe_devices",
                           "wipe_credential"}
               /\ t.call.op = "confirm" => s \in {"clear", "choose"}
  BY <1>1, StatementIs
<1>3. /\ b \in Bindings
      /\ Binds(t) => Replaced(call) \subseteq Keys /\ Gone(call) \subseteq Keys
  BY <1>1, KeysSought DEF Shaped, Binds
<1>4. /\ \A r \in AllCredentials : r.binding \in Bindings /\ r.key \in Keys
      /\ \A r \in AllDevices : r.binding \in Bindings /\ r.key \in Keys
      /\ \A r \in AllProfiles : r.binding \in Bindings /\ r.key \in Keys
  BY AllTyped DEF CredentialRow, DeviceRow, ProfileRow
<1>5. s \in {"forget_profiles", "forget_devices"} => Binds(t)
  BY <1>1, <1>2 DEF Shaped, Binds
<1>6. ASSUME s = "wipe_credential"
      PROVE  \/ <<"binding", b>> \in later.rows
             \/ <<"credentials", "binding", b>> \in later.gaps
  <2>1. CASE \A c \in AllCredentials : c.binding # b
    <3>1. GapsLocked(t) = BindingGaps("credentials", AllCredentials, b)
      BY <1>2, <1>6, <2>1 DEF GapsLocked
    <3>2. QED
      BY <1>1, <1>3, <1>4, <3>1, BindingGapLocked
  <2>2. CASE \E c \in AllCredentials : c.binding = b
    <3>1. RowsLocked(t) = CredentialLocks({r \in AllCredentials : r.binding = b})
      BY <1>2, <1>6 DEF RowsLocked
    <3>2. <<"binding", b>> \in RowsLocked(t)
      BY <2>2, <3>1 DEF CredentialLocks
    <3>3. QED
      BY <1>1, <3>2
  <2>3. QED
    BY <2>1, <2>2
<1>7. ASSUME s = "wipe_devices"
      PROVE  <<"devices", "binding", b>> \in later.gaps
  <2>1. GapsLocked(t) = BindingGaps("devices", AllDevices, b)
    BY <1>2, <1>7 DEF GapsLocked
  <2>2. QED
    BY <1>1, <1>3, <1>4, <2>1, BindingGapLocked
<1>8. ASSUME s = "forget_devices", NEW k \in Replaced(call)
      PROVE  <<"devices", "key", k>> \in later.gaps
  <2>1. GapsLocked(t) = KeyGaps("devices", AllDevices, Replaced(call))
    BY <1>2, <1>8 DEF GapsLocked
  <2>2. k \in Keys
    BY <1>3, <1>5, <1>8
  <2>3. QED
    BY <1>1, <1>4, <1>8, <2>1, <2>2, KeyGapLocked
<1>9. ASSUME s = "forget_profiles", NEW k \in Gone(call)
      PROVE  <<"profiles", "key", k>> \in later.gaps
  <2>1. GapsLocked(t) = KeyGaps("profiles", AllProfiles, Gone(call))
    BY <1>2, <1>9 DEF GapsLocked
  <2>2. k \in Keys
    BY <1>3, <1>5, <1>9
  <2>3. QED
    BY <1>1, <1>4, <1>9, <2>1, <2>2, KeyGapLocked
<1>10. ASSUME s \in {"prune", "wipe_profiles", "clear"}
       PROVE  <<"profiles", "binding", b>> \in later.gaps
  <2>1. GapsLocked(t) = BindingGaps("profiles", AllProfiles, b)
    BY <1>2, <1>10 DEF GapsLocked
  <2>2. QED
    BY <1>1, <1>3, <1>4, <2>1, BindingGapLocked
<1>11. ScansBinding(later) =>
         ScansBinding(t) \/ s \in {"prune", "wipe_profiles", "clear"}
  BY <1>2 DEF ScansBinding
<1>12. /\ Done(later, "wipe_credential") =>
            \/ <<"binding", b>> \in later.rows
            \/ <<"credentials", "binding", b>> \in later.gaps
       /\ Done(later, "wipe_devices") =>
            <<"devices", "binding", b>> \in later.gaps
  BY <1>1, <1>2, <1>6, <1>7 DEF GapsHeld
<1>13. Done(later, "forget_devices") =>
         \A k \in Replaced(call) : <<"devices", "key", k>> \in later.gaps
  BY <1>1, <1>2, <1>8 DEF GapsHeld
<1>14. Done(later, "forget_profiles") =>
         \A k \in Gone(call) : <<"profiles", "key", k>> \in later.gaps
  BY <1>1, <1>2, <1>9 DEF GapsHeld
<1>15. ScansBinding(later) => <<"profiles", "binding", b>> \in later.gaps
  BY <1>1, <1>10, <1>11 DEF GapsHeld
<1>16. QED
  BY <1>1, <1>12, <1>13, <1>14, <1>15 DEF GapsHeld

-----------------------------------------------------------------------------
(* The rows a statement adds are of the binding of its call.               *)

Own(call, r) == r.binding = call.binding /\ InScope(r.key, r.binding)

\* A call's key is of its binding.
LEMMA CallKeyOwn ==
    ASSUME NEW call \in BindCall
    PROVE  CallKey(call) \in Keys /\ CallKey(call).binding = call.binding
  BY LifecycleAssumption, BoundRowIs DEF CallKey, BoundKey, BindCall, Keys, Kinds

\* saveDefaultProfile adds rows of its binding only;
LEMMA DefaultOwn ==
    ASSUME NEW call \in BindCall, NEW R, R \subseteq ProfileRow, NEW seen,
           1 \in DOMAIN call.found, \A q \in seen : q.binding = call.binding
    PROVE  \A p \in WithDefault(call, seen, R) :
              p \in R \/ (p \in ProfileRow /\ Own(call, p))
<1>1. WithDefault(call, seen, R) \subseteq ProfileRow
  BY DefaultTyped
<1>2. Own(call, NewProfile(call, call.found[1], TRUE))
  BY CallKeyOwn DEF Own, NewProfile, InScope
<1>3. ASSUME NEW p \in R, NEW q \in seen, SameRow(p, q)
      PROVE  Own(call, [p EXCEPT !.key = CallKey(call), !.default = TRUE])
  <2>1. p.binding = call.binding /\ p \in ProfileRow
    BY <1>3 DEF SameRow
  <2>2. [p EXCEPT !.key = CallKey(call), !.default = TRUE].binding = call.binding
    BY <2>1, InSlot
  <2>3. [p EXCEPT !.key = CallKey(call), !.default = TRUE].key = CallKey(call)
    BY <2>1 DEF ProfileRow
  <2>4. QED
    BY <2>2, <2>3, CallKeyOwn DEF Own, InScope
<1>4. CASE seen = {}
  BY <1>1, <1>2, <1>4 DEF WithDefault
<1>5. CASE seen # {}
  BY <1>1, <1>3, <1>5 DEF WithDefault
<1>6. QED
  BY <1>4, <1>5

\* so do the upserts of the others.
LEMMA OthersOwn ==
    ASSUME NEW call \in BindCall, NEW R, R \subseteq ProfileRow,
           NEW idents, idents \subseteq Idents
    PROVE  \A p \in WithOthers(call, idents, R) :
              p \in R \/ (p \in ProfileRow /\ Own(call, p))
<1>1. \A i \in idents : /\ NewProfile(call, i, FALSE) \in ProfileRow
                        /\ Own(call, NewProfile(call, i, FALSE))
  <2>1. call.binding \in Bindings /\ call.id \in Requests
    BY DEF BindCall
  <2>2. QED
    BY <2>1, CallKeyOwn DEF Own, NewProfile, InScope, ProfileRow
<1>2. ASSUME NEW p \in R, p.binding = call.binding
      PROVE  /\ [p EXCEPT !.key = CallKey(call), !.default = FALSE] \in ProfileRow
             /\ Own(call, [p EXCEPT !.key = CallKey(call), !.default = FALSE])
  <2>1. p \in ProfileRow
    OBVIOUS
  <2>2. [p EXCEPT !.key = CallKey(call), !.default = FALSE].binding = call.binding
    BY <1>2, <2>1, InSlot
  <2>3. [p EXCEPT !.key = CallKey(call), !.default = FALSE].key = CallKey(call)
    BY <2>1 DEF ProfileRow
  <2>4. [p EXCEPT !.key = CallKey(call), !.default = FALSE] \in ProfileRow
    BY <2>1, CallKeyOwn DEF ProfileRow
  <2>5. QED
    BY <2>2, <2>3, <2>4, CallKeyOwn DEF Own, InScope
<1>3. QED
  BY <1>1, <1>2 DEF WithOthers

\* An UPDATE of is_default.
LEMMA DefaultKept ==
    ASSUME NEW call, NEW p \in ProfileRow, NEW d \in BOOLEAN,
           p.binding = call.binding, InScope(p.key, p.binding)
    PROVE  /\ [p EXCEPT !.default = d] \in ProfileRow
           /\ Own(call, [p EXCEPT !.default = d])
<1>1. [p EXCEPT !.default = d].binding = p.binding /\ [p EXCEPT !.default = d].key = p.key
  BY InSlot
<1>2. QED
  BY <1>1 DEF ProfileRow, Own

\* What the transaction sees is in scope.
LEMMA NowInScope ==
    ASSUME GInv, NEW t \in txns, ~t.undo
    PROVE  \A r \in DevicesNow(t) \cup ProfilesNow(t) : InScope(r.key, r.binding)
<1>1. AddsOwn(t)
  BY LiveCalls DEF Live
<1>2. \A r \in devices \cup profiles : InScope(r.key, r.binding)
  BY SoundTables DEF GInv
<1>3. QED
  BY <1>1, <1>2 DEF DevicesNow, ProfilesNow, Seen, AddsOwn

\* A statement's new credentials and devices,
LEMMA StatementOwnCD ==
    ASSUME GInv, NEW t \in txns, ~t.undo, Running(t)
    PROVE  /\ \A c \in CredentialsNext(t) :
                 c \in CredentialsNow(t) \/ (c \in CredentialRow /\ Own(t.call, c))
           /\ \A d \in DevicesNext(t) :
                 d \in DevicesNow(t) \/ (d \in DeviceRow /\ Own(t.call, d))
<1> DEFINE call == t.call
<1>1. Shaped(t) /\ LiveC(t, credentials) /\ LiveD(t, devices)
  BY LiveCalls DEF Live
<1>2. PICK s : /\ \A v : Doing(t, v) <=> v = s
               /\ Binds(t) =>
                    s \in {"save_credential", "save_device",
                           "forget_profiles", "save_profile",
                           "forget_devices", "forget_credential", "prune"}
               /\ t.call.op = "delete" =>
                    s \in {"wipe_profiles", "wipe_devices",
                           "wipe_credential"}
               /\ t.call.op = "confirm" => s \in {"clear", "choose"}
  BY <1>1, DoingOne
<1>3. s \in {"save_credential", "save_device"} => call \in BindCall
  BY <1>1, <1>2, CallKinds DEF Shaped, Binds
<1>4. s # "undo_credential" /\ s # "undo_devices"
  BY <1>1, <1>2 DEF Shaped, Binds
<1>5. ASSUME s = "save_credential", NEW c \in CredentialsNext(t), c \notin CredentialsNow(t)
      PROVE  c \in CredentialRow /\ Own(call, c)
  <2>1. call \in BindCall /\ t.at \in Nat \ {0}
    BY <1>1, <1>3, <1>5 DEF Shaped
  <2>2. CredentialsNow(t) = credentials
    <3>1. t.at = 1
      BY <1>2, <1>5, <2>1, BindDone
    <3>2. ~Done(t, "save_credential") /\ ~Done(t, "wipe_credential")
      BY <1>1, <3>1, NothingDone DEF Shaped
    <3>3. QED
      BY <1>1, <3>2 DEF LiveC, CredentialsSoFar, CredentialsNow
  <2>3. CredentialsNext(t) = SaveCredential(BoundRow(call))
    BY <1>2, <1>5 DEF CredentialsNext
  <2>4. c = BoundRow(call)
    BY <1>5, <2>2, <2>3 DEF SaveCredential
  <2>5. call.binding \in Bindings /\ call.cookie \in Cookies
    BY <2>1 DEF BindCall
  <2>6. BoundRow(call) \in CredentialRow
    BY <2>1, <2>5, CallKeyOwn, LifecycleAssumption
    DEF BoundRow, CredentialRow, Statuses
  <2>7. QED
    BY <2>1, <2>4, <2>6, BoundRowIs DEF Own, InScope
<1>6. ASSUME s = "save_device", NEW d \in DevicesNext(t), d \notin DevicesNow(t)
      PROVE  d \in DeviceRow /\ Own(call, d)
  <2>1. call \in BindCall /\ t.at \in Nat \ {0}
    BY <1>1, <1>3, <1>6 DEF Shaped
  <2>2. DevicesNow(t) = devices
    <3>1. ~Done(t, "save_device") /\ ~Done(t, "wipe_devices")
      <4>1. PICK n \in Nat : /\ Doing(t, "save_device") <=> t.at = 2
                             /\ Done(t, "save_device") <=> t.at > 2
                             /\ ~Done(t, "wipe_devices")
        BY <1>1, <2>1, BindDone
      <4>2. QED
        BY <1>2, <1>6, <4>1
    <3>2. QED
      BY <1>1, <3>1 DEF LiveD, DevicesSoFar, DevicesNow
  <2>3. DevicesNext(t) = SaveDevice(BoundDevice(call))
    BY <1>2, <1>6 DEF DevicesNext
  <2>4. d = BoundDevice(call)
    BY <1>6, <2>2, <2>3 DEF SaveDevice
  <2>5. BoundDevice(call) \in DeviceRow
    BY <2>1, CallKeyOwn DEF BoundDevice, DeviceRow, BindCall
  <2>6. QED
    BY <2>1, <2>4, <2>5, CallKeyOwn, BoundRowIs DEF Own, InScope
<1>7. s # "save_credential" => CredentialsNext(t) \subseteq CredentialsNow(t)
  BY <1>2, <1>4 DEF CredentialsNext
<1>8. s # "save_device" => DevicesNext(t) \subseteq DevicesNow(t)
  BY <1>2, <1>4 DEF DevicesNext
<1>9. QED
  BY <1>5, <1>6, <1>7, <1>8

\* and its new profiles.
LEMMA StatementOwnP ==
    ASSUME GInv, NEW t \in txns, ~t.undo, Running(t)
    PROVE  \A p \in ProfilesNext(t) :
              p \in ProfilesNow(t) \/ (p \in ProfileRow /\ Own(t.call, p))
<1> DEFINE N == ProfilesNow(t)
           X == ProfilesNext(t)
           call == t.call
<1>1. Shaped(t) /\ CallSound(call)
  BY LiveCalls
<1>2. PICK s : /\ \A v : Doing(t, v) <=> v = s
               /\ Binds(t) =>
                    s \in {"save_credential", "save_device",
                           "forget_profiles", "save_profile",
                           "forget_devices", "forget_credential", "prune"}
               /\ t.call.op = "delete" =>
                    s \in {"wipe_profiles", "wipe_devices",
                           "wipe_credential"}
               /\ t.call.op = "confirm" => s \in {"clear", "choose"}
  BY <1>1, DoingOne
<1>3. N \subseteq ProfileRow /\ \A p \in N : InScope(p.key, p.binding)
  BY ProfilesBefore, NowInScope
<1>4. s # "undo_profiles"
  BY <1>1, <1>2 DEF Shaped, Binds
<1>5. CASE s = "save_profile"
  <2>1. Binds(t)
    BY <1>1, <1>2, <1>5 DEF Shaped, Binds
  <2>2. call \in BindCall /\ t.at \in Nat \ {0}
    BY <1>1, <2>1, CallKinds DEF Shaped, Binds
  <2>3. PICK n : n = Len(call.found)
    OBVIOUS
  <2>4. /\ n \in Nat /\ DOMAIN call.found = 1..n
        /\ t.at > 3 /\ t.at <= n + 3
    BY <1>2, <1>5, <2>2, <2>3, BindDone
  <2>5. Profile(t) \in DOMAIN call.found /\ 1 \in DOMAIN call.found
    BY <2>2, <2>4 DEF Profile
  <2>6. \A i \in DOMAIN call.found : call.found[i] \in Idents
    BY <2>2, LifecycleAssumption DEF BindCall
  <2>7. CASE Profile(t) = 1
    <3> DEFINE seen == SeenDefault(profiles, call)
    <3>1. X = WithDefault(call, seen, N)
      BY <1>2, <1>5, <2>7, SavedAs DEF ProfilesNext
    <3>2. \A q \in seen : q.binding = call.binding
      BY <1>1, <2>1 DEF SeenDefault, VisibleIn, CallSound, Binds
    <3> HIDE DEF N, X, seen
    <3>3. \A p \in X : p \in N \/ (p \in ProfileRow /\ Own(call, p))
      BY <1>3, <2>2, <2>5, <3>1, <3>2, DefaultOwn
    <3>4. QED
      BY <3>3 DEF N, X
  <2>8. CASE Profile(t) # 1
    <3>1. PICK one : one = {call.found[Profile(t)]}
      OBVIOUS
    <3>2. X = SaveOthers(JustProfile(t), N)
      BY <1>2, <1>5, <2>8 DEF ProfilesNext
    <3>3. X = WithOthers(call, one, N)
      BY <2>2, <2>5, <3>1, <3>2, SaveOne
    <3>4. one \subseteq Idents
      BY <2>5, <2>6, <3>1
    <3> HIDE DEF N, X
    <3>5. \A p \in X : p \in N \/ (p \in ProfileRow /\ Own(call, p))
      BY <1>3, <2>2, <3>3, <3>4, OthersOwn
    <3>6. QED
      BY <3>5 DEF N, X
  <2>9. QED
    BY <2>7, <2>8
<1>6. CASE s = "clear"
  <2>1. X = Cleared(t)
    BY <1>2, <1>6 DEF ProfilesNext
  <2>2. \A p \in N : p.binding = call.binding =>
           /\ [p EXCEPT !.default = FALSE] \in ProfileRow
           /\ Own(call, [p EXCEPT !.default = FALSE])
    BY <1>3, DefaultKept
  <2>3. QED
    BY <2>1, <2>2 DEF Cleared
<1>7. CASE s = "choose"
  <2>1. X = Picked(t)
    BY <1>2, <1>7 DEF ProfilesNext
  <2>2. \A p \in N : p.binding = call.binding =>
           /\ [p EXCEPT !.default = TRUE] \in ProfileRow
           /\ Own(call, [p EXCEPT !.default = TRUE])
    BY <1>3, DefaultKept
  <2>3. QED
    BY <2>1, <2>2 DEF Picked, Chosen
<1>8. CASE s \notin {"save_profile", "clear", "choose"}
  BY <1>2, <1>4, <1>8 DEF ProfilesNext, Prune, DeleteMissing
<1>9. QED
  BY <1>5, <1>6, <1>7, <1>8

-----------------------------------------------------------------------------
(* A statement, and the transactions beside it.                            *)

\* What a statement scans, whoever may see it, is locked once it is done.
LEMMA NewlyScanned ==
    ASSUME GInv, NEW t \in txns, ~t.undo, Running(t),
           NEW later, Follows(t, later)
    PROVE  /\ \A c \in AllCredentials : CredentialScanned(later, c) =>
                 CredentialScanned(t, c) \/ HoldsAll(later, c)
           /\ \A d \in AllDevices : DeviceScanned(later, d) =>
                 DeviceScanned(t, d) \/ HoldsDevice(later, d)
           /\ \A p \in AllProfiles : ProfileScanned(later, p) =>
                 ProfileScanned(t, p) \/ HoldsProfile(later, p)
<1> DEFINE b == t.call.binding
<1>1. Shaped(t) /\ later.call = t.call
  BY LiveCalls DEF Follows
<1>2. PICK s : /\ \A v : Doing(t, v) <=> v = s
               /\ \A v : Done(later, v) <=> Done(t, v) \/ v = s
  BY <1>1, StatementIs
<1>3. ASSUME NEW c \in AllCredentials, CredentialScanned(later, c),
             ~CredentialScanned(t, c)
      PROVE  HoldsAll(later, c)
  <2>1. s = "wipe_credential" /\ c.binding = b
    BY <1>1, <1>2, <1>3 DEF CredentialScanned
  <2>2. PICK rows : rows = {r \in AllCredentials : r.binding = b}
    OBVIOUS
  <2>3. RowsLocked(t) = CredentialLocks(rows)
    BY <1>2, <2>1, <2>2 DEF RowsLocked
  <2>4. QED
    BY <2>1, <2>2, <2>3, CredentialLocked
<1>4. ASSUME NEW d \in AllDevices, DeviceScanned(later, d), ~DeviceScanned(t, d)
      PROVE  HoldsDevice(later, d)
  <2>1. \/ s = "forget_devices" /\ d.key \in Replaced(t.call)
        \/ s = "wipe_devices" /\ d.binding = b
    BY <1>1, <1>2, <1>4 DEF DeviceScanned
  <2>2. CASE s = "forget_devices"
    <3>1. PICK rows : rows = {r \in AllDevices : r.key \in Replaced(t.call)}
      OBVIOUS
    <3>2. RowsLocked(t) = DeviceLocks(rows)
      BY <1>2, <2>2, <3>1 DEF RowsLocked
    <3>3. d \in rows
      BY <2>1, <2>2, <3>1
    <3>4. QED
      BY <3>2, <3>3, DeviceLocked
  <2>3. CASE s = "wipe_devices"
    <3>1. PICK rows : rows = {r \in AllDevices : r.binding = b}
      OBVIOUS
    <3>2. RowsLocked(t) = DeviceLocks(rows)
      BY <1>2, <2>3, <3>1 DEF RowsLocked
    <3>3. d \in rows
      BY <2>1, <2>3, <3>1
    <3>4. QED
      BY <3>2, <3>3, DeviceLocked
  <2>4. QED
    BY <2>1, <2>2, <2>3
<1>5. ASSUME NEW p \in AllProfiles, ProfileScanned(later, p), ~ProfileScanned(t, p)
      PROVE  HoldsProfile(later, p)
  <2>1. \/ s = "forget_profiles" /\ p.key \in Gone(t.call)
        \/ s \in {"prune", "wipe_profiles", "clear"} /\ p.binding = b
    BY <1>1, <1>2, <1>5 DEF ProfileScanned, ScansBinding
  <2>2. CASE s = "forget_profiles"
    <3>1. PICK rows : rows = {r \in AllProfiles : r.key \in Gone(t.call)}
      OBVIOUS
    <3>2. RowsLocked(t) = ProfileLocks(rows)
      BY <1>2, <2>2, <3>1 DEF RowsLocked
    <3>3. p \in rows
      BY <2>1, <2>2, <3>1
    <3>4. QED
      BY <3>2, <3>3, ProfileLocked
  <2>3. CASE s \in {"prune", "wipe_profiles", "clear"}
    <3>1. PICK rows : rows = {r \in AllProfiles : r.binding = b}
      OBVIOUS
    <3>2. RowsLocked(t) = ProfileLocks(rows)
      BY <1>2, <2>3, <3>1 DEF RowsLocked
    <3>3. p \in rows
      BY <2>1, <2>3, <3>1
    <3>4. QED
      BY <3>2, <3>3, ProfileLocked
  <2>4. QED
    BY <2>1, <2>2, <2>3
<1>6. QED
  BY <1>3, <1>4, <1>5

\* The rows that a statement's transaction has added once it is done.
LEMMA StatementAdds ==
    ASSUME GInv, NEW t \in txns, ~t.undo, Running(t),
           NEW later, Follows(t, later)
    PROVE  /\ \A c \in later.credentials.add : c \in t.credentials.add \/
                 (c \in CredentialsNext(t) /\ c \notin CredentialsNow(t)
                  /\ c \in CredentialRow /\ Own(t.call, c))
           /\ \A d \in later.devices.add : d \in t.devices.add \/
                 (d \in DevicesNext(t) /\ d \notin DevicesNow(t)
                  /\ d \in DeviceRow /\ Own(t.call, d))
           /\ \A p \in later.profiles.add : p \in t.profiles.add \/
                 (p \in ProfilesNext(t) /\ p \notin ProfilesNow(t)
                  /\ p \in ProfileRow /\ Own(t.call, p))
<1>1. /\ later.credentials = Written(t.credentials, CredentialsNow(t), CredentialsNext(t))
      /\ later.devices = Written(t.devices, DevicesNow(t), DevicesNext(t))
      /\ later.profiles = Written(t.profiles, ProfilesNow(t), ProfilesNext(t))
  BY DEF Follows, WorkOf
<1>2. /\ CredentialsNow(t) = Seen(credentials, t.credentials)
      /\ DevicesNow(t) = Seen(devices, t.devices)
      /\ ProfilesNow(t) = Seen(profiles, t.profiles)
  BY DEF CredentialsNow, DevicesNow, ProfilesNow
<1>3. \A c \in later.credentials.add : c \in t.credentials.add \/
         (c \in CredentialsNext(t) /\ c \notin CredentialsNow(t))
  BY <1>1, <1>2, SeenWritten
<1>4. \A d \in later.devices.add : d \in t.devices.add \/
         (d \in DevicesNext(t) /\ d \notin DevicesNow(t))
  BY <1>1, <1>2, SeenWritten
<1>5. \A p \in later.profiles.add : p \in t.profiles.add \/
         (p \in ProfilesNext(t) /\ p \notin ProfilesNow(t))
  BY <1>1, <1>2, SeenWritten
<1>6. QED
  BY <1>3, <1>4, <1>5, StatementOwnCD, StatementOwnP

\* What it adds, no other has scanned for: that would be where the other
\* holds a gap.
LEMMA AddsMissed ==
    ASSUME GInv, NEW t \in txns, ~t.undo, Running(t), Accepted(t),
           NEW later, Follows(t, later), NEW u \in txns, u # t, ~u.undo,
           u.rows \cap later.rows = {}, u.gaps \cap Inserts(t) = {}
    PROVE  ScansMiss(u, later)
<1>1. Shaped(u) /\ Live(u) /\ LiveC(u, credentials) /\ LiveD(u, devices)
      /\ LiveP(u, profiles) /\ GapsHeld(u)
  BY LiveCalls DEF Live
<1>2. ScansMiss(u, t)
  BY DEF GInv, WriteInv, LocksApart
<1>3. /\ LiveC(later, credentials) /\ LiveD(later, devices)
      /\ LiveP(later, profiles)
  BY StatementC, StatementD, StatementP
<1>4. /\ u.gaps \cap CredentialsInserted(CredentialsNow(t), CredentialsNext(t)) = {}
      /\ u.gaps \cap DevicesInserted(DevicesNow(t), DevicesNext(t)) = {}
      /\ u.gaps \cap ProfilesInserted(ProfilesNow(t), ProfilesNext(t)) = {}
  BY DEF Inserts
<1>5. /\ \A d \in DevicesNow(t) \cup DevicesNext(t) : InScope(d.key, d.binding)
      /\ \A p \in ProfilesNow(t) \cup ProfilesNext(t) : InScope(p.key, p.binding)
  BY NowInScope, StatementOwnCD, StatementOwnP DEF Own
<1>6. ASSUME NEW c \in later.credentials.add
      PROVE  ~CredentialScanned(u, c)
  <2>1. CASE c \in t.credentials.add
    BY <1>2, <2>1 DEF ScansMiss
  <2>2. CASE c \in CredentialsNext(t) /\ c \notin CredentialsNow(t)
    <3>1. HoldsAll(later, c)
      BY <1>3, <1>6 DEF LiveC, Touched
    <3>2. ~HoldsAny(u, c)
      BY <3>1 DEF HoldsAll, HoldsAny
    <3>3. \A r \in CredentialsNow(t) : r \in credentials \/ ~CredentialScanned(u, r)
      BY <1>2 DEF CredentialsNow, Seen, ScansMiss
    <3>4. QED
      BY <1>1, <1>4, <2>2, <3>2, <3>3, CredentialMissed
  <2>3. QED
    BY <1>6, <2>1, <2>2, StatementAdds
<1>7. ASSUME NEW d \in later.devices.add
      PROVE  ~DeviceScanned(u, d)
  <2>1. CASE d \in t.devices.add
    BY <1>2, <2>1 DEF ScansMiss
  <2>2. CASE d \in DevicesNext(t) /\ d \notin DevicesNow(t)
    <3>1. HoldsDevice(later, d)
      BY <1>3, <1>7 DEF LiveD, Touched
    <3>2. ~HoldsDevice(u, d)
      BY <3>1 DEF HoldsDevice
    <3>3. \A r \in DevicesNow(t) : r \in devices \/ ~DeviceScanned(u, r)
      BY <1>2 DEF DevicesNow, Seen, ScansMiss
    <3>4. QED
      BY <1>1, <1>4, <1>5, <2>2, <3>2, <3>3, DeviceMissed
  <2>3. QED
    BY <1>7, <2>1, <2>2, StatementAdds
<1>8. ASSUME NEW p \in later.profiles.add
      PROVE  ~ProfileScanned(u, p)
  <2>1. CASE p \in t.profiles.add
    BY <1>2, <2>1 DEF ScansMiss
  <2>2. CASE p \in ProfilesNext(t) /\ p \notin ProfilesNow(t)
    <3>1. HoldsProfile(later, p)
      BY <1>3, <1>8 DEF LiveP, Touched
    <3>2. ~HoldsProfile(u, p)
      BY <3>1 DEF HoldsProfile
    <3>3. \A r \in ProfilesNow(t) : r \in profiles \/ ~ProfileScanned(u, r)
      BY <1>2 DEF ProfilesNow, Seen, ScansMiss
    <3>4. QED
      BY <1>1, <1>4, <1>5, <2>2, <3>2, <3>3, ProfileMissed
  <2>3. QED
    BY <1>8, <2>1, <2>2, StatementAdds
<1>9. QED
  BY <1>6, <1>7, <1>8 DEF ScansMiss

\* And it scans for nothing that another has added: it would have waited.
LEMMA ScansOthers ==
    ASSUME GInv, NEW t \in txns, ~t.undo, Running(t),
           NEW later, Follows(t, later), NEW u \in txns, u # t, ~u.undo,
           u.rows \cap later.rows = {}
    PROVE  ScansMiss(later, u)
<1>1. Shaped(u) /\ Live(u) /\ LiveC(u, credentials) /\ LiveD(u, devices)
      /\ LiveP(u, profiles)
  BY LiveCalls DEF Live
<1>2. ScansMiss(t, u)
  BY DEF GInv, WriteInv, LocksApart
<1>3. /\ u.credentials.add \subseteq AllCredentials
      /\ u.devices.add \subseteq AllDevices
      /\ u.profiles.add \subseteq AllProfiles
  BY DEF AllCredentials, AllDevices, AllProfiles, Physical
<1>4. /\ \A c \in u.credentials.add : HoldsAll(u, c)
      /\ \A d \in u.devices.add : HoldsDevice(u, d)
      /\ \A p \in u.profiles.add : HoldsProfile(u, p)
  BY <1>1 DEF LiveC, LiveD, LiveP, Touched
<1>5. /\ \A c \in u.credentials.add : ~HoldsAll(later, c)
      /\ \A d \in u.devices.add : ~HoldsDevice(later, d)
      /\ \A p \in u.profiles.add : ~HoldsProfile(later, p)
  BY <1>4 DEF HoldsAll, HoldsDevice, HoldsProfile
<1>6. QED
  BY <1>2, <1>3, <1>5, NewlyScanned DEF ScansMiss

\* The transaction itself stays live,
LEMMA StatementLive ==
    ASSUME GInv, NEW t \in txns, ~t.undo, Running(t), Accepted(t),
           NEW later, Follows(t, later)
    PROVE  Shaped(later) /\ Live(later)
<1>1. Shaped(t) /\ AddsOwn(t) /\ ~t.detached
  BY LiveCalls DEF Live
<1>2. /\ later.credentials.add \subseteq CredentialRow
      /\ later.devices.add \subseteq DeviceRow
      /\ later.profiles.add \subseteq ProfileRow
  BY <1>1, StatementAdds DEF Shaped
<1>3. Shaped(later)
  BY <1>1, <1>2 DEF Shaped, Follows, Binds
<1>4. later.call = t.call
  BY DEF Follows
<1>5. AddsOwn(later)
  BY <1>1, <1>4, StatementAdds DEF AddsOwn, Own
<1>6. QED
  BY <1>3, <1>5, StatementC, StatementD, StatementP, StatementGaps DEF Live

\* and so do the others, whose locks it has waited for.
LEMMA StatementStays ==
    ASSUME GInv, IInv', LInv', NEW t \in txns, Statement(t)
    PROVE  GInv'
<1>1. PICK later : txns' = (txns \ {t}) \cup {later} /\ Follows(t, later)
  BY StatementFollows
<1>2. /\ UNCHANGED vars /\ Running(t) /\ ~t.detached /\ Accepted(t)
      /\ \A u \in txns \ {t} : /\ u.rows \cap RowsLocked(t) = {}
                               /\ u.gaps \cap Inserts(t) = {}
  BY StatementFollows
<1>3. /\ UNCHANGED tables /\ UniqueProfiles(profiles')
      /\ inflight' = inflight /\ submitted' = submitted
      /\ revalidated' = revalidated
  BY <1>2 DEF vars, tables, GInv, WriteInv
<1>4. Shaped(t) /\ ReadSound(t.call)
  BY DEF GInv, WriteInv
<1>5. later.call = t.call /\ later.undo = t.undo
  BY <1>1 DEF Follows
<1>6. \A u \in txns \ {t} : u.rows \cap later.rows = {}
  <2>1. \A u \in txns \ {t} : u.rows \cap t.rows = {}
    BY DEF GInv, WriteInv, LocksApart
  <2>2. later.rows = t.rows \cup RowsLocked(t)
    BY <1>1 DEF Follows
  <2>3. QED
    BY <1>2, <2>1, <2>2
<1>7. Shaped(later)
  <2>1. CASE t.undo
    BY <1>1, <1>2, <1>4, <2>1 DEF Shaped, Follows, Binds, WorkOf
  <2>2. CASE ~t.undo
    BY <1>1, <1>2, <2>2, StatementLive
  <2>3. QED
    BY <2>1, <2>2
<1>8. ~t.undo => Live(later)
  BY <1>1, <1>2, StatementLive
<1>9. ASSUME NEW u \in txns \ {t}, ~t.undo, ~u.undo
      PROVE  ScansMiss(u, later) /\ ScansMiss(later, u)
  BY <1>1, <1>2, <1>6, <1>9, AddsMissed, ScansOthers
<1>10. UniqueProfiles(profiles)'
  BY <1>3 DEF UniqueProfiles
<1>11. (\A call \in inflight : ReadSound(call))'
  BY <1>3, ReadStays DEF GInv, WriteInv
<1>12. \A u \in txns' : Shaped(u)' /\ ReadSound(u.call)'
  <2> TAKE u \in txns'
  <2>1. Shaped(u) /\ ReadSound(u.call)
    BY <1>1, <1>4, <1>5, <1>7 DEF GInv, WriteInv
  <2>2. Shaped(u)'
    BY <2>1 DEF Shaped, Binds
  <2>3. QED
    BY <1>3, <2>1, <2>2, ReadStays
<1>13. \A u \in txns' : ~u.undo => Live(u)'
  <2> TAKE u \in txns'
  <2>1. ~u.undo => Live(u)
    BY <1>1, <1>5, <1>8 DEF GInv, WriteInv
  <2>2. QED
    BY <1>3, <2>1, LiveSame
<1>14. LocksApart'
  <2>1. \A u, v \in txns' : u # v => u.rows \cap v.rows = {}
    BY <1>1, <1>6 DEF GInv, WriteInv, LocksApart
  <2>2. \A u, v \in txns' : u # v /\ ~u.undo /\ ~v.undo => ScansMiss(u, v)
    BY <1>1, <1>5, <1>9 DEF GInv, WriteInv, LocksApart
  <2>3. QED
    BY <2>1, <2>2 DEF LocksApart, ScansMiss
<1>15. WriteInv'
  BY <1>10, <1>11, <1>12, <1>13, <1>14 DEF WriteInv
<1>16. QED
  BY <1>15 DEF GInv

-----------------------------------------------------------------------------
(* The refinement.                                                         *)

\* At the start nothing is written.
LEMMA GInvInit == TxnInit => GInv
<1> SUFFICES ASSUME TxnInit PROVE GInv
  OBVIOUS
<1>1. Init /\ txns = {} /\ inflight = {}
  BY DEF TxnInit, Init
<1>2. IInv
  BY <1>1, TypeInit, SoundInit DEF IInv
<1>3. LInv
  BY <1>1 DEF LInv, TxnsSound, OneEach, CallsShaped, LocksHaveCallers
<1>4. UniqueProfiles(profiles)
  BY <1>1, SerialInit DEF SInv, TablesSound
<1>5. WriteInv
  BY <1>1, <1>4 DEF WriteInv, LocksApart
<1>6. QED
  BY <1>2, <1>3, <1>5 DEF GInv

\* A call that fails while it runs.
LEMMA FailIsNext ==
    ASSUME NEW call \in inflight, Fail(call)
    PROVE  Next
  BY DEF Next, Continue

\* What a step of the transactions is to the lifecycle.
LEMMA CallStep ==
    ASSUME NEW call \in inflight, Advance(call) \/ Abandon(call)
    PROVE  [Next]_vars
<1>1. CASE Open(call)
  BY <1>1 DEF Open, Next, Continue
<1>2. CASE Enter(call)
  BY <1>2 DEF Enter
<1>3. CASE SaveAlone(call)
  BY <1>3 DEF SaveAlone, Next, Continue
<1>4. CASE SaveRejected(call)
  BY <1>4, FailIsNext DEF SaveRejected
<1>5. CASE Abandon(call)
  BY <1>5, FailIsNext DEF Abandon
<1>6. QED
  BY <1>1, <1>2, <1>3, <1>4, <1>5 DEF Advance

\* A step of a transaction is a step of its handler, a stutter or the
\* clean-up of a deadlock victim.
LEMMA TxnStepIs ==
    ASSUME GInv, NEW t \in txns, Proceed(t) \/ Error(t) \/ PassOver(t)
    PROVE  [Next]_vars \/ CleanUpAlone(t)
<1>1. ~t.detached => t.call \in inflight
  BY DEF GInv, LInv, LocksHaveCallers
<1>2. t.detached => t.undo
  BY DEF GInv, LInv, TxnsSound, TxnSound
<1>3. CASE Statement(t)
  BY <1>3 DEF Statement
<1>4. CASE Commit(t)
  <2>1. t.call \in inflight
    BY <1>1, <1>2, <1>4 DEF Commit
  <2>2. TxnCommit(t.call) \/ DeleteWipe(t.call) \/ ConfirmSet(t.call)
    BY <1>4, CommitIs
  <2>3. QED
    BY <2>1, <2>2 DEF Next, Continue
<1>5. CASE Error(t) \/ Rejected(t)
  <2>1. Error(t)
    BY <1>5 DEF Rejected
  <2>2. t.call \in inflight
    BY <1>1, <1>2, <2>1 DEF Error
  <2>3. UNCHANGED vars \/ Fail(t.call)
    BY <2>1 DEF Error
  <2>4. QED
    BY <2>2, <2>3, FailIsNext
<1>6. CASE Rollback(t)
  BY <1>1, <1>6, FailIsNext DEF Rollback
<1>7. CASE Victim(t)
  <2>1. ~t.detached
    BY <1>7, NoDetachedVictim DEF Victim, GInv
  <2>2. QED
    BY <1>1, <1>7, <2>1, FailIsNext DEF Victim
<1>8. CASE CleanUpAlone(t)
  BY <1>8
<1>9. CASE PassOver(t)
  BY <1>9 DEF PassOver
<1>10. QED
  BY <1>3, <1>4, <1>5, <1>6, <1>7, <1>8, <1>9 DEF Proceed

\* So is every step.
LEMMA StepImplements ==
    ASSUME GInv, [TxnNext]_txnVars
    PROVE  [Next \/ \E t \in txns : CleanUpAlone(t)]_vars
<1>1. CASE Begin /\ UNCHANGED txns
  BY <1>1 DEF Next
<1>2. ASSUME NEW call \in inflight, Advance(call) \/ Abandon(call)
      PROVE  [Next \/ \E t \in txns : CleanUpAlone(t)]_vars
  BY <1>2, CallStep
<1>3. ASSUME NEW t \in txns, Proceed(t) \/ Error(t) \/ PassOver(t)
      PROVE  [Next \/ \E u \in txns : CleanUpAlone(u)]_vars
  BY <1>3, TxnStepIs
<1>4. CASE UNCHANGED txnVars
  BY <1>4 DEF txnVars
<1>5. QED
  BY <1>1, <1>2, <1>3, <1>4 DEF TxnNext

\* The invariant is inductive.
LEMMA GInvNext ==
    ASSUME GInv, [TxnNext]_txnVars
    PROVE  GInv'
<1>1. IInv'
  <2>1. CASE [Next]_vars
    BY <2>1, TypeNext, SoundNext DEF GInv, IInv
  <2>2. CASE \E t \in txns : CleanUpAlone(t)
    BY <2>2, CleanUpAloneSound
  <2>3. QED
    BY <2>1, <2>2, StepImplements
<1>2. LInv'
  BY TxnStep DEF GInv
<1>3. CASE Begin /\ UNCHANGED txns
  BY <1>1, <1>2, <1>3, BeginStays
<1>4. ASSUME NEW call \in inflight, Advance(call) \/ Abandon(call)
      PROVE  GInv'
  <2>1. CASE Open(call)
    BY <1>1, <1>2, <2>1, OpenStays
  <2>2. CASE Enter(call)
    BY <1>1, <1>2, <2>2, EnterStays
  <2>3. CASE SaveAlone(call)
    BY <1>1, <1>2, <2>3, SaveAloneStays
  <2>4. CASE SaveRejected(call)
    <3>1. Fail(call) /\ txns' \subseteq txns
      BY <2>4 DEF SaveRejected
    <3>2. QED
      BY <1>1, <1>2, <3>1, EndStays
  <2>5. CASE Abandon(call)
    <3>1. Fail(call) /\ txns' \subseteq txns
      BY <2>5 DEF Abandon
    <3>2. QED
      BY <1>1, <1>2, <3>1, EndStays
  <2>6. QED
    BY <1>4, <2>1, <2>2, <2>3, <2>4, <2>5 DEF Advance
<1>5. ASSUME NEW t \in txns, Proceed(t) \/ Error(t) \/ PassOver(t)
      PROVE  GInv'
  <2>1. CASE Statement(t)
    BY <1>1, <1>2, <2>1, StatementStays
  <2>2. CASE Commit(t)
    BY <1>1, <1>2, <2>2, CommitStays
  <2>3. CASE Error(t) \/ Rejected(t)
    <3>1. Error(t)
      BY <2>3 DEF Rejected
    <3>2. QED
      BY <1>1, <1>2, <3>1, ErrorStays
  <2>4. CASE Rollback(t)
    <3>1. Fail(t.call) /\ txns' \subseteq txns
      BY <2>4 DEF Rollback
    <3>2. QED
      BY <1>1, <1>2, <3>1, EndStays
  <2>5. CASE Victim(t)
    BY <1>1, <1>2, <2>5, VictimStays
  <2>6. CASE CleanUpAlone(t)
    BY <1>1, <1>2, <2>6, CleanUpAloneStays
  <2>7. CASE PassOver(t)
    BY <1>1, <1>2, <2>7, PassStays
  <2>8. QED
    BY <1>5, <2>1, <2>2, <2>3, <2>4, <2>5, <2>6, <2>7 DEF Proceed
<1>6. CASE UNCHANGED txnVars
  <2>1. /\ UNCHANGED <<tables, submitted, revalidated, inflight, txns>>
    BY <1>6 DEF txnVars, vars, tables
  <2>2. UniqueProfiles(profiles')
    BY <2>1, UniqueSame
  <2>3. \A u \in txns' : ~u.undo => Live(u)'
    BY <2>1, LiveSame, LiveCalls
  <2>4. QED
    BY <1>1, <1>2, <2>1, <2>2, <2>3, Unmoved
<1>7. QED
  BY <1>3, <1>4, <1>5, <1>6 DEF TxnNext

\* However the statements of concurrent transactions interleave, fail, time
\* out or are rolled back, what a transaction that may still commit has
\* written and scanned is locked, its writes are what its statements would
\* make of the tables in one step, and the tables stay sound.
THEOREM WritesInvariant == TxnSpec => []GInv
<1>1. TxnInit => GInv
  BY GInvInit
<1>2. GInv /\ [TxnNext]_txnVars => GInv'
  BY GInvNext
<1>3. QED
  BY <1>1, <1>2, PTL DEF TxnSpec

\* bindPreparedCredential, DeleteCredential and ConfirmPrimaryProfile run
\* their statements one by one inside WithinTransaction: the locks InnoDB
\* holds to the end make each of them one step of CredentialLifecycle, save
\* for the clean-up of a bind whose transaction InnoDB has rolled back.
THEOREM ImplementsLifecycle == TxnSpec => Implements
<1>1. TxnInit => Init
  BY DEF TxnInit
<1>2. GInv /\ [TxnNext]_txnVars
        => [Next \/ \E t \in txns : CleanUpAlone(t)]_vars
  BY StepImplements
<1>3. QED
  BY <1>1, <1>2, WritesInvariant, PTL DEF TxnSpec, Implements

\* Not even that clean-up, which puts a credential back that was read before
\* the transaction, leaves a row whose key, account and blob disagree or
\* whose material was never submitted for its binding.
THEOREM RowsStaySound ==
    TxnSpec => [](KeysAgree /\ CredentialCoherent /\ MaterialIsTheBindings)
<1>1. GInv => KeysAgree /\ CredentialCoherent /\ MaterialIsTheBindings
  BY DEF GInv, IInv, Sound, KeysAgree, CredentialCoherent,
         MaterialIsTheBindings, CredentialSound
<1>2. QED
  BY <1>1, WritesInvariant, PTL
=============================================================================
