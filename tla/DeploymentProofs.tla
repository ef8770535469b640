--------------------------- MODULE DeploymentProofs ---------------------------
(***************************************************************************)
(* Theorems about Deployment, for any number of processes, any             *)
(* configurations and any order of starts, stops and RPCs.                 *)
(***************************************************************************)
EXTENDS Deployment, TLAPS

\* A running RPC is in a process that runs with the secret of the row it
\* carries, and what it carries is a verdict already.
CallsSound ==
    \A call \in calls :
        /\ process[call.process] # Down
        /\ process[call.process].secret = call.row.secret
        /\ <<call.row.cookie, call.row.status>> \in verdicts

\* What runs was let through by validateBootstrap.
Configured == \A p \in Up : Valid(process[p])

IInv ==
    /\ DeploymentTypeOK
    /\ Configured
    /\ CallsSound
    /\ StatusIsAboutTheBlob

-----------------------------------------------------------------------------
(* What the parts do with one configuration.                               *)

\* A configuration that is let through is enough: the resolver holds one key
\* under the key id, the issuer is compared, and AES takes the secret.
LEMMA ValidIsEnough ==
    ASSUME NEW c \in Configs, Valid(c)
    PROVE  /\ Encrypts(c)
           /\ \A ticket \in Tickets :
                Accepts(c, ticket) <=>
                    ticket = [issuer |-> c.issuer, kid |-> c.kid,
                              signer |-> c.pem]
<1>1. SecretLength[c.secret] = 32
  BY DEF Valid
<1>2. Encrypts(c)
  BY <1>1 DEF Encrypts
<1>3. Resolver(c) = [kid \in {c.kid} |-> c.pem]
  <2>1. {k \in {c.kid} : k # "" /\ c.pem \in PublicKeys} = {c.kid}
    BY DEF Valid
  <2> QED
    BY <2>1 DEF Resolver
<1>4. ASSUME NEW ticket \in Tickets
      PROVE  Accepts(c, ticket) <=>
               ticket = [issuer |-> c.issuer, kid |-> c.kid, signer |-> c.pem]
  <2>1. Accepts(c, ticket) <=>
          ticket.kid = c.kid /\ ticket.signer = c.pem /\ ticket.issuer = c.issuer
    BY <1>3 DEF Accepts, Valid
  <2>2. ticket \in [issuer : STRING, kid : STRING, signer : PublicKeys]
    BY <1>4, DeploymentAssumption
  <2> QED
    BY <2>1, <2>2
<1> QED
  BY <1>2, <1>4

\* Saving a row keeps the table a table, and adds no verdict but the row's.
LEMMA SavedRows ==
    ASSUME DeploymentTypeOK, NEW row \in Row
    PROVE  /\ SaveRow(row) \subseteq Row
           /\ \A x \in SaveRow(row) : x \in rows \/ x = row
BY DEF SaveRow, DeploymentTypeOK

-----------------------------------------------------------------------------
(* The invariant.                                                          *)

LEMMA InitHolds == Init => IInv
<1> SUFFICES ASSUME Init PROVE IInv
  OBVIOUS
<1>1. process \in [Processes -> Configs \cup {Down}]
  BY DEF Init
<1>2. rows = {} /\ calls = {} /\ used = {} /\ verdicts = {}
  BY DEF Init
<1>3. Up = {}
  BY DEF Init, Up
<1> QED
  BY <1>1, <1>2, <1>3
  DEF IInv, DeploymentTypeOK, Configured, CallsSound, StatusIsAboutTheBlob

\* A process starts with a configuration that is let through.
LEMMA StartKeeps ==
    ASSUME IInv, NEW p \in Processes, NEW c \in Configs, Start(p, c)
    PROVE  IInv'
<1>1. process' \in [Processes -> Configs \cup {Down}]
  BY DEF IInv, DeploymentTypeOK, Start
<1>2. \A q \in Processes : process'[q] = IF q = p THEN c ELSE process[q]
  BY DEF IInv, DeploymentTypeOK, Start
<1>3. Configured'
  <2> SUFFICES ASSUME NEW q \in Processes, process'[q] # Down
               PROVE  Valid(process'[q])
    BY DEF Configured, Up
  <2>1. CASE q = p
    BY <1>2, <2>1 DEF Start
  <2>2. CASE q # p
    BY <1>2, <2>2 DEF IInv, Configured, Up
  <2> QED
    BY <2>1, <2>2
<1>4. CallsSound'
  <2> SUFFICES ASSUME NEW call \in calls
               PROVE  /\ process'[call.process] = process[call.process]
    BY DEF IInv, CallsSound, Start
  <2>1. call.process \in Processes /\ call.process # p
    BY DEF IInv, DeploymentTypeOK, CallsSound, Call, Start
  <2> QED
    BY <1>2, <2>1
<1> QED
  BY <1>1, <1>3, <1>4
  DEF IInv, DeploymentTypeOK, StatusIsAboutTheBlob, Start

\* A process takes its RPCs with it.
LEMMA StopKeeps ==
    ASSUME IInv, NEW p \in Processes, Stop(p)
    PROVE  IInv'
<1>1. process' \in [Processes -> Configs \cup {Down}]
  BY DEF IInv, DeploymentTypeOK, Stop
<1>2. \A q \in Processes : process'[q] = IF q = p THEN Down ELSE process[q]
  BY DEF IInv, DeploymentTypeOK, Stop
<1>3. Configured'
  BY <1>2 DEF IInv, Configured, Up, Valid, Stop
<1>4. CallsSound'
  BY <1>2 DEF IInv, DeploymentTypeOK, CallsSound, Call, Stop
<1> QED
  BY <1>1, <1>3, <1>4
  DEF IInv, DeploymentTypeOK, StatusIsAboutTheBlob, Stop

\* An RPC that begins carries the secret of its process and a verdict.
LEMMA BeginKeeps ==
    ASSUME IInv, NEW p \in Processes, NEW call \in Call, Begin(p, call),
           call.process = p, call.row.secret = process[p].secret,
           call.id \in Requests,
           verdicts' \in SUBSET (Cookies \X Statuses),
           verdicts \subseteq verdicts',
           <<call.row.cookie, call.row.status>> \in verdicts'
    PROVE  IInv'
<1>1. DeploymentTypeOK'
  BY DEF IInv, DeploymentTypeOK, Begin
<1>2. Configured'
  BY DEF IInv, Configured, Up, Valid, Begin
<1>3. CallsSound'
  BY DEF IInv, CallsSound, Begin
<1>4. StatusIsAboutTheBlob'
  BY DEF IInv, StatusIsAboutTheBlob, Begin
<1> QED
  BY <1>1, <1>2, <1>3, <1>4 DEF IInv

LEMMA ActiveIsAStatus == /\ "active" \in Statuses
                         /\ \A answer \in Answers : Classify(answer) \in Statuses
<1>1. "accepted" \in Answers /\ Classify("accepted") = "active"
  BY DEF Answers, Classify
<1> QED
  BY <1>1 DEF Statuses

LEMMA BindKeeps ==
    ASSUME IInv, NEW r \in Requests, NEW p \in Processes, NEW b \in Bindings,
           NEW cookie \in Cookies, Bind(r, p, b, cookie)
    PROVE  IInv'
<1> DEFINE row == [binding |-> b, cookie |-> cookie,
                   secret |-> process[p].secret, status |-> "active"]
           call == [id |-> r, process |-> p, op |-> "bind", row |-> row]
<1>1. process[p] \in Configs
  BY DEF IInv, DeploymentTypeOK, Bind, Begin
<1>2. process[p].secret \in Secrets
  BY <1>1, DeploymentAssumption DEF Config
<1>3. row \in Row
  BY <1>2, ActiveIsAStatus DEF Row
<1>4. call \in Call
  BY <1>3 DEF Call
<1>5. Begin(p, call)
  BY DEF Bind
<1>6. /\ verdicts' \in SUBSET (Cookies \X Statuses)
      /\ verdicts \subseteq verdicts'
      /\ <<cookie, "active">> \in verdicts'
  BY ActiveIsAStatus DEF IInv, DeploymentTypeOK, Bind
<1> HIDE DEF row
<1>7. /\ call.process = p /\ call.id = r /\ call.row = row
  OBVIOUS
<1>8. row.secret = process[p].secret /\ row.cookie = cookie /\ row.status = "active"
  BY DEF row
<1> HIDE DEF call
<1> QED
  BY <1>4, <1>5, <1>6, <1>7, <1>8, BeginKeeps

LEMMA RevalidateKeeps ==
    ASSUME IInv, NEW r \in Requests, NEW p \in Processes, NEW row \in rows,
           Revalidate(r, p, row)
    PROVE  IInv'
<1> DEFINE call == [id |-> r, process |-> p, op |-> "revalidate", row |-> row]
<1>1. row \in Row
  BY DEF IInv, DeploymentTypeOK
<1>2. call \in Call
  BY <1>1 DEF Call
<1>3. Begin(p, call) /\ row.secret = process[p].secret /\ verdicts' = verdicts
  BY DEF Revalidate, Opens
<1>4. <<row.cookie, row.status>> \in verdicts
  BY DEF IInv, StatusIsAboutTheBlob
<1>5. call.process = p /\ call.id = r /\ call.row = row
  OBVIOUS
<1>6. verdicts \in SUBSET (Cookies \X Statuses)
  BY DEF IInv, DeploymentTypeOK
<1> HIDE DEF call
<1> QED
  BY <1>2, <1>3, <1>4, <1>5, <1>6, BeginKeeps

\* An RPC saves a row with a verdict that is known by then.
LEMMA SaveKeeps ==
    ASSUME IInv, NEW call \in calls, NEW row \in Row, End(call),
           rows' = SaveRow(row),
           verdicts' \in SUBSET (Cookies \X Statuses),
           verdicts \subseteq verdicts',
           <<row.cookie, row.status>> \in verdicts'
    PROVE  IInv'
<1>1. DeploymentTypeOK'
  BY SavedRows DEF IInv, DeploymentTypeOK, End
<1>2. Configured'
  BY DEF IInv, Configured, Up, Valid, End
<1>3. CallsSound'
  BY DEF IInv, CallsSound, End
<1>4. StatusIsAboutTheBlob'
  BY SavedRows DEF IInv, StatusIsAboutTheBlob
<1> QED
  BY <1>1, <1>2, <1>3, <1>4 DEF IInv

\* A revalidation changes the status of the row it read, nothing else.
LEMMA RevalidatedRow ==
    ASSUME DeploymentTypeOK, NEW call \in calls, NEW answer \in Answers
    PROVE  LET row == [call.row EXCEPT !.status = Classify(answer)]
           IN  /\ row \in Row
               /\ row.secret = call.row.secret
               /\ row.cookie = call.row.cookie
               /\ row.status = Classify(answer)
<1>1. call.row \in Row
  BY DEF DeploymentTypeOK, Call
<1>2. Classify(answer) \in Statuses
  BY ActiveIsAStatus
<1> QED
  BY <1>1, <1>2 DEF Row

LEMMA EndingKeeps ==
    ASSUME IInv, NEW call \in calls,
           \/ BindSave(call)
           \/ \E answer \in Answers : RevalidateSave(call, answer)
           \/ Fail(call)
    PROVE  IInv'
<1>0. call \in Call /\ call.row \in Row
  BY DEF IInv, DeploymentTypeOK, Call
<1>1. CASE BindSave(call)
  <2>1. <<call.row.cookie, call.row.status>> \in verdicts
    BY DEF IInv, CallsSound
  <2>2. verdicts \in SUBSET (Cookies \X Statuses)
    BY DEF IInv, DeploymentTypeOK
  <2> QED
    BY <1>0, <1>1, <2>1, <2>2, SaveKeeps DEF BindSave
<1>2. ASSUME NEW answer \in Answers, RevalidateSave(call, answer)
      PROVE  IInv'
  <2> DEFINE row == [call.row EXCEPT !.status = Classify(answer)]
  <2>1. /\ row \in Row /\ row.cookie = call.row.cookie
        /\ row.status = Classify(answer)
    BY RevalidatedRow DEF IInv
  <2>2. /\ End(call) /\ rows' = SaveRow(row)
        /\ verdicts' = verdicts \cup {<<call.row.cookie, Classify(answer)>>}
    BY <1>2 DEF RevalidateSave, RevalidatedRows
  <2>3. call.row.cookie \in Cookies /\ Classify(answer) \in Statuses
    BY <1>0, ActiveIsAStatus DEF Row
  <2>4. verdicts' \in SUBSET (Cookies \X Statuses)
    BY <2>2, <2>3 DEF IInv, DeploymentTypeOK
  <2> HIDE DEF row
  <2> QED
    BY <2>1, <2>2, <2>4, SaveKeeps
<1>3. CASE Fail(call)
  BY <1>3 DEF Fail, End, IInv, DeploymentTypeOK, Configured, Up, Valid,
              CallsSound, StatusIsAboutTheBlob
<1> QED
  BY <1>1, <1>2, <1>3

LEMMA DeleteKeeps ==
    ASSUME IInv, NEW p \in Processes, NEW b \in Bindings, Delete(p, b)
    PROVE  IInv'
BY DEF Delete, IInv, DeploymentTypeOK, Configured, Up, Valid, CallsSound,
       StatusIsAboutTheBlob

LEMMA StepHolds == IInv /\ [Next]_deploymentVars => IInv'
<1> SUFFICES ASSUME IInv, [Next]_deploymentVars PROVE IInv'
  OBVIOUS
<1>1. CASE \E p \in Processes : \E c \in Configs : Start(p, c)
  BY <1>1, StartKeeps
<1>2. CASE \E p \in Processes : Stop(p)
  BY <1>2, StopKeeps
<1>3. CASE \E p \in Processes : \E b \in Bindings : Delete(p, b)
  BY <1>3, DeleteKeeps
<1>4. CASE \E r \in Requests, p \in {p \in Processes : process[p] # Down} :
             \E b \in Bindings, cookie \in Cookies : Bind(r, p, b, cookie)
  BY <1>4, BindKeeps
<1>5. CASE \E r \in Requests, p \in {p \in Processes : process[p] # Down} :
             \E row \in rows : Revalidate(r, p, row)
  BY <1>5, RevalidateKeeps
<1>6. CASE \E call \in calls : \/ BindSave(call)
                               \/ \E answer \in Answers : RevalidateSave(call, answer)
                               \/ Fail(call)
  BY <1>6, EndingKeeps
<1>7. CASE UNCHANGED deploymentVars
  BY <1>7 DEF deploymentVars, IInv, DeploymentTypeOK, Configured, Up, Valid,
              CallsSound, StatusIsAboutTheBlob
<1> QED
  BY <1>1, <1>2, <1>3, <1>4, <1>5, <1>6, <1>7 DEF Next

-----------------------------------------------------------------------------
(* Theorems.                                                               *)

\* Whatever processes start, stop and crash: what runs was let through,
\* what an RPC carries is of its process and known, and so is what is stored.
THEOREM InvariantHolds == Spec => []IInv
<1>1. Init => IInv
  BY InitHolds
<1>2. IInv /\ [Next]_deploymentVars => IInv'
  BY StepHolds
<1> QED
  BY <1>1, <1>2, PTL DEF Spec

\* Processes, rows, calls and verdicts keep their types.
THEOREM TypeCorrect == Spec => []DeploymentTypeOK
<1>1. IInv => DeploymentTypeOK
  BY DEF IInv
<1> QED
  BY <1>1, InvariantHolds, PTL

\* validateBootstrap asks for all that the verifier and the ciphers need.
THEOREM RunningReady == Spec => []RunningMeansReady
<1>1. IInv => RunningMeansReady
  <2> SUFFICES ASSUME IInv, NEW p \in Up
               PROVE  /\ Encrypts(process[p])
                      /\ \A ticket \in Tickets :
                           Accepts(process[p], ticket) <=>
                               ticket = [issuer |-> process[p].issuer,
                                         kid |-> process[p].kid,
                                         signer |-> process[p].pem]
    BY DEF RunningMeansReady
  <2>1. process[p] \in Configs /\ Valid(process[p])
    BY DEF IInv, DeploymentTypeOK, Configured, Up
  <2> QED
    BY <2>1, ValidIsEnough
<1> QED
  BY <1>1, InvariantHolds, PTL

\* A status is saved with the blob it was found for, by a process that could
\* open it.
THEOREM StatusAboutBlob == Spec => []StatusIsAboutTheBlob
<1>1. IInv => StatusIsAboutTheBlob
  BY DEF IInv
<1> QED
  BY <1>1, InvariantHolds, PTL

\* A save needs a process that runs with the secret of what is saved.
THEOREM SecretsRetired == Spec => RetiredSecretsStayRetired
<1> DEFINE Retired == \A row \in rows' \ rows :
                          \E p \in Up : process[p].secret = row.secret
<1>1. IInv /\ [Next]_deploymentVars => [Retired]_deploymentVars
  <2> SUFFICES ASSUME IInv, Next, NEW row \in rows' \ rows
               PROVE  \E p \in Up : process[p].secret = row.secret
    OBVIOUS
  <2>1. PICK call \in calls : \/ BindSave(call)
                              \/ \E answer \in Answers : RevalidateSave(call, answer)
    BY DEF Next, Start, Stop, Delete, Bind, Revalidate, Begin, Fail, End
  <2>2. call.process \in Up /\ process[call.process].secret = call.row.secret
    BY DEF IInv, DeploymentTypeOK, Call, CallsSound, Up
  <2>3. row.secret = call.row.secret
    <3>1. CASE BindSave(call)
      BY <3>1 DEF BindSave, SaveRow
    <3>2. ASSUME NEW answer \in Answers, RevalidateSave(call, answer)
          PROVE  row.secret = call.row.secret
      BY <3>2, RevalidatedRow DEF RevalidateSave, RevalidatedRows, SaveRow, IInv
    <3> QED
      BY <2>1, <3>1, <3>2
  <2> QED
    BY <2>2, <2>3
<1> QED
  BY <1>1, InvariantHolds, PTL DEF Spec, RetiredSecretsStayRetired
=============================================================================
