----------------------------- MODULE Deployment -----------------------------
(***************************************************************************)
(* Processes of the service over one database: what a configuration must   *)
(* have for main to start with it, what the parts main builds from it then *)
(* do, and credential blobs under configurations that change.  Processes   *)
(* start, stop and crash at any time and need not agree on the secret that *)
(* encrypts the blobs or on the key that tickets are verified with.        *)
(***************************************************************************)
EXTENDS Integers, FiniteSets

CONSTANTS
    Processes,
    Configs,        \* the configuration files a process may be given
    Down,           \* a process that does not run
    Secrets,        \* credential encryption keys
    SecretLength,   \* their lengths in bytes
    PublicKeys,     \* Ed25519 public keys, as PEM
    Requests,
    Bindings,
    Cookies,
    Tickets         \* service tickets, rightly formed and unexpired

\* "" stands for a field that is not there.
Config == [network : STRING, addr : STRING, timeout : Int, issuer : STRING,
           kid : STRING, pem : STRING, secret : Secrets]

ASSUME DeploymentAssumption ==
    /\ Configs \subseteq Config
    /\ Down \notin Configs
    /\ SecretLength \in [Secrets -> Nat]
    /\ "" \notin PublicKeys
    /\ Tickets \subseteq [issuer : STRING, kid : STRING, signer : PublicKeys]

VARIABLES
    process,    \* the configuration each process runs with, or Down
    rows,       \* the credentials, as far as blob and status go
    calls,      \* the RPCs running, each in its process
    used,       \* the requests issued
    verdicts    \* history: what the upstream platform said of which cookie

deploymentVars == <<process, rows, calls, used, verdicts>>

-----------------------------------------------------------------------------
(* Start-up.                                                               *)

\* Mutant: an issuer is not asked for.
ValidButIssuer(c) ==
    /\ c.network # "" /\ c.addr # "" /\ c.timeout > 0
    /\ SecretLength[c.secret] = 32
    /\ c.kid # "" /\ c.pem \in PublicKeys

\* validateBootstrap; ParseEd25519PublicKeyPEM takes a PEM block that holds
\* an Ed25519 key and nothing else.
Valid(c) ==
    /\ c.network # "" /\ c.addr # "" /\ c.timeout > 0
    /\ c.issuer # ""
    /\ SecretLength[c.secret] = 32
    /\ c.kid # ""
    /\ c.pem \in PublicKeys

\* NewStaticPublicKeyResolver: one key under its id, or none at all.
Resolver(c) ==
    [kid \in {k \in {c.kid} : k # "" /\ c.pem \in PublicKeys} |-> c.pem]

\* The first part of VerifyContext.  An expected issuer that is empty is not
\* checked (jwt.WithIssuer).
Accepts(c, ticket) ==
    /\ ticket.kid \in DOMAIN Resolver(c)
    /\ ticket.signer = Resolver(c)[ticket.kid]
    /\ c.issuer # "" => ticket.issuer = c.issuer

\* aes.NewCipher takes keys of three lengths.
Encrypts(c) == SecretLength[c.secret] \in {16, 24, 32}

Start(p, c) ==
    /\ process[p] = Down
    /\ Valid(c)
    /\ process' = [process EXCEPT ![p] = c]
    /\ UNCHANGED <<rows, calls, used, verdicts>>

\* A process is stopped or dies, its RPCs with it.
Stop(p) ==
    /\ process[p] # Down
    /\ process' = [process EXCEPT ![p] = Down]
    /\ calls' = {call \in calls : call.process # p}
    /\ UNCHANGED <<rows, used, verdicts>>

-----------------------------------------------------------------------------
(* Blobs.                                                                  *)

Answers == {"accepted", "challenge", "expired", "error"}

\* classifyCredentialStatus: any error it does not know, an upstream client
\* that is not configured included, makes the credential invalid.
Classify(answer) ==
    CASE answer = "accepted" -> "active"
      [] answer = "challenge" -> "challenge_required"
      [] answer = "expired" -> "expired"
      [] answer = "error" -> "invalid"

Statuses == {Classify(answer) : answer \in Answers}

\* A blob is a cookie sealed under a secret: AES-GCM opens it under that
\* secret only.
Row == [binding : Bindings, cookie : Cookies, secret : Secrets,
        status : Statuses]
Call == [id : Requests, process : Processes, op : {"bind", "revalidate"},
         row : Row]

Opens(c, row) == Encrypts(c) /\ c.secret = row.secret

DeploymentTypeOK ==
    /\ process \in [Processes -> Configs \cup {Down}]
    /\ rows \subseteq Row
    /\ calls \subseteq Call
    /\ used \subseteq Requests
    /\ verdicts \subseteq Cookies \X Statuses

Begin(p, call) ==
    /\ process[p] # Down
    /\ call.id \notin used
    /\ used' = used \cup {call.id}
    /\ calls' = calls \cup {call}
    /\ UNCHANGED <<process, rows>>

\* prepareBindCredential: the upstream platform accepts the cookie, and the
\* process seals it.
Bind(r, p, b, cookie) ==
    /\ Encrypts(process[p])
    /\ Begin(p, [id |-> r, process |-> p, op |-> "bind",
                 row |-> [binding |-> b, cookie |-> cookie,
                          secret |-> process[p].secret, status |-> "active"]])
    /\ verdicts' = verdicts \cup {<<cookie, "active">>}

\* Mutant: a blob that does not open is taken for an upstream error.
RevalidateAnyway(r, p, row) ==
    /\ Begin(p, [id |-> r, process |-> p, op |-> "revalidate", row |-> row])
    /\ UNCHANGED verdicts

\* Validate and Refresh open the blob of the row they read; one that does
\* not open ends the RPC there.
Revalidate(r, p, row) ==
    /\ Opens(process[p], row)
    /\ Begin(p, [id |-> r, process |-> p, op |-> "revalidate", row |-> row])
    /\ UNCHANGED verdicts

\* Mutant: the status is left to the column's default.
SaveRowButStatus(row) ==
    {x \in rows : x.binding # row.binding} \cup {[row EXCEPT !.status = ""]}

SaveRow(row) == {x \in rows : x.binding # row.binding} \cup {row}

End(call) ==
    /\ calls' = calls \ {call}
    /\ UNCHANGED <<process, used>>

BindSave(call) ==
    /\ call.op = "bind"
    /\ rows' = SaveRow(call.row)
    /\ End(call)
    /\ UNCHANGED verdicts

\* Mutant: only the status column of whatever is stored now is updated.
StatusSaved(row) ==
    {IF x.binding = row.binding THEN [x EXCEPT !.status = row.status] ELSE x :
        x \in rows}

RevalidatedRows(row) == SaveRow(row)

\* The upstream platform answers, and the row that was read is saved whole.
RevalidateSave(call, answer) ==
    /\ call.op = "revalidate"
    /\ verdicts' = verdicts \cup {<<call.row.cookie, Classify(answer)>>}
    /\ rows' = RevalidatedRows([call.row EXCEPT !.status = Classify(answer)])
    /\ End(call)

Fail(call) == End(call) /\ UNCHANGED <<rows, verdicts>>

Delete(p, b) ==
    /\ process[p] # Down
    /\ rows' = {x \in rows : x.binding # b}
    /\ UNCHANGED <<process, calls, used, verdicts>>

Init ==
    /\ process = [p \in Processes |-> Down]
    /\ rows = {} /\ calls = {} /\ used = {} /\ verdicts = {}

Next ==
    \/ \E p \in Processes :
         \/ \E c \in Configs : Start(p, c)
         \/ Stop(p)
         \/ \E b \in Bindings : Delete(p, b)
    \/ \E r \in Requests, p \in {p \in Processes : process[p] # Down} :
         \/ \E b \in Bindings, cookie \in Cookies : Bind(r, p, b, cookie)
         \/ \E row \in rows : Revalidate(r, p, row)
    \/ \E call \in calls :
         \/ BindSave(call)
         \/ \E answer \in Answers : RevalidateSave(call, answer)
         \/ Fail(call)

Spec == Init /\ [][Next]_deploymentVars

-----------------------------------------------------------------------------
(* Properties.                                                             *)

Up == {p \in Processes : process[p] # Down}

\* What validateBootstrap lets through is enough for the rest of main: a
\* process that runs accepts the tickets its account centre signs under the
\* key id configured, and no others, and it can seal and open blobs.
RunningMeansReady ==
    \A p \in Up :
        /\ Encrypts(process[p])
        /\ \A ticket \in Tickets :
             Accepts(process[p], ticket) <=>
                 ticket = [issuer |-> process[p].issuer, kid |-> process[p].kid,
                           signer |-> process[p].pem]

\* A stored status is what the upstream platform said of the very cookie in
\* the blob beside it: not of one that was replaced meanwhile, and not what
\* a process with another secret made of a blob it could not open.
StatusIsAboutTheBlob ==
    \A row \in rows : <<row.cookie, row.status>> \in verdicts

\* Once no process runs with a secret, no blob is written under it any more,
\* neither by an RPC that read one before nor after a restart.
RetiredSecretsStayRetired ==
    [][\A row \in rows' \ rows :
           \E p \in Up : process[p].secret = row.secret]_deploymentVars
=============================================================================
