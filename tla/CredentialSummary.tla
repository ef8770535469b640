-------------------------- MODULE CredentialSummary --------------------------
(***************************************************************************)
(* The summary of a credential beside the RPCs that write it.  A summary   *)
(* is three SELECTs without a transaction: the credential, its devices and *)
(* its profiles, with any write in between.  GetCredentialSummary of the   *)
(* three services reads all three by the binding of the ticket; the answer *)
(* of UpdateCredential reads all three by the platform account id.         *)
(***************************************************************************)
EXTENDS CredentialLifecycle

CONSTANT Readers        \* identities of summaries; each is used for one

VARIABLES
    summaries,   \* the summaries being read, each with what it has so far
    asked        \* the readers used

summaryVars == <<vars, summaries, asked>>

Sources == {"binding", "key"}

Summary == [id : Readers, by : Sources, step : {"devices", "profiles"},
            credential : CredentialRow, devices : SUBSET DeviceRow,
            seen : SUBSET Requests]

SummaryTypeOK ==
    /\ TypeOK
    /\ summaries \subseteq Summary
    /\ asked \subseteq Readers

-----------------------------------------------------------------------------
(* Reads.                                                                  *)

\* ListByBindingID and ListByPlatformAccountID.
Listed(s, rows) ==
    {r \in rows : IF s.by = "binding" THEN r.binding = s.credential.binding
                  ELSE r.key = s.credential.key}

\* GetByBindingID, whose row must be the one asked for, which is the
\* binding's; GetByPlatformAccountID, after an update of that account.
\* A credential that is not there ends the RPC.
ReadCredential(r, by, row) ==
    /\ r \notin asked
    /\ by = "binding" => InScope(row.key, row.binding)
    /\ by = "key" => row.key.kind = "binding" /\ applied # {}
    /\ asked' = asked \cup {r}
    /\ summaries' = summaries \cup
         {[id |-> r, by |-> by, step |-> "devices", credential |-> row,
           devices |-> {}, seen |-> applied]}
    /\ UNCHANGED vars

ReadDevices(s) ==
    /\ s.step = "devices"
    /\ summaries' = (summaries \ {s}) \cup
         {[s EXCEPT !.step = "profiles", !.devices = Listed(s, devices)]}
    /\ UNCHANGED <<vars, asked>>

\* The answer: what was read before, and the profiles as they are now.
Answer(s) == [credential |-> s.credential, devices |-> s.devices,
              profiles |-> Listed(s, profiles)]

ReadProfiles(s) ==
    /\ s.step = "profiles"
    /\ summaries' = summaries \ {s}
    /\ UNCHANGED <<vars, asked>>

SummaryInit == Init /\ summaries = {} /\ asked = {}

Read ==
    \/ \E r \in Readers, by \in Sources, row \in credentials :
         ReadCredential(r, by, row)
    \/ \E s \in summaries : ReadDevices(s) \/ ReadProfiles(s)

SummaryNext == Read \/ (Next /\ UNCHANGED <<summaries, asked>>)

SummarySpec == SummaryInit /\ [][SummaryNext]_summaryVars

-----------------------------------------------------------------------------
(* Properties.                                                             *)

\* The summaries this step answers.
Answering == {s \in summaries : s \notin summaries' /\ s.step = "profiles"}

SameKey(rows) == \A p, q \in rows : p.key = q.key
HasOnePrimary(rows) ==
    rows # {} => \E p \in rows : {q \in rows : q.default} = {p}

\* Calls that write do not overlap each other.  Whatever writes fall between
\* the SELECTs of a summary, the devices it shows are of one account and so
\* are its profiles, one of which is primary; a summary that no write fell
\* into shows the credential's devices and profiles.
OneAccount ==
    \A s \in Answering : Undisputed(s.credential.binding) =>
        /\ SameKey(Answer(s).devices) /\ SameKey(Answer(s).profiles)
        /\ HasOnePrimary(Answer(s).profiles)
        /\ s.seen = applied =>
             /\ Answer(s).devices # {}
             /\ \A row \in Answer(s).devices \cup Answer(s).profiles :
                  row.key = s.credential.key

SummariesShowOneAccount == [][OneAccount]_summaryVars
=============================================================================
