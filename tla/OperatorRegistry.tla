-------------------------- MODULE OperatorRegistry -------------------------
(***************************************************************************)
(* How an operator gets into the registry and out of it: the admin's       *)
(* registration script (packages/identity/ens), the WatchdogRevoker and    *)
(* the AttestationRefresherReceiver contracts, and the workflow whose      *)
(* reports the receiver takes.                                             *)
(*                                                                         *)
(* The script sends ten transactions without waiting for any receipt; they *)
(* are mined later, in the order sent.  It may stop between two of them,   *)
(* and be run again.  Transactions of one operator are kept apart from     *)
(* those of another, which change different records and roles.  The        *)
(* resolver holds the operator's record and who may write which key of it. *)
(*                                                                         *)
(* An action is one transaction as mined, or one step of a process outside *)
(* the chain.  A transaction that reverts changes nothing and is no action *)
(* of its own, except in the script's pool, which it leaves.               *)
(***************************************************************************)
EXTENDS Naturals, Sequences, FiniteSets

CONSTANTS
    Operators,
    Builds,        \* builds of the relay's software; a build is its hash
    StubBuild,     \* whose hash the script publishes
    FreshBuild,    \* whose hash the workflow reports
    None,
    MaxRuns,       \* bound on the runs of the script, per operator
    MaxChecks      \* bound on attestation reports made, per operator

ASSUME RegistryAssumption ==
    /\ StubBuild \in Builds /\ FreshBuild \in Builds
    /\ None \notin Builds \cup {"active", "revoked"}
    /\ MaxRuns \in Nat /\ MaxChecks \in Nat

VARIABLES
    script,      \* the next call that the script sends, 0 when it does not run
    runs,        \* how often it was started
    stopped,     \* operators of which a run stopped before its end
    overlapped,  \* operators of which a run was started with calls pending
    pool,        \* calls sent and not yet mined, in their order
    mined,       \* calls that had their effect
    status,      \* dvod.status
    hash,        \* dvod.attestation_build_hash
    refresher,   \* operators whose hash the receiver contract may write
    reporting,   \* operators for which a workflow's report is under way
    build,       \* what the relay runs
    report,      \* an attestation report made and not yet submitted
    verdict,     \* the report an operator was revoked for
    checks       \* how many reports were made

admin     == <<script, runs, stopped, overlapped, pool, mined>>
workflow  == <<refresher, reporting>>
monitor   == <<build, report, checks>>
vars == <<admin, status, hash, workflow, monitor, verdict>>

----------------------------------------------------------------------------
(* buildRegisterOperatorCalls: the ten calls by their place in its list.   *)
(* 2 and 3 write the endpoint and the tiers, 5 the payout address; 7 and 8 *)
(* give the operational key the roles for endpoint and tiers.              *)

Calls == 1..10
Register == 1
SetHash == 4

\* A mutant: listed before the record is written.
SetActiveEarly == 2

SetActive == 6

AuthorizeHash == 9
AuthorizeWatchdog == 10

Complete(o)  == 1..5 \subseteq mined[o]
Revocable(o) == AuthorizeWatchdog \in mined[o]

Reports == [build : Builds, matched : BOOLEAN, changed : BOOLEAN]

Init ==
    /\ script = [o \in Operators |-> 0]
    /\ runs = [o \in Operators |-> 0]
    /\ stopped = {}
    /\ overlapped = {}
    /\ pool = [o \in Operators |-> <<>>]
    /\ mined = [o \in Operators |-> {}]
    /\ status = [o \in Operators |-> None]
    /\ hash = [o \in Operators |-> None]
    /\ refresher = {}
    /\ reporting = {}
    /\ build \in [Operators -> Builds]
    /\ report = [o \in Operators |-> None]
    /\ verdict = [o \in Operators |-> None]
    /\ checks = [o \in Operators |-> 0]

----------------------------------------------------------------------------
(* The script.                                                             *)

RunScript(o) ==
    /\ script[o] = 0
    /\ runs[o] < MaxRuns
    /\ runs' = [runs EXCEPT ![o] = @ + 1]
    /\ script' = [script EXCEPT ![o] = 1]
    /\ overlapped' = IF pool[o] = <<>> THEN overlapped
                     ELSE overlapped \cup {o}
    /\ UNCHANGED <<stopped, pool, mined, status, hash, workflow, monitor,
                   verdict>>

\* A mutant: the list ends one call early.
SendCallShort(o) ==
    LET c == script[o] IN
    /\ c # 0
    /\ ~(c = Register /\ Register \in mined[o])
    /\ pool' = [pool EXCEPT ![o] = Append(@, c)]
    /\ script' = [script EXCEPT ![o] = IF c = 9 THEN 0 ELSE c + 1]
    /\ UNCHANGED <<runs, stopped, overlapped, mined, status, hash, workflow,
                   monitor, verdict>>

\* A mutant: the list goes on past its end.
SendCallPast(o) ==
    /\ script[o] # 0
    /\ ~(script[o] = Register /\ Register \in mined[o])
    /\ pool' = [pool EXCEPT ![o] = Append(@, script[o])]
    /\ script' = [script EXCEPT ![o] = @ + 1]
    /\ UNCHANGED <<runs, stopped, overlapped, mined, status, hash, workflow,
                   monitor, verdict>>

\* A mutant: the calls are sent without an estimate.
SendCallUnestimated(o) ==
    LET c == script[o] IN
    /\ c # 0
    /\ pool' = [pool EXCEPT ![o] = Append(@, c)]
    /\ script' = [script EXCEPT ![o] = IF c = 10 THEN 0 ELSE c + 1]
    /\ UNCHANGED <<runs, stopped, overlapped, mined, status, hash, workflow,
                   monitor, verdict>>

\* The wallet estimates a call before it sends it, and the registry refuses a
\* name it already has: then sendTransaction throws.
SendCall(o) ==
    LET c == script[o] IN
    /\ c # 0
    /\ ~(c = Register /\ Register \in mined[o])
    /\ pool' = [pool EXCEPT ![o] = Append(@, c)]
    /\ script' = [script EXCEPT ![o] = IF c = 10 THEN 0 ELSE c + 1]
    /\ UNCHANGED <<runs, stopped, overlapped, mined, status, hash, workflow,
                   monitor, verdict>>

\* sendTransaction throws, for this or for a failure of the RPC, or the
\* script is interrupted: what was sent stays sent.
ScriptStops(o) ==
    /\ script[o] # 0
    /\ script' = [script EXCEPT ![o] = 0]
    /\ stopped' = stopped \cup {o}
    /\ UNCHANGED <<runs, overlapped, pool, mined, status, hash, workflow,
                   monitor, verdict>>

\* Whoever writes the hash, a report made before is now about another one.
WriteHash(o, h) ==
    /\ hash' = [hash EXCEPT ![o] = h]
    /\ report' = IF report[o] = None \/ h = hash[o] THEN report
                 ELSE [report EXCEPT ![o].changed = TRUE]
    /\ UNCHANGED <<build, checks>>

\* The first call in the pool is mined.  The admin holds the root roles, so
\* only a second registration of a name reverts, which changes nothing: it
\* is in "mined" already.
MineCall(o) ==
    /\ pool[o] # <<>>
    /\ LET c == Head(pool[o]) IN
       /\ mined' = [mined EXCEPT ![o] = @ \cup {c}]
       /\ status' = IF c = SetActive THEN [status EXCEPT ![o] = "active"]
                    ELSE status
       /\ IF c = SetHash THEN WriteHash(o, StubBuild)
          ELSE UNCHANGED <<hash, monitor>>
    /\ pool' = [pool EXCEPT ![o] = Tail(@)]
    /\ UNCHANGED <<script, runs, stopped, overlapped, workflow, verdict>>

----------------------------------------------------------------------------
(* The other writers of the hash.                                          *)

\* The operational key publishes another build of its software.
PublishBuild(o) ==
    /\ AuthorizeHash \in mined[o]
    /\ \E b \in Builds : WriteHash(o, b)
    /\ UNCHANGED <<admin, status, workflow, verdict>>

\* The admin lets the receiver write an operator's hash.
AuthorizeReceiver(o) ==
    /\ refresher' = refresher \cup {o}
    /\ UNCHANGED <<admin, status, hash, reporting, monitor, verdict>>

\* The workflow's report: the same hash each time.
CronTrigger(o) ==
    /\ reporting' = reporting \cup {o}
    /\ UNCHANGED <<admin, status, hash, refresher, monitor, verdict>>

\* The forwarder delivers it; without the role the write reverts.
OnReport(o) ==
    /\ o \in reporting
    /\ reporting' = reporting \ {o}
    /\ IF o \in refresher THEN WriteHash(o, FreshBuild)
       ELSE UNCHANGED <<hash, monitor>>
    /\ UNCHANGED <<admin, status, refresher, verdict>>

----------------------------------------------------------------------------
(* Revocation.                                                             *)

\* _revoke: nothing for one already revoked; the resolver refuses the write
\* while the watchdog has no role for it, and the transaction reverts.
Revoke(o, cause) ==
    IF status[o] = "revoked" THEN UNCHANGED <<status, verdict>>
    ELSE /\ Revocable(o)
         /\ status' = [status EXCEPT ![o] = "revoked"]
         /\ verdict' = [verdict EXCEPT ![o] = cause]

AdminRevoke(o) ==
    /\ Revoke(o, None)
    /\ UNCHANGED <<admin, hash, workflow, monitor>>

\* The relay is started with another build.
Deploy(o) ==
    /\ \E b \in Builds : build' = [build EXCEPT ![o] = b]
    /\ UNCHANGED <<admin, status, hash, workflow, report, checks, verdict>>

\* Somebody makes a report of what the relay runs.
Attest(o) ==
    /\ report[o] = None
    /\ checks[o] < MaxChecks
    /\ checks' = [checks EXCEPT ![o] = @ + 1]
    /\ report' = [report EXCEPT ![o] = [build   |-> build[o],
                                        matched |-> build[o] = hash[o],
                                        changed |-> FALSE]]
    /\ UNCHANGED <<admin, status, hash, workflow, build, verdict>>

\* A mutant: the report is not compared with the published hash.
SubmitUncompared(o) ==
    /\ report[o] # None
    /\ hash[o] # None
    /\ report' = [report EXCEPT ![o] = None]
    /\ Revoke(o, report[o])
    /\ UNCHANGED <<admin, hash, workflow, build, checks>>

\* Without a published hash there is nothing to decode and the call reverts.
SubmitAttestationCheck(o) ==
    /\ report[o] # None
    /\ hash[o] # None
    /\ report' = [report EXCEPT ![o] = None]
    /\ IF report[o].build = hash[o] THEN UNCHANGED <<status, verdict>>
       ELSE Revoke(o, report[o])
    /\ UNCHANGED <<admin, hash, workflow, build, checks>>

----------------------------------------------------------------------------
Step(o) ==
    \/ RunScript(o) \/ SendCall(o) \/ ScriptStops(o) \/ MineCall(o)
    \/ PublishBuild(o) \/ AuthorizeReceiver(o) \/ CronTrigger(o) \/ OnReport(o)
    \/ AdminRevoke(o) \/ Deploy(o) \/ Attest(o) \/ SubmitAttestationCheck(o)

Next == \E o \in Operators : Step(o)

\* The script's loop goes on and what is sent is mined.
Fairness == \A o \in Operators : WF_vars(SendCall(o)) /\ WF_vars(MineCall(o))

Spec == Init /\ [][Next]_vars /\ Fairness

----------------------------------------------------------------------------
\* The type of every variable.
TypeOK ==
    /\ script \in [Operators -> 0..10]
    /\ runs \in [Operators -> 0..MaxRuns]
    /\ stopped \in SUBSET Operators
    /\ overlapped \in SUBSET Operators
    /\ pool \in [Operators -> Seq(Calls)]
    /\ mined \in [Operators -> SUBSET Calls]
    /\ status \in [Operators -> {None, "active", "revoked"}]
    /\ hash \in [Operators -> Builds \cup {None}]
    /\ refresher \in SUBSET Operators
    /\ reporting \in SUBSET Operators
    /\ build \in [Operators -> Builds]
    /\ report \in [Operators -> Reports \cup {None}]
    /\ verdict \in [Operators -> Reports \cup {None}]
    /\ checks \in [Operators -> 0..MaxChecks]

\* An operator with a status has the whole record that the directory parses
\* (capability-record.ts 71-104), wherever a run of the script stopped: the
\* status is the last field written, and only what was registered is revoked.
ListedIsComplete ==
    \A o \in Operators : status[o] # None => Complete(o) /\ hash[o] # None

\* A revocation is for good (WatchdogRevoker.sol 7-8): the registration, which
\* writes the status too, does not bring back an operator, unless it was
\* started again while its calls from before were still pending.
RevokedIsFinal ==
    [][\A o \in Operators \ overlapped :
          status[o] = "revoked" => status'[o] = "revoked"]_vars

\* A relay that ran the published build when a report of it was made is not
\* revoked for that report (WatchdogRevoker.sol 41-44), unless the published
\* hash was changed while the report was on its way.
MatchingReportRevokesNobody ==
    \A o \in Operators :
        verdict[o] # None => ~verdict[o].matched \/ verdict[o].changed

\* Unless the script stops, an operator that is listed is one that the
\* watchdog can revoke in the end (capability-record.ts 129-134).
ListedBecomesRevocable ==
    \A o \in Operators :
        status[o] = "active" ~> (Revocable(o) \/ o \in stopped)
=============================================================================
