---------------------------- MODULE Credentials ----------------------------
(***************************************************************************)
(* The per-run vault.CredentialManager: database leases and SSH keys are    *)
(* issued at run start and tracked; Cleanup at run end revokes every        *)
(* tracked lease (continuing past failures), zeroes every tracked key and   *)
(* clears both lists.  Vault's side is the state of each lease it issued;   *)
(* a lease it issued stays active until revoked or until its TTL expires.   *)
(* The manager's Client holds a token: a static one from its Config, or    *)
(* one Authenticate obtains by Kubernetes auth; nothing renews it.          *)
(* Before them the runner runs the pre-run connectivity check (module     *)
(* Connectivity), which is informational (spec 4.2 step 3).  After the     *)
(* credentials, the last link of the cleanup chain (spec 4.2     *)
(* step 7) reports the run's terminal phase through the Reporter (module  *)
(* Reporter) when the agent's ReportingSpec asks for it.                  *)
(***************************************************************************)
EXTENDS Integers, FiniteSets, Sequences, SequencesExt

CONSTANTS
  LeaseIds,    \* lease IDs Vault may hand out to this run
  KeyIds,      \* ephemeral ed25519 keys the run may generate
  AuthConfigs, \* Config values: [token: a static token is set, role: a k8s role is set]
  Channels,    \* the environment's registered notification channels
  NoReporting, \* model value: the agent has no ReportingSpec
  Reportings,  \* ReportingSpecs agents may declare
  NoConnectivity, \* model value: the environment has no ConnectivitySpec
  Conns,       \* ConnectivitySpecs an environment may declare
  Endpoints    \* the environment's endpoints: name -> URL

VARIABLES
  vault,    \* lease -> "none" | "active" | "revoked" | "expired" (Vault's view)
  leases,   \* CredentialManager.leases
  keys,     \* key -> "none" | "live" | "zeroed": the private key bytes
  sshKeys,  \* CredentialManager.sshKeys
  phase,    \* runner: "issuing" | "running" | "ending" | "done" (spec 4.2)
  errs,     \* leases named in the errors Cleanup returned
  tracked,  \* history: every lease ever appended to leases
  keysKept, \* history: every key ever appended to sshKeys
  auth,     \* the Client's Config
  token,    \* Client.token: "none" | "valid" | "expired"
  runPhase, \* the Run's phase: "Running" until the loop ends, then terminal
  findings, \* the run recorded findings
  reporting,  \* the agent's ReportingSpec, or NoReporting
  delivered,  \* reports the channels accepted: [ch, severity]
  notifyErrs, \* channels whose Send failed
  conn        \* what the pre-run check found: [ready, err, unreachable]

Rep == INSTANCE Reporter
Conn == INSTANCE Connectivity

runvars == <<runPhase, findings, conn>>
nvars == <<reporting, delivered, notifyErrs>>
vars == <<vault, leases, keys, sshKeys, phase, errs, tracked, keysKept, auth, token,
          runvars, nvars>>

----------------------------------------------------------------------------
(* The Vault client                                                        *)

\* Authenticate: a static token without a role is kept; with neither there
\* is an error; with a role the service-account token is read and posted
\* to the k8s auth login, any step of which may fail, and the returned
\* client token replaces the current one.  A failure is fatal to the run.
Authenticate ==
  /\ phase = "auth"
  /\ IF auth.token /\ ~auth.role
       THEN phase' = "issuing" /\ UNCHANGED <<token, runPhase>>
       ELSE IF ~auth.role
         THEN phase' = "ending" /\ runPhase' = "Failed" /\ UNCHANGED token
         ELSE \/ phase' = "issuing" /\ token' = "valid" /\ UNCHANGED runPhase
              \/ phase' = "ending" /\ runPhase' = "Failed" /\ UNCHANGED token
  /\ UNCHANGED <<nvars, findings, conn, vault, leases, keys, sshKeys, errs, tracked, keysKept, auth>>

\* Vault: the client token reaches the end of its TTL; the client never
\* renews it.
TokenExpires ==
  /\ token = "valid"
  /\ phase # "done"
  /\ token' = "expired"
  /\ UNCHANGED <<nvars, runvars, vault, leases, keys, sshKeys, phase, errs, tracked, keysKept, auth>>

\* doRequest sends X-Vault-Token only when the token is set; Vault answers
\* a missing or expired token with 403, a non-2xx status and an error.
Authorized == token = "valid"

----------------------------------------------------------------------------
(* Pre-run connectivity check (spec 4.2 step 3)                            *)

NoCheck == [ready |-> FALSE, err |-> "none", unreachable |-> FALSE]

\* The runner checks the environment's connectivity declaration and
\* endpoints against whatever the sidecar and the dials answer, keeps what
\* it found, and goes on to the credentials whatever the result.
PreRun ==
  /\ phase = "precheck"
  /\ \E spec \in Conns \cup {NoConnectivity}, sidecar \in {"tcp", "unix", "none"},
       dial \in [DOMAIN Endpoints -> BOOLEAN] :
       conn' = [ready |-> Conn!CheckHealth(spec, sidecar).ready,
                err |-> Conn!PreRunCheck(spec, sidecar, Endpoints, dial),
                unreachable |-> \E n \in DOMAIN Endpoints :
                                  ~Conn!CheckEndpoints(Endpoints, dial)[n].reachable]
  /\ phase' = "auth"
  /\ UNCHANGED <<vault, leases, keys, sshKeys, errs, tracked, keysKept, auth, token,
                 runPhase, findings, nvars>>

----------------------------------------------------------------------------
(* Issuance (spec 4.2 step 4); a failure is fatal to the run (spec 7).      *)

RequestDBCredentialsRetracked(l) == \* mutant: a lease already tracked is appended again
  /\ phase = "issuing"
  /\ vault[l] \in {"none", "active"}
  /\ vault' = [vault EXCEPT ![l] = "active"]
  /\ leases' = Append(leases, l)
  /\ tracked' = tracked \cup {l}
  /\ UNCHANGED <<nvars, runvars, keys, sshKeys, phase, errs, keysKept, auth, token>>

\* RequestDBCredentials: Vault issues the lease and the complete response
\* arrives; the non-empty LeaseID is appended to leases.
RequestDBCredentials(l) ==
  /\ phase = "issuing"
  /\ Authorized
  /\ vault[l] = "none"
  /\ vault' = [vault EXCEPT ![l] = "active"]
  /\ leases' = Append(leases, l)
  /\ tracked' = tracked \cup {l}
  /\ UNCHANGED <<nvars, runvars, keys, sshKeys, phase, errs, keysKept, auth, token>>

\* GetDatabaseCredentials fails after Vault created the lease: the response
\* lacks a username or password, or is lost to the request's deadline.  The
\* error returns before the append; the run fails.
RequestDBCredentialsFails(l) ==
  /\ phase = "issuing"
  /\ Authorized
  /\ vault[l] = "none"
  /\ vault' = [vault EXCEPT ![l] = "active"]
  /\ phase' = "ending" /\ runPhase' = "Failed"
  /\ UNCHANGED <<nvars, findings, conn, leases, keys, sshKeys, errs, tracked, keysKept, auth, token>>

\* GetDatabaseCredentials fails before Vault issues anything: the request
\* is refused (403 without a valid token) or does not reach Vault.
RequestDBCredentialsRefused ==
  /\ phase = "issuing"
  /\ phase' = "ending" /\ runPhase' = "Failed"
  /\ UNCHANGED <<nvars, findings, conn, vault, leases, keys, sshKeys, errs, tracked, keysKept, auth, token>>

\* RequestSSHCredentials: a key pair is generated and Vault signs the public
\* key; the private key is appended to sshKeys.
RequestSSHCredentials(k) ==
  /\ phase = "issuing"
  /\ Authorized
  /\ keys[k] = "none"
  /\ keys' = [keys EXCEPT ![k] = "live"]
  /\ sshKeys' = Append(sshKeys, k)
  /\ keysKept' = keysKept \cup {k}
  /\ UNCHANGED <<nvars, runvars, vault, leases, phase, errs, tracked, auth, token>>

\* SignSSHKey fails (a refused or failed request, or a response without a
\* signed key): the generated key is never tracked; the run fails.
RequestSSHCredentialsFails(k) ==
  /\ phase = "issuing"
  /\ keys[k] = "none"
  /\ keys' = [keys EXCEPT ![k] = "live"]
  /\ phase' = "ending" /\ runPhase' = "Failed"
  /\ UNCHANGED <<nvars, findings, conn, vault, leases, sshKeys, errs, tracked, keysKept, auth, token>>

\* All declared credentials were issued; the reasoning loop starts ...
StartLoop ==
  /\ phase = "issuing"
  /\ phase' = "running"
  /\ UNCHANGED <<nvars, runvars, vault, leases, keys, sshKeys, errs, tracked, keysKept, auth, token>>

\* ... and ends with some terminal phase.
EndLoop ==
  /\ phase = "running"
  /\ phase' = "ending"
  /\ runPhase' \in {"Succeeded", "Failed", "Escalated", "Blocked"}
  /\ findings' \in BOOLEAN
  /\ UNCHANGED <<nvars, conn, vault, leases, keys, sshKeys, errs, tracked, keysKept, auth, token>>

----------------------------------------------------------------------------
(* Cleanup                                                                 *)

\* Revoking the leases of `failed` fails; every other tracked lease is
\* revoked (RevokeLease on an expired lease changes nothing).  Without a
\* valid token every revocation is refused.
RevokeFailures ==
  {f \in SUBSET ToSet(leases) : ~Authorized => f = ToSet(leases)}

Revoked(failed) ==
  [l \in LeaseIds |-> IF l \in ToSet(leases) \ failed /\ vault[l] = "active"
                      THEN "revoked" ELSE vault[l]]

CleanupStopsOnError == \* mutant: the loop returns at the first failed revoke
  /\ phase = "ending"
  /\ \E n \in 0..Len(leases), fail \in BOOLEAN :
       LET done == ToSet(SubSeq(leases, 1, n))
           bad == IF fail /\ n < Len(leases) THEN {leases[n + 1]} ELSE {}
       IN /\ vault' = [l \in LeaseIds |-> IF l \in done /\ vault[l] = "active"
                                          THEN "revoked" ELSE vault[l]]
          /\ errs' = bad
          /\ n < Len(leases) => fail
  /\ leases' = <<>>
  /\ keys' = [k \in KeyIds |-> IF k \in ToSet(sshKeys) THEN "zeroed" ELSE keys[k]]
  /\ sshKeys' = <<>>
  /\ phase' = "notifying"
  /\ UNCHANGED <<nvars, runvars, tracked, keysKept, auth, token>>

CleanupRetriesRefused == \* mutant: revocations Vault refuses are retried until it accepts
  /\ phase = "ending"
  /\ \/ ~Authorized /\ leases # <<>> /\ UNCHANGED vars
     \/ /\ Authorized \/ leases = <<>>
        /\ \E failed \in RevokeFailures :
             /\ vault' = Revoked(failed)
             /\ errs' = failed
        /\ leases' = <<>>
        /\ keys' = [k \in KeyIds |-> IF k \in ToSet(sshKeys) THEN "zeroed" ELSE keys[k]]
        /\ sshKeys' = <<>>
        /\ phase' = "notifying"
        /\ UNCHANGED <<nvars, runvars, tracked, keysKept, auth, token>>

\* Cleanup: every tracked lease is revoked or its error collected, the
\* lease list is cleared either way, every tracked key is zeroed and the
\* key list cleared.
Cleanup ==
  /\ phase = "ending"
  /\ \E failed \in RevokeFailures :
       /\ vault' = Revoked(failed)
       /\ errs' = failed
  /\ leases' = <<>>
  /\ keys' = [k \in KeyIds |-> IF k \in ToSet(sshKeys) THEN "zeroed" ELSE keys[k]]
  /\ sshKeys' = <<>>
  /\ phase' = "notifying"
  /\ UNCHANGED <<nvars, runvars, tracked, keysKept, auth, token>>

\* Notifier dispatch, the last link of the cleanup chain: when
\* ShouldReport says so, the report built from the run goes to every
\* registered channel, any of whose Sends may fail; the errors are
\* collected and the terminal phase is left as it is.
Notify ==
  /\ phase = "notifying"
  /\ LET d == Rep!ShouldReport(reporting, runPhase, findings) IN
       IF d.send
         THEN \E failed \in SUBSET Channels :
                LET out == Rep!SendToAll(failed, Rep!Severity(runPhase)) IN
                  delivered' = out.delivered /\ notifyErrs' = out.errs
         ELSE UNCHANGED <<delivered, notifyErrs>>
  /\ phase' = "done"
  /\ UNCHANGED <<vault, leases, keys, sshKeys, errs, tracked, keysKept, auth, token,
                 runvars, reporting>>

\* Vault: a lease reaches the end of its TTL.
Expire(l) ==
  /\ vault[l] = "active"
  /\ vault' = [vault EXCEPT ![l] = "expired"]
  /\ UNCHANGED <<nvars, runvars, leases, keys, sshKeys, phase, errs, tracked, keysKept, auth, token>>

\* The run is over.
Finished ==
  /\ phase = "done"
  /\ UNCHANGED vars

----------------------------------------------------------------------------
Init ==
  /\ vault = [l \in LeaseIds |-> "none"]
  /\ leases = <<>>
  /\ keys = [k \in KeyIds |-> "none"]
  /\ sshKeys = <<>>
  /\ phase = "precheck" /\ conn = NoCheck
  /\ errs = {}
  /\ tracked = {}
  /\ keysKept = {}
  /\ auth \in AuthConfigs
  /\ token = IF auth.token THEN "valid" ELSE "none"
  /\ runPhase = "Running" /\ findings = FALSE
  /\ reporting \in Reportings \cup {NoReporting}
  /\ delivered = {} /\ notifyErrs = {}

Next ==
  \/ PreRun
  \/ Authenticate \/ TokenExpires \/ RequestDBCredentialsRefused
  \/ \E l \in LeaseIds : RequestDBCredentials(l) \/ RequestDBCredentialsFails(l) \/ Expire(l)
  \/ \E k \in KeyIds : RequestSSHCredentials(k) \/ RequestSSHCredentialsFails(k)
  \/ StartLoop
  \/ EndLoop
  \/ Cleanup
  \/ Notify
  \/ Finished

Spec == Init /\ [][Next]_vars

\* The runner is one goroutine running the steps of spec 4.2 in order; every
\* Vault and channel call it makes returns, at the latest at its context's
\* deadline, so a step that can be taken is eventually taken.
FairSpec == Spec /\ WF_vars(Next)

----------------------------------------------------------------------------
TypeOK ==
  /\ vault \in [LeaseIds -> {"none", "active", "revoked", "expired"}]
  /\ leases \in Seq(LeaseIds) /\ Len(leases) <= Cardinality(LeaseIds)
  /\ keys \in [KeyIds -> {"none", "live", "zeroed"}]
  /\ sshKeys \in Seq(KeyIds) /\ Len(sshKeys) <= Cardinality(KeyIds)
  /\ phase \in {"precheck", "auth", "issuing", "running", "ending", "notifying", "done"}
  /\ runPhase \in {"Running", "Succeeded", "Failed", "Escalated", "Blocked"}
  /\ reporting \in Reportings \cup {NoReporting} /\ Reportings \subseteq Rep!ReportingSpecs
  /\ delivered \subseteq [ch : Channels, severity : {"success", "failure", "escalation", "info"}]
  /\ notifyErrs \subseteq Channels
  /\ token \in {"none", "valid", "expired"}
  /\ conn \in [ready : BOOLEAN, err : {"none", "ok", "error"}, unreachable : BOOLEAN]
  /\ errs \subseteq LeaseIds
  /\ tracked \subseteq LeaseIds /\ keysKept \subseteq KeyIds

\* Spec 4.6: once Cleanup has returned, every lease the manager tracked is
\* revoked, expired, or named in a returned error (the loop continues past
\* failed revocations), and every tracked private key has been zeroed.
CleanupContract ==
  phase = "done" =>
    /\ \A l \in tracked : vault[l] \in {"revoked", "expired"} \/ l \in errs
    /\ \A k \in keysKept : keys[k] = "zeroed"

\* Spec 4.6: every lease issued to the run is tracked, so after Cleanup no
\* lease is left active unless its revocation error was reported.
NoSilentLeak ==
  phase = "done" => \A l \in LeaseIds : vault[l] = "active" => l \in errs

\* Spec 4.2 step 7 and 4.6: whatever fails (authentication, an issuance,
\* the token's TTL running out before Cleanup so that every revocation is
\* refused, a channel's Send), every run reaches the end of the cleanup
\* chain: Cleanup gives up on a refused revocation and reports it instead
\* of waiting for Vault, and the notifier runs after it.
CleanupChainCompletes == <>(phase = "done")

\* Spec 4.2 step 7: a run that ended Escalated or Blocked, or Failed under
\* the default reporting, is reported to every registered channel at the
\* matching severity, or the channel's failure is among the errors the
\* cleanup chain collected; nothing is dropped silently.
RunEndReported ==
  phase = "done" /\ (runPhase \in {"Escalated", "Blocked"}
                     \/ (runPhase = "Failed" /\ reporting = NoReporting)) =>
    \A c \in Channels :
      \/ [ch |-> c, severity |-> IF runPhase = "Failed" THEN "failure" ELSE "escalation"] \in delivered
      \/ c \in notifyErrs
=============================================================================
