--------------------------- MODULE MC_Credentials ---------------------------
(* Three leases and two keys: enough for a revocation to fail between two   *)
(* that succeed, and for a failed issuance after successful ones.  Two     *)
(* notification channels, so one Send can fail while the other succeeds; *)
(* no ReportingSpec (the defaults), one that silences failures, and one   *)
(* that reports successes.  A tailscale declaration, whose sidecar may   *)
(* or may not answer, and a type the manager does not know; three          *)
(* endpoints, one of whose URLs has no host left to dial.                  *)
EXTENDS Credentials

CONSTANTS l1, l2, l3, k1, k2, NoSpec, NoConn

MCLeaseIds == {l1, l2, l3}
MCKeyIds == {k1, k2}

\* a static token, a k8s auth role, both, or neither
MCAuthConfigs == [token : BOOLEAN, role : BOOLEAN]

MCChannels == {"ops", "tg"}

MCReportings ==
  {[onSuccess |-> "silent", onFailure |-> "silent", onFinding |-> "notify"],
   [onSuccess |-> "log", onFailure |-> "escalate", onFinding |-> "silent"]}

MCConns == {[type |-> "tailscale"], [type |-> "wireguard"]}

MCEndpoints ==
  [api |-> <<"https://", "api.example.com", "/", "v1">>,
   bastion |-> <<"ssh://", "bastion", ":", "2222">>,
   broken |-> <<"http://", "/", "health">>]
CT == INSTANCE ConnectivityTests WITH NoConnectivity <- NoConn

\* the package's tests are a constant check, stated in the initial state
Unstarted == leases = <<>> /\ sshKeys = <<>> /\ phase = "precheck"

\* The connectivity package's unit tests hold of the model of
\* CheckHealth, extractHostPort, CheckEndpoints and PreRunCheck
\* (ConnectivityTests!ConnectivityMatchesTests).
ConnectivityMatchesTests == Unstarted => CT!ConnectivityMatchesTests
=============================================================================
