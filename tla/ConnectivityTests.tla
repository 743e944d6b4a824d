-------------------------- MODULE ConnectivityTests -------------------------
(***************************************************************************)
(* The connectivity package's unit tests as reference cases for the        *)
(* Connectivity model.  The tests run with no sidecar listening, so the    *)
(* sidecar probe answers "none", and the one endpoint they dial is a       *)
(* TEST-NET address, so its dial fails.  A nil spec is NoConnectivity.     *)
(***************************************************************************)
EXTENDS Sequences

CONSTANT NoConnectivity

Conn == INSTANCE Connectivity

\* the sidecar in the test environment: neither the TCP API nor the socket
NoSidecar == "none"

\* TestCheckHealth_*: a spec and the Type and Ready the test wants (Type
\* "any" where the test does not look at it)
HealthCases ==
  <<[spec |-> NoConnectivity, type |-> "direct", ready |-> TRUE],
   [spec |-> [type |-> "direct"], type |-> "direct", ready |-> TRUE],
   [spec |-> [type |-> "quantum-entanglement"], type |-> "any", ready |-> FALSE],
   [spec |-> [type |-> "headscale"], type |-> "headscale", ready |-> FALSE],
   [spec |-> [type |-> "tailscale"], type |-> "any", ready |-> FALSE]>>

\* TestExtractHostPort's table and TestExtractHostPort_BadURL (whose port
\* is not checked: "any")
HostPortCases ==
  <<[url |-> <<"https://", "grafana.monitoring", ":", "3000">>,
    host |-> <<"grafana.monitoring">>, port |-> <<"3000">>],
   [url |-> <<"http://", "prometheus.monitoring", ":", "9090">>,
    host |-> <<"prometheus.monitoring">>, port |-> <<"9090">>],
   [url |-> <<"https://", "api.example.com">>,
    host |-> <<"api.example.com">>, port |-> <<"443">>],
   [url |-> <<"http://", "internal-service">>,
    host |-> <<"internal-service">>, port |-> <<"80">>],
   [url |-> <<"ssh://", "centos7-proxy-01">>,
    host |-> <<"centos7-proxy-01">>, port |-> <<"22">>],
   [url |-> <<"postgres.db-system", ":", "5432">>,
    host |-> <<"postgres.db-system">>, port |-> <<"5432">>],
   [url |-> <<"10.20.5.100", ":", "3306">>,
    host |-> <<"10.20.5.100">>, port |-> <<"3306">>],
   [url |-> <<"https://", "grafana.lab.k-dev.uk", "/", "d", "/", "abc123">>,
    host |-> <<"grafana.lab.k-dev.uk">>, port |-> <<"443">>],
   [url |-> <<"tcp://", "rabbitmq.messaging", ":", "5672">>,
    host |-> <<"rabbitmq.messaging">>, port |-> <<"5672">>],
   [url |-> <<>>, host |-> <<>>, port |-> "any"]>>

\* TestCheckEndpoints_Unreachable: http://192.0.2.1:9999, whose dial fails
UnreachableEndpoints == [nonexistent |-> <<"http://", "192.0.2.1", ":", "9999">>]

\* Every test of the package holds of the model: CheckHealth's Type and
\* Ready, extractHostPort's host and port, an unreachable endpoint reported
\* with an error, an empty endpoint map giving no results, and PreRunCheck
\* passing with no spec and failing on a headscale spec without sidecar.
ConnectivityMatchesTests ==
  /\ \A i \in DOMAIN HealthCases :
       LET t == HealthCases[i]
           got == Conn!CheckHealth(t.spec, NoSidecar)
       IN /\ got.ready = t.ready
          /\ t.type # "any" => got.type = t.type
  /\ \A i \in DOMAIN HostPortCases :
       LET t == HostPortCases[i]
           got == Conn!ExtractHostPort(t.url)
       IN /\ got.host = t.host
          /\ t.port # "any" => got.port = t.port
  /\ LET r == Conn!CheckEndpoints(UnreachableEndpoints, [n \in {"nonexistent"} |-> FALSE])
     IN /\ "nonexistent" \in DOMAIN r
        /\ ~r["nonexistent"].reachable
        /\ r["nonexistent"].err # "none"
  /\ DOMAIN Conn!CheckEndpoints(<<>>, <<>>) = {}
  /\ Conn!PreRunCheck(NoConnectivity, NoSidecar, <<>>, <<>>) = "ok"
  /\ Conn!PreRunCheck([type |-> "headscale"], NoSidecar, <<>>, <<>>) = "error"
=============================================================================
