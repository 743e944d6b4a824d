---------------------------- MODULE Connectivity ----------------------------
(***************************************************************************)
(* internal/connectivity: the pre-run check of the mesh VPN sidecar and of *)
(* the environment's endpoints.  What the network answers is an input: a  *)
(* sidecar is reachable over its TCP local API, its Unix socket or not at  *)
(* all, and each endpoint's TCP dial succeeds or fails.  A URL is parsed   *)
(* as extractHostPort parses it, over tokens rather than characters.       *)
(***************************************************************************)

EXTENDS Sequences, SequencesExt, FiniteSetsExt

CONSTANTS
  NoConnectivity  \* model value: the environment declares no ConnectivitySpec

\* ConnectivityStatus and EndpointStatus, without the human-readable text
Status(type, ready) == [type |-> type, ready |-> ready]
EndpointStatus(reachable, err) == [reachable |-> reachable, err |-> err]

\* checkTailscaleHealth: the local API over TCP, else the Unix socket
CheckTailscaleHealth(spec, sidecar) ==
  Status(spec.type, sidecar \in {"tcp", "unix"})

\* CheckHealth: no spec or "direct" is ready; headscale and tailscale ask
\* the sidecar; any other type is not ready
CheckHealth(spec, sidecar) ==
  CASE spec = NoConnectivity -> Status("direct", TRUE)
    [] spec.type = "direct" -> Status("direct", TRUE)
    [] spec.type \in {"headscale", "tailscale"} -> CheckTailscaleHealth(spec, sidecar)
    [] OTHER -> Status(spec.type, FALSE)

\* A URL is a sequence of tokens: the scheme prefixes below, the
\* separators ":" and "/", and names (hosts, ports, path segments) that
\* hold neither.  A host or a port is the sequence of tokens it spans;
\* the empty string is <<>>.
SchemePrefixes == <<"https://", "http://", "tcp://", "ssh://">>

\* strings.TrimPrefix(u, p) for each prefix in turn
TrimPrefixes(url) ==
  FoldLeft(LAMBDA u, p : IF u # <<>> /\ Head(u) = p THEN Tail(u) ELSE u, url, SchemePrefixes)

\* u[:strings.Index(u, "/")] when u holds a "/"
StripPath(u) ==
  IF \E i \in 1..Len(u) : u[i] = "/"
  THEN SubSeq(u, 1, Min({i \in 1..Len(u) : u[i] = "/"}) - 1)
  ELSE u

\* the positions of the colons in u
Colons(u) == {i \in 1..Len(u) : u[i] = ":"}

ExtractHostPortKeepPath(url) == \* mutant: the path is not stripped before the split
  LET u == TrimPrefixes(url)
  IN IF Cardinality(Colons(u)) = 1
     THEN LET c == CHOOSE i \in Colons(u) : TRUE
          IN [host |-> SubSeq(u, 1, c - 1), port |-> SubSeq(u, c + 1, Len(u))]
     ELSE [host |-> u, port |-> <<"443">>]

\* extractHostPort: net.SplitHostPort succeeds on exactly one colon;
\* otherwise the whole remainder is the host and the port is the default
\* of the original URL's prefix (443 for https and anything else, 80 for
\* http, 22 for ssh)
ExtractHostPort(url) ==
  LET u == StripPath(TrimPrefixes(url))
  IN IF Cardinality(Colons(u)) = 1
     THEN LET c == CHOOSE i \in Colons(u) : TRUE
          IN [host |-> SubSeq(u, 1, c - 1), port |-> SubSeq(u, c + 1, Len(u))]
     ELSE [host |-> u,
           port |-> CASE url # <<>> /\ Head(url) = "http://" -> <<"80">>
                      [] url # <<>> /\ Head(url) = "ssh://" -> <<"22">>
                      [] OTHER -> <<"443">>]

\* checkEndpoint: no host is an error without a dial; otherwise the TCP
\* dial to host:port decides
CheckEndpoint(url, dialOK) ==
  IF ExtractHostPort(url).host = <<>> THEN EndpointStatus(FALSE, "parse")
  ELSE IF dialOK THEN EndpointStatus(TRUE, "none")
  ELSE EndpointStatus(FALSE, "dial")

\* CheckEndpoints: every endpoint of the environment is checked
CheckEndpoints(eps, dial) == [n \in DOMAIN eps |-> CheckEndpoint(eps[n], dial[n])]

\* PreRunCheck: an error when the layer is not ready; unreachable
\* endpoints are only logged
PreRunCheck(spec, sidecar, eps, dial) ==
  IF ~CheckHealth(spec, sidecar).ready THEN "error" ELSE "ok"
=============================================================================
