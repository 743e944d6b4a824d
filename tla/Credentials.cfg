CONSTANTS
  l1 = l1  l2 = l2  l3 = l3  k1 = k1  k2 = k2
  LeaseIds <- MCLeaseIds
  KeyIds <- MCKeyIds
  AuthConfigs <- MCAuthConfigs
  NoSpec = NoSpec
  NoReporting <- NoSpec
  Channels <- MCChannels
  Reportings <- MCReportings
  NoConn = NoConn
  NoConnectivity <- NoConn
  Conns <- MCConns
  Endpoints <- MCEndpoints
SPECIFICATION FairSpec
INVARIANTS TypeOK CleanupContract RunEndReported ConnectivityMatchesTests
PROPERTIES CleanupChainCompletes
