CONSTANTS
  TickMod = 6
  GenMod = 3
  DhcpRetry = 2
  DhcpTimeout = 2
  DnsTimeout = 1
  SynEvery = 2
  SynRetries = 2
  ConnectTicks = 3
  HttpTimeout = 2
  IpModes = {"Slirp"}
  Schemes = {"http", "https"}
  StaticAddrs <- MCStaticAddrs
  StaticTag <- MCStaticTag
  Leases = {"lease"}
  MaxFetches = 2
  MaxReconfigs = 0
  MaxSegments = 1
SPECIFICATION FairSpec
INVARIANTS
  TypeOK
  FetchStagesOrdered
PROPERTIES
  SettlingMovesGen
  ImplementsLifecycle
  FetchSettles
  ErrorIsShown
