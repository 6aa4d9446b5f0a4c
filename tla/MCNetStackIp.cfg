CONSTANTS
  TickMod = 6
  GenMod = 3
  DhcpRetry = 2
  DhcpTimeout = 2
  DnsTimeout = 1
  SynEvery = 2
  SynRetries = 2
  ConnectTicks = 3
  HttpTimeout = 2
  IpModes = {"Slirp", "Dhcp", "Static"}
  Schemes = {"http"}
  StaticAddrs <- IpStaticAddrs
  StaticTag <- IpStaticTag
  Leases = {"lease"}
  MaxFetches = 1
  MaxReconfigs = 1
  MaxSegments = 0
SPECIFICATION FairSpec
INVARIANTS
  GatewayMacIsCurrent
  DhcpHoldsStack
  AddressesFollowSettings
PROPERTIES
  DhcpEnds
  ImplementsLifecycle
