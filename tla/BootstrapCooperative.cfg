\* No faults: the setup succeeds.
CONSTANTS
  kind = kind
  gardener = gardener
  gateway = gateway
  dns = dns
  crossplane = crossplane
  flux = flux
  onboarding = onboarding
  mcp = mcp
  oc = oc
  mc = mc
  Operator = operator
  PlatformCluster = platformCluster
  Kind = kind
  ClusterProviders <- MCKindOnly
  PlatformServices <- MCTwoServices
  ServiceProviders <- MCServiceProviders
  Extensions <- MCExtensions
  Requests = {onboarding, mcp}
  Clusters = {oc}
  ClusterOf <- MCSharedCluster
  Owned = {}
  LocalImages = {operator, crossplane}
  WithConfigs = {gateway}
  WithOpts = {kind, gateway, crossplane, onboarding, mcp}
  Faults = {}
SPECIFICATION CooperativeSpec
PROPERTIES
  TestsEventuallyRun
