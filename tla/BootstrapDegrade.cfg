\* The first cluster provider is not kind, components lose their readiness, an MCP is left over, its request shares a cluster.
CONSTANTS
  kind = kind
  gardener = gardener
  gateway = gateway
  dns = dns
  crossplane = crossplane
  flux = flux
  onboarding = onboarding
  mcp = mcp
  oc = oc
  mc = mc
  Operator = operator
  PlatformCluster = platformCluster
  Kind = kind
  ClusterProviders <- MCKindSecond
  PlatformServices <- MCNoService
  ServiceProviders <- MCServiceProviders
  Extensions <- MCExtensions
  Requests = {onboarding, mcp}
  Clusters = {oc}
  ClusterOf <- MCSharedCluster
  Owned = {mcp}
  LocalImages = {}
  WithConfigs = {}
  WithOpts = {kind, crossplane}
  Faults = {"api", "timeout", "degrade"}
SPECIFICATION Spec
INVARIANTS
  ProvidersOutliveRequests
PROPERTIES
  CleanupAlwaysEnds
