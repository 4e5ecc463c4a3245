\* Is the deletion of a platform service waited for?
CONSTANTS
  kind = kind
  gardener = gardener
  gateway = gateway
  dns = dns
  crossplane = crossplane
  flux = flux
  onboarding = onboarding
  mcp = mcp
  oc = oc
  mc = mc
  Operator = operator
  PlatformCluster = platformCluster
  Kind = kind
  ClusterProviders <- MCKindOnly
  PlatformServices <- MCOneService
  ServiceProviders <- MCServiceProviders
  Extensions <- MCExtensions
  Requests = {onboarding, mcp}
  Clusters = {oc, mc}
  ClusterOf <- MCOwnClusters
  Owned = {}
  LocalImages = {operator, crossplane}
  WithConfigs = {gateway}
  WithOpts = {kind, gateway, crossplane, onboarding, mcp}
  Faults = {}
SPECIFICATION Spec
INVARIANTS
  PlatformServiceDeletionAwaited
