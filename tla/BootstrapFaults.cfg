\* Calls fail and waits expire at any point.
CONSTANTS
  kind = kind
  gardener = gardener
  gateway = gateway
  dns = dns
  crossplane = crossplane
  flux = flux
  onboarding = onboarding
  mcp = mcp
  oc = oc
  mc = mc
  Operator = operator
  PlatformCluster = platformCluster
  Kind = kind
  ClusterProviders <- MCKindOnly
  PlatformServices <- MCOneService
  ServiceProviders <- MCServiceProviders
  Extensions <- MCExtensions
  Requests = {onboarding, mcp}
  Clusters = {oc, mc}
  ClusterOf <- MCOwnClusters
  Owned = {}
  LocalImages = {operator, crossplane}
  WithConfigs = {gateway}
  WithOpts = {kind, gateway, crossplane, onboarding, mcp}
  Faults = {"api", "timeout"}
SPECIFICATION Spec
INVARIANTS
  TypeOK
  TestsSeeReadyEnvironment
  ImagesBeforeObjects
  SilentMeansClean
PROPERTIES
  InstallsBottomUp
  CleanupAlwaysEnds
  ImplementsLifecycle
