\* Any combination of calls that fail, waits that expire, lost answers and late addresses.
CONSTANTS
  MaxDeploys = 2
  Others = {onboarding, mcp, workload}
  Faults = {"api", "timeout", "lost", "late"}
SPECIFICATION Spec
INVARIANTS
  TypeOK
  SuccessMeansWired
  SameCluster
PROPERTIES
  NameserverLast
  DeployReturns
  DeploySucceeds
