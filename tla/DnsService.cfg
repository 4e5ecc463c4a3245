\* Calls fail and waits expire; a host alias is added before or after Deploy.
CONSTANTS
  MaxDeploys = 2
  Others = {onboarding}
  AliasCalls = {alias}
  Faults = {"api", "timeout"}
SPECIFICATION Spec
INVARIANTS
  TypeOK
  SuccessMeansAsked
  NeverAsksTooEarly
PROPERTIES
  EventuallyAsked
  DeployReturns
  ImplementsDnsDeployer
