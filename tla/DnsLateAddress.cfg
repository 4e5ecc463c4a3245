\* A load balancer assigns addresses after they are looked up.
CONSTANTS
  MaxDeploys = 1
  Others = {onboarding, mcp}
  Faults = {"late"}
SPECIFICATION Spec
PROPERTIES
  DeployWaitsForAddresses
