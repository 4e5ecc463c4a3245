\* Nothing fails, or calls fail and waits expire; a test makes up to four calls.
CONSTANTS
  c1 = c1
  c11 = c11
  c2 = c2
  NoCluster = noCluster
  MCPs = {mcp1, mcp2}
  Clusters = {c1, c11, c2}
  Listing <- MCListing
  StartsWith <- MCStartsWith
  MaxCalls = 4
  Faults = {"api", "timeout"}
SPECIFICATION Spec
INVARIANTS
  TypeOK
PROPERTIES
  UsableMCPReachable
  DeletesOwnRequests
  ImplementsUsable
  CallsReturn
  CreateMCPSucceeds
  DeleteClusterSucceeds
