\* A test goes on after CreateMCP has timed out.
CONSTANTS
  c1 = c1
  c11 = c11
  c2 = c2
  NoCluster = noCluster
  MCPs = {mcp1, mcp2}
  Clusters = {c1, c11, c2}
  Listing <- MCListing
  StartsWith <- MCStartsWith
  MaxCalls = 3
  Faults = {"timeout"}
SPECIFICATION Spec
INVARIANTS
  NoPanic
