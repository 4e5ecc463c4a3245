\* A restart comes after its call has timed out.
CONSTANTS
  alias1 = alias1
  alias2 = alias2
  nameserver1 = nameserver1
  nameserver2 = nameserver2
  host1 = host1
  host2 = host2
  ip1 = ip1
  NoValue = noValue
  Calls = {alias1, alias2}
  AliasCalls = {alias1, alias2}
  ValueOf <- MCTwoAliases
  Faults = {"slow"}
SPECIFICATION Spec
PROPERTIES
  SuccessMeansRestarted
