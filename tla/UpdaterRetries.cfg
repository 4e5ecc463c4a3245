\* Calls repeat each other; the docker CLI fails, probes fail, outages are missed,
\* the kubelet is slow, in any combination.
CONSTANTS
  alias1 = alias1
  alias2 = alias2
  nameserver1 = nameserver1
  nameserver2 = nameserver2
  host1 = host1
  host2 = host2
  ip1 = ip1
  NoValue = noValue
  Calls = {alias1, alias2, nameserver1, nameserver2}
  AliasCalls = {alias1, alias2}
  ValueOf <- MCRetries
  Faults = {"docker", "probe", "missed", "slow"}
SPECIFICATION Spec
INVARIANTS
  TypeOK
  NoAliasLost
  SucceedsIffChanged
PROPERTIES
  SuccessMeansServed
  ImplementsManifestEdits
  CallsReturn
