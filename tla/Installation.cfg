\* Any combination of failing calls, lost answers and waits that expire.
CONSTANTS
  d1 = d1
  d2 = d2
  d3 = d3
  Types = {"Ready", "Synced"}
  Statuses = {"True", "False"}
  NoStatus = noStatus
  Documents <- MCDocuments
  Unknown = {d2}
  Histories <- MCHistories
  MaxErrors = 2
  Faults = {"api", "lost", "timeout"}
SPECIFICATION Spec
INVARIANTS
  TypeOK
PROPERTIES
  ReadyMeansReady
  RetriesSucceed
  InstallReturns
  ImplementsProvisioning
