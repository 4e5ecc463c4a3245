# Verification of openmcp-testing

openmcp-testing is a Go library for end-to-end tests of openMCP. It builds a
test environment on kind clusters (`pkg/setup`), helps the tests to create
control planes, find clusters and wait for conditions (`pkg/providers`,
`pkg/clusterutils`, `pkg/conditions`, `pkg/resources`), and takes the
environment down again. The library itself is sequential; what makes it hard is
everything it talks to: controllers that answer its requests at any time, API
servers and commands that fail or whose answers are lost, waits that expire, and
a caller that goes on after an error.

This directory holds TLA+ models of that behaviour, TLC configurations that
check them on small instances, and proofs that hold for all instances. Line
numbers refer to the files of the repository.

## Inventory

| Component | State | Operations | Must be right |
|---|---|---|---|
| Environment lifecycle, `setup/bootstrap.go` | the slices of `OpenMCPSetup`; the platform cluster and the objects on it | ten setup functions, two finish functions | tests only run in a complete environment; objects come bottom up, after their images; cleanup runs to its end, reports what it could not do, and removes cluster providers last |
| API objects, `resources/resources.go` | objects on an API server | create from template, file, directory; `DeleteObject` (get, delete, wait) | a missing object is no error when deleting; an existing one is no error when several are created; success means that all exist |
| Conditions, `conditions/conditions.go` | none | `Match`, `MatchList`, `Status` | a missing object is "not yet"; an empty list matches; the last condition of the type counts |
| Control planes, `providers/clusterprovider.go` | MCPs, ClusterRequests, Clusters | `CreateMCP`, `DeleteMCP`, `ClustersReady`, `DeleteCluster`, install and delete of cluster providers | an MCP created without error is usable; only what belongs to a cluster is deleted with it |
| Service providers, `providers/serviceprovider.go` | their objects | install, delete, `ImportServiceProviderAPIs`, `ImportDomainAPIs` | installed on top of platform services; imports go to the right cluster |
| Platform services, `platformservices/platformservice.go` | their objects and configs | install with retried import, delete | the import ends; deletion is awaited |
| Cluster access, `clusterutils/clusterutils.go` | none | `ConfigByPrefix`, `MCPConfig`, imports | the config is one of the right cluster, or there is an error |
| API server updater, `clusterutils/apiserver/updater.go` | the manifest in a kind container | `AddHostAlias`, `AddNameserver`, `waitForRestart` | nothing in the manifest is lost; success means that the API server runs with the change |
| DNS service, `setup/dns` | the "dns" cluster and its services, the DNS config | `Deploy` | on success etcd, CoreDNS and the API server are wired up, in this order |
| Extensions, `setup/extensions` | what an extension installs | `Install`, `RegisterSchemes` | installed before the tests |
| Utilities, `internal` | none | templates, conversion, temporary files | (not modelled) |

They interact by calls: `Bootstrap` registers functions with the e2e-framework,
which call the install and delete functions, which use resources and conditions.
Tests call `CreateExternalService` (`Deploy`, then `AddNameserver`),
`CreateMCP`, the imports, `MCPConfig` and `DeleteMCP`. All else is shared state:
objects on the API servers, changed by controllers while the library waits.

What is hard to test is listed in `PROJECT.json` under `hazards`, each at its
line, with the properties that are about it.

## Modules

| Module | Content |
|---|---|
| `Lifecycle` | abstract: components come up tier by tier, tests start when all are up, everything is taken down tier by tier |
| `Bootstrap` | the setup and finish functions call by call, and the controllers; implements `Lifecycle` |
| `MCBootstrap` | its instances for TLC |
| `BootstrapProofs`, `CleanupProofs`, `LifecycleProofs` | theorems about it |
| `Manifests` | the part of the API server's manifest that calls edit |
| `ManifestEdits` | abstract: each call edits the manifest in one step, at most once |
| `ApiServerUpdater` | calls of the Updater command by command, and the kubelet; implements `ManifestEdits` |
| `MCApiServerUpdater`, `ApiServerUpdaterProofs` | its instances and theorems |
| `DnsDeployer`, `DnsDeployerProofs` | `Deploy` call by call, repeated, and the controllers that answer it; theorems |
| `DnsService`, `DnsServiceProofs` | `DnsDeployer` composed with `ApiServerUpdater`: Deploy's last step is a call of the updater, tests call it too; implements `DnsDeployer` |
| `Conditions` | `checkCondition` over a list of conditions |
| `Provisioning` | abstract: a list of documents is created in order, success means that all exist |
| `Installation`, `MCInstallation`, `InstallationProofs` | `InstallPlatformService`, `InstallServiceProvider`, `ImportServiceProviderAPIs` and the FluxCD extension document by document; implements `Provisioning` |
| `UsableControlPlanes` | abstract: the control planes a test has got, each with a cluster of its own; imports go there |
| `ControlPlanes`, `MCControlPlanes`, `ControlPlanesProofs` | `CreateMCP`, `ImportDomainAPIs` (with `MCPConfig`), `DeleteMCP`, `DeleteCluster` in any order, and the controllers; implements `UsableControlPlanes` |

Definitions called "Variant with a bug" are not part of any specification. They
change one definition the way a mistake in the code would, and serve to show
that each property would notice.

### Bootstrap

The program counter is a registered function (`phase`), an index into the slice
that function loops over (`idx`) and the call it is about to make for that
element (`pc`). Each call to the API server is one action: `CreateObject`
(`resources.go:44-59`), `ImportConfigs` (`platformservice.go:54-72`),
`ObserveReady` (a poll that finds the condition true), and for a deletion
`GetObject`, `DeleteObject` and `ObserveDeleted` (`resources.go:20-32`), to which
the cleanup adds a second wait for each request (`bootstrap.go:121`). A call
that fails or a wait that expires ends the setup (`SetupFails`) but not the
cleanup (`DeleteFails`, `ListFails`, `DestroyFails`: the error goes into
`reported`, as it goes to the log). A call whose answer is lost may have had its
effect: the Create of a component, of the operator and of the platform Cluster
(`Creates`), and each Delete. A Create of an object that exists is an error
(`CallRefused`), except for the operator's manifests, which are created by
`createAndPopulateList` (`resources.go:81-88`). `VerifyEnvironment` needs all Clusters
*there are* to be ready.

The test run is one step, `TestsEnd`; before it, tests may delete requests, and
the operator may create some. `obj` has one entry per object, so objects of
different kinds must have different names here. They may have equal ones in the
code, where each kind is a resource of its own.

Abstracted: images, manifests and templates (only whether an image was loaded),
namespaces, the contents of a condition. `Create` of several manifests for the
operator is one step with its Deployment.

If the platform cluster could not be created the cleanup runs as well. Its calls then
ask `c.Client()` (`bootstrap.go:98, 114`) for a client of a cluster that is not there.
The models have such a call return an error, which is logged; whether the
e2e-framework's `Client()` panics instead is up to that framework, which is not
part of the repository. `CleanupAlwaysEnds` and `ImplementsLifecycle` rest on this.

### ApiServerUpdater

One action for each command: `GetStaticPod` (docker exec), `WriteToContainerFS`
(docker cp, which may fail before or after it has replaced the file), and the
two loops of `waitForRestart` (`SeesServerDown`, `ProbeFails`, `SeesServerUp`,
`TimesOut`). The kubelet reads the file, stops the API server if it runs another manifest, and
starts it. A call of the model runs once; a retry is another call with the same
value. Calls follow one another: the library starts none in the background. The
faults are separate because the answers differ. Those of a behaviour are chosen in
`Init` (`faults`, a subset of `Faults`), so that one run covers all of them and each
property names those it excludes.

An API server starts in more time than passes between two polls, unless
`"missed"` is among the faults. A wait expires when the kubelet is slow, when the
probes of the second loop fail, or when there is nothing (left) that would take
the server down.

### DnsDeployer

`step` runs through the calls of `Deploy`, `createCluster` and
`createPlatformServiceDNS`. The platform's controllers grant requests, create
the cluster, assign addresses and install CoreDNS in between. `Fails` is the
return of an error. An address is identified with its service, so that it can be
said whether the right one ended up in the config and in the API server.

What the platform is like is chosen in `Init`, once for a behaviour: which faults
there may be (`faults`, a subset of `Faults`), whether the fluxcd extension is
installed (`flux`), and whether a kind cluster of an earlier run has the same
prefix (`leftover`), whose services may have addresses. The properties refer to
these variables where they need to.

The guards of `GetLoadBalancerIP` and `Fails` make the time a load balancer takes
a fault of its own: without `"late"` and `"timeout"` the addresses are there when
they are looked up, and `Deploy` waits instead of failing. That is what lets a
property ask about other faults only.

`Deploy` is called up to `MaxDeploys` times, as tests may call
`CreateExternalService` again. A later call meets what the earlier ones have left:
creating a request or an access that exists is an error (`Creatable`), etcd, the
platform service and the config are kept as they are, the prefix is looked up anew.
`AddNameserver` is two steps here, the edit and the wait for the restart.

### DnsService

`D` and `U` are instances of `DnsDeployer` and `ApiServerUpdater`; their common
variable is the nameserver, `manifest.nameserver`. `Deploy` is what `D` does before its
last call. `AddNameserver` is a step of the updater's call whose value is the
address that `Deploy` has looked up, and `StepOf` maps where that call is to where
`Deploy` is; an error of the call is one of `Deploy` (`deployer.go:212-214`). Tests add
host aliases before `Deploy` or when it has returned, since they are sequential.
Controllers and kubelet run freely. Each `Deploy` is a call of its own, even with the
same address. What one part does to the other is in two invariants: no later Deploy loses the alias
of a test (`AliasesKept`, which is the updater's `NoAliasLost`; it is proved and has no
run of its own), and whichever call a restart belongs to, it does not make
the API server ask a CoreDNS for which the rest is not there yet (`NeverAsksTooEarly`).
The proofs assume `MaxDeploys` positive, `Faults` to be faults the deployer
knows, and calls for aliases to differ from calls for the nameserver.

### Conditions and Installation

A report is the list of conditions an object has, in the order in which it lists
them. `CheckCondition` is the loop of `checkCondition` (`conditions.go:86-99`) as a
function of how many conditions it has looked at: each condition of the type replaces
the status, and one without a status panics (`Seen`, `conditions.go:92`). `LastHas` and `Incomplete` say the same without a
loop.

`caller` is the function that runs, `First` and `Follows` are the calls it makes; `order` is
what it installs: the documents of a directory or of Flux, or nothing. Without a
directory `InstallPlatformService` is `InstallServiceProvider`. In step `"create"` one
action is the creation of one document: it succeeds, also if the object exists, with
whatever contents (`CreateDocument`); it fails, as the API server does not know the
type yet or for a passing reason (`DocumentFails`); or its answer gets lost
(`LoseAnswer`). The first failure ends the attempt (`AttemptFails`), which
`InstallPlatformService` starts again from the first document and the other callers return.
`Unknown` has the documents of types which the service itself defines, once it is
installed (`Discover`). `history` is what the service's controller reports, one
list of conditions after another.

### ControlPlanes

A test calls anything, in any order, also after an error, at most `MaxCalls`
times. The operator keeps one request per MCP, the scheduler binds each to a new
cluster (control planes have exclusive tenancy), the provider creates a kind
cluster for it. `usable` remembers the MCPs a test may rely on: created without
error, neither they nor their cluster deleted since. A failing `ClustersReady`
makes `CreateMCP` an error although it has created the MCP. `UsableControlPlanes` knows
only these MCPs and their clusters (`homeBar`: the usable MCPs and what they are bound to)
and where the last import has gone (`importedBar`, which looks at a call when it has
returned without error). `ImportDomainAPIs` looks up
the cluster and then imports (`clusterutils.go:142-149`): between the two steps the
cluster may be removed.

`DeleteObject` is call by call here, too: `GetMCP` and `GetRequest`, `DeleteMCP` and
`DeleteRequest`, and a wait. Between the Get and the Delete of a request the operator may
delete it, recreate it and have it bound to another cluster; the Delete goes by the
name. A call that fails changes nothing (`Fails`), or it has been carried out and its answer
is lost (`LosesAnswer`): an MCP whose creation was an error may exist.

`faults` is chosen in `Init`: none, or all of `Faults`; the deletions are given wait
options (`waitOpts`) where waits expire, for a wait for the deletion of an object
that its owner recreates may only end with its timeout.

Names of clusters are not used a second time. `NamesLeft` bounds the model: a call
that needs new names begins only while there are names for the clusters still
to come. Whether the kind name of one cluster begins with the name of another is
a constant (`StartsWith`), in the instances true of one pair; `ConfigByPrefix` takes the
first match in the order in which kind lists the clusters.

## Runs

All runs of the checked specifications look for deadlocks, too. Bounds are those
of the constants in the `.cfg`; `MaxCalls`, `MaxDeploys` and `MaxErrors` bound counters.

| Run | Instance | Result |
|---|---|---|
| `BootstrapFaults` | one cluster provider, platform service and service provider each, one extension; two requests with a cluster each; API faults and timeouts | `TypeOK`, `TestsSeeReadyEnvironment`, `ImagesBeforeObjects`, `SilentMeansClean`, `InstallsBottomUp`, `CleanupAlwaysEnds`, `ImplementsLifecycle` hold |
| `BootstrapDegrade` | objects become unready; an MCP is left over and shares a cluster; the first of two cluster providers is not kind, so the platform has no Cluster object | `ProvidersOutliveRequests`, `CleanupAlwaysEnds` hold |
| `BootstrapCooperative` | two platform services, no faults | `TestsEventuallyRun` holds |
| `BootstrapServiceDeletion` | no faults | `PlatformServiceDeletionAwaited` is violated (finding) |
| `UpdaterRetries` | two equal aliases, two equal nameservers, every subset of the faults | `TypeOK`, `NoAliasLost`, `SucceedsIffChanged`, `SuccessMeansServed`, `ImplementsManifestEdits`, `CallsReturn` hold |
| `UpdaterStaleRestart` | two aliases, a slow kubelet | `SuccessMeansRestarted` is violated (finding) |
| `DnsDeployer` | every subset of the faults, with and without Flux and a left-over cluster; three other clusters; two Deploys | `TypeOK`, `SuccessMeansWired`, `SameCluster`, `NameserverLast`, `DeployReturns`, `DeploySucceeds` hold |
| `DnsLateAddress` | only late addresses | `DeployWaitsForAddresses` is violated (finding) |
| `ControlPlanes` | two MCPs, three clusters, four calls, without faults and with API faults and timeouts | `TypeOK`, `UsableMCPReachable`, `DeletesOwnRequests`, `ImplementsUsable`, `CallsReturn`, `CreateMCPSucceeds`, `DeleteClusterSucceeds` hold |
| `DnsService` | one other cluster, one alias, two Deploys; failing calls and docker commands, expiring waits, a slow kubelet, failing probes | `TypeOK`, `SuccessMeansAsked`, `NeverAsksTooEarly`, `EventuallyAsked`, `DeployReturns`, `ImplementsDnsDeployer` hold |
| `Installation` | three documents, the second of a type that is discovered late, any others present before; five histories of conditions; two passing errors | `TypeOK`, `ReadyMeansReady`, `RetriesSucceed`, `InstallReturns`, `ImplementsProvisioning` hold |
| `ControlPlanesPanic` | three calls, timeouts | `NoPanic` is violated (finding) |

Why the bounds are enough:

- *Bootstrap.* Loops treat their elements independently, one after the other. Two
  requests and two platform services show what one element does to the next, and
  what is proved holds for slices of any length.
- *Updater.* Two calls with the same value show a retry; an alias and a
  nameserver show that one does not undo the other. Again the proofs cover
  any number.
- *DnsDeployer, DnsService.* One `Deploy` has no unbounded data; two show what a
  failed one, or one that succeeded, leaves to the next. One alias shows a restart
  that a test's call leaves behind before, between or after them. `"lost"` and `"late"`
  change only what happens before the call of the updater, so that `DnsService` can do
  without them.
- *Installation.* With three documents there is one before and one after the
  document that is not known yet. Two errors are one in each of two attempts, or in
  an attempt and a later wait. The histories have `Ready` first, last, twice, without
  a status, in the second report only, and never.
- *ControlPlanes.* Four calls allow create, create, delete and a look-up, in any
  order. Three clusters are one more than there are MCPs, so that a request
  can be granted a second time after its cluster was deleted.

### Fairness

`Spec` of each module has weak fairness for the library: its calls return, and
each `wait.For` has a timeout (the e2e-framework's default is five minutes), so
it never stays at a call for ever. In all modules but the updater's
the timeout is an action, enabled where `"timeout"` is a fault. Where
it is one nothing is assumed of the controllers, and the liveness properties
say that the library does not depend on them: `CleanupAlwaysEnds`,
`DeployReturns`, `CallsReturn`, `InstallReturns`. `Installation` has weak fairness for
`TimesOut` besides that for the call's steps: retries that keep failing are steps,
too, and what ends them is that `wait.For` looks at its deadline before each one.

Where no wait expires, each controller is weakly fair: each object it has to
care for is cared for in the end. In `Bootstrap` that is `CooperativeSpec`, in
the other modules it is a part of `Spec` that depends on `faults`.
Environments in which this is false are what the timeouts are for; the
properties that rely on it (`TestsEventuallyRun`, `DeploySucceeds`, `CreateMCPSucceeds`,
`DeleteClusterSucceeds`, `RetriesSucceed`) say that the library asks for things in an order in
which they can be had. `ApiServerUpdater!Spec` has weak fairness for the kubelet:
what its calls promise depends on it, and its delays are the fault `"slow"`. It
has none for failing probes. `DnsService` takes over the fairness of both its parts,
for the calls that were started; it does not have to call `AddHostAlias`, nor `Deploy`
a second time.

### Observations

Four disagreements between the code and what the source says of it are runs,
listed as findings in `PROJECT.json`. Others follow from the same models, and
explain conditions in the properties:

- A probe of `waitForRestart` that fails for any other reason counts as the
  outage (`ProbeFails`), and the old API server then counts as the restarted one
  (`updater.go:171`). `SuccessMeansServed` therefore excludes failing probes;
  `EventuallyAsked` says what is left: the restart follows.
- Adding the nameserver that is there already writes the same manifest: no restart
  follows, and the call ends with its timeout (`updater.go:166`). `SucceedsIffChanged` says
  so.
- `CreateExternalService` cannot be called for a second time in an environment. After one
  that created its ClusterRequest every later one fails on it (`cluster.go:58`); were it
  not for that, one that finds its nameserver in the manifest would time out.
- "Applies" in `clusterutils.go:128-142` is a creation: an object that exists is left as
  it is, whatever is in it (`resources.go:88`).
- The import of `InstallPlatformService` is retried, those of
  `ImportServiceProviderAPIs` and FluxCD are not: a document of a type that is
  discovered late ends them, with the documents before it created. Documents are
  created in the order of the files' names, and those after the failing one are not
  tried.
- The retries have the timeout of the wait in each attempt (`platformservice.go:57-68`), so
  an import may take up to twice that time and succeed after the first deadline.
- A request that fails once, even for a passing reason, ends `Match`
  (`conditions.go:22-25`), and with it the setup.
- `Deploy` finds its cluster by the prefix of the kind name (`deployer.go:168`); a
  kind cluster left over from an earlier run can be taken for it.
  `SuccessMeansWired` says so with `~leftover => target = "own"`.
- The cleanup waits for ClusterRequests, not for Clusters (`bootstrap.go:117-125`):
  Clusters may remain when the providers are deleted. `ProvidersOutliveRequests`
  is about requests.
- `DeleteCluster` deletes by name the requests that were bound to the cluster when
  it listed them (`clusterprovider.go:201-218`). Called again after a timeout, it
  may delete a request that has been recreated and bound to another cluster since.
  `DeletesOwnRequests` is about behaviours without faults.
- A wait for the deletion of a request that its owner recreates may see an object
  of that name at every poll (`resources.go:29`), and end with its timeout only.

## Proofs

TLAPS proves, for all values of the constants that satisfy the named
assumptions:

| Theorem | Statement |
|---|---|
| `BootstrapProofs!TypeCorrect` | `Spec => []TypeOK` |
| `BootstrapProofs!ProvidersOutlive` | `Spec => []ProvidersOutliveRequests` |
| `BootstrapProofs!TestsReady` | `Spec => []TestsSeeReadyEnvironment` |
| `BootstrapProofs!BottomUp` | `Spec => InstallsBottomUp` |
| `BootstrapProofs!ImagesLoaded` | `Spec => []ImagesBeforeObjects` |
| `CleanupProofs!SilentCleans` | `Spec => []SilentMeansClean` |
| `LifecycleProofs!BootstrapImplementsLifecycle` | `Spec => ImplementsLifecycle` |
| `ApiServerUpdaterProofs!TypeCorrect` | `Spec => []TypeOK` |
| `ApiServerUpdaterProofs!UpdaterImplementsEdits` | `Spec => ImplementsManifestEdits` |
| `ApiServerUpdaterProofs!AliasesStay` | `Spec => []NoAliasLost` |
| `ApiServerUpdaterProofs!SuccessServed` | `Spec => SuccessMeansServed` |
| `ApiServerUpdaterProofs!SuccessIffChanged` | `Spec => []SucceedsIffChanged` |
| `DnsDeployerProofs!TypeCorrect` | `Spec => []TypeOK` |
| `DnsDeployerProofs!SuccessWired` | `Spec => []SuccessMeansWired` |
| `DnsDeployerProofs!OneCluster` | `Spec => []SameCluster` |
| `DnsDeployerProofs!NameserverComesLast` | `Spec => NameserverLast` |
| `DnsServiceProofs!TypeCorrect` | `Spec => []TypeOK` |
| `DnsServiceProofs!ServiceImplementsDeployer` | `Spec => ImplementsDnsDeployer` |
| `DnsServiceProofs!AskedWhenDone` | `Spec => []SuccessMeansAsked` |
| `DnsServiceProofs!AliasesOutlive` | `Spec => []AliasesKept` |
| `DnsServiceProofs!NeverTooEarly` | `Spec => []NeverAsksTooEarly` |
| `DnsServiceProofs!PartsCompose` | `SuccessMeansWired`, `SameCluster`, `NameserverLast` of the deployer and `SuccessMeansServed` of the updater hold in `DnsService` |
| `InstallationProofs!TypeCorrect` | `Spec => []TypeOK` |
| `InstallationProofs!InstallationImplementsProvisioning` | `Spec => ImplementsProvisioning` |
| `InstallationProofs!ChecksLast` | `CheckCondition` of any list is what `LastHas` and `Incomplete` say |
| `InstallationProofs!ReadyIsReady` | `Spec => ReadyMeansReady` |
| `ControlPlanesProofs!TypeCorrect` | `Spec => []TypeOK` |
| `ControlPlanesProofs!UsableReachable` | `Spec => UsableMCPReachable` |
| `ControlPlanesProofs!DeletesOwnOnly` | `Spec => DeletesOwnRequests` |
| `ControlPlanesProofs!UsableImplemented` | `Spec => ImplementsUsable` |

The properties are not inductive; what had to be added:

- `RequestsInv`: a request that the loop of the cleanup is past is *settled*:
  reported, or owned by an MCP that is left over, or created before and gone. That
  it was created before is what keeps the operator from creating it again.
- `ReadyInv`: what a loop of the setup is past is ready, up to the end of the
  tests; the managed Cluster object exists after its function and is ready after
  `VerifyEnvironment`. Readiness is stable where nothing degrades, because the
  cleanup, which deletes, comes later, and tests delete requests only.
- `ImagesInv`: the images the first loop is past are loaded; an object that
  exists was created after that loop.
- `CleanInv`: unless an error was logged, the components that a loop of the cleanup is
  past are down: terminating or gone, and gone if they are waited for. Once the
  tests are over nothing creates a component, so they stay down.
- The refinement of `Lifecycle` maps a loop's index to the set of components it
  has finished with. That an element is not finished twice needs the slices to be
  injective and disjoint (`SlicesAssumption`, `NamesAssumption`), and that the
  next function starts only when a loop is at its end needs `idx` to be at most
  one past the slice. `Lifecycle` assumes no fairness, so the refinement is proved as a
  whole; that its stages come to an end is `CleanupAlwaysEnds`.
- `EditInv` (Updater): the call that is between reading and writing has read
  the manifest as it is, since no other call runs; this makes its read and its
  write one atomic edit.
- `RestartInv` (Updater): when a call waits for the server to go down and it is
  down, or has been seen down, the kubelet has read, or is still to start, the
  manifest with that call's change. Missed outages do not falsify this; a failing
  probe and a restart left over from a timed-out call do, which is why the
  property excludes them: `UpdaterStaleRestart` and the first observation above. So
  does a failing docker command, but only from then on (`Undisturbed`).
- `ChangeInv` (Updater): without faults a call in its first loop finds the file as it
  wrote it and the API server with what it read, or down; so it sees an outage
  if the two differ, and can only time out if they are equal.

- `WiredInv` (DnsDeployer): only one of the Deploys gets past the creation of the
  ClusterRequest, so the config and the nameserver are set after one and the same
  look-up of the cluster (`RequestInv`, `ConfigInv`, `NameserverInv`). `Found` says
  that the look-up is over, and found what there is, in the steps that use it.
- `KnownInv` (Updater): what a call that returned without error has added is in the
  file, with the kubelet and in the API server, and stays there: a host alias for good,
  the nameserver until another one is set.
- `CallInv` (DnsService) says how the two parts fit: while Deploy is at its last steps,
  the updater's call is where Deploy says, is the only one with a nameserver, and has
  something to change. With it each step of `DnsService` is a step of the updater and
  one of `DnsDeployer` (or a stutter), so that the invariants of both hold without
  being proved again. That the call changes something matters: otherwise it could time
  out where `DnsDeployer` has no such fault (`ChangeInv`). The deployer's and the updater's
  promises carry over (`PartsCompose`).
- `AsksInv` (DnsService): not only the API server, but also the file and the kubelet, which
  it may be started from later, have no nameserver or one for which all is `SetUp`. That
  is enough because a Deploy writes its nameserver last, and nothing of what
  `SetUp` says is ever undone.
- `DocumentsInv` (Installation): the documents before the one the import is at exist,
  from this attempt, an earlier one or another hand, since nothing deletes them; past
  the import all do. `Provisioning` assumes no fairness, so the refinement is
  proved as a whole.
- `ReachInv` (ControlPlanes): a usable MCP is ready, its request granted and its
  cluster ready, and no running deletion is about one of the three; what a running
  `CreateMCP` has seen to be ready is so, too, as tests are sequential. `FirstMatch`: a
  name is listed before the names that begin with it, so the first match of the
  name of a cluster that is there is that cluster.
- `ChecksLast` (Conditions): after `i` conditions the loop has the result for the first `i`.
  The induction over `i` is by least elements: the lengths up to which
  the result is right are a set (`SetInduction`), so that no theorem with an operator as
  a parameter is needed. `Reported` says that there
  always is a report for a wait to look at.
- `OwnClusterInv`, `ConfigInv` (ControlPlanes): a cluster is bound to no two MCPs, and
  a call has no config before `ImportDomainAPIs` is at its import, so that another call
  that returns is not taken for an import. With `ReachInv`,
  each step then adds at most one MCP to `homeBar`, with a cluster that no other has,
  or takes out the one that the call is about, or leaves `homeBar` as it is.
- `OwnInv` (ControlPlanes): without faults a request that `DeleteCluster` still has to
  delete is bound as it was when it was listed, or gone for good with its MCP; for that
  the list must not have a request twice, and no request can be recreated and bound
  again before its turn, because only the operator and this loop delete any.

Only model-checked is liveness, which TLAPS does not prove under fairness:
`CleanupAlwaysEnds`, `TestsEventuallyRun`, `DeployReturns`, `DeploySucceeds`,
`EventuallyAsked`, `CallsReturn`, `InstallReturns`, `RetriesSucceed`, `CreateMCPSucceeds`,
`DeleteClusterSucceeds`.
All invariants, action properties and refinements of the passing runs are theorems.

## What the models assume of code outside the repository

The e2e-framework runs setup functions in order and stops at the first error; it runs
all finish functions, whatever happened, and logs their errors; it goes on with the next
step of a feature after `t.Error`; asked for a client of a cluster that is not there it
makes the call fail (see Bootstrap: it may panic). kind lists clusters in the order of their names, so
that a name comes before those that begin with it (`UsableMCPReachable` and
`ImplementsUsable` rest on that), and the name of a kind cluster begins
with the name of its Cluster object. The operator creates a request for each MCP, with
its name, and deletes it with the MCP. The kubelet restarts a static pod only if its
manifest has changed. These are marked external in `PROJECT.json`.

## Not modelled

Text: templates, manifests, kubeconfigs, log messages; the containerd mirrors in
the kind config; the temporary files and the other helpers of `internal`; options of
the `With...` functions; the purposes that `installOpenMCPOperator` adds to the
operator's template; the generation of Flux's manifests; the choice of the Updater's container
(`onboardingClusterContainer`) and of `OnboardingConfig` by a prefix, as there is one
onboarding cluster in the models. Conditions that are not maps. Time, apart from a timeout expiring
before or after something else. The tests of the repository, apart from the
order in which they may call it.

## Plan

Done, in this order, with the theorems above: `Lifecycle` and `Bootstrap`; `Manifests`,
`ManifestEdits` and `ApiServerUpdater`; `DnsDeployer` with repeated Deploys;
`ControlPlanes` with imports; `Conditions`, `Provisioning` and `Installation`;
`DnsService`, which composes the deployer with the updater; `UsableControlPlanes`, which
`ControlPlanes` implements.

Next: `Bootstrap` with the steps of `Installation` in the place of `ImportConfigs`.
