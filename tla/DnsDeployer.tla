------------------------------ MODULE DnsDeployer ------------------------------
(***************************************************************************)
(* Deployer.Deploy: a chain of calls that asks for a "dns" cluster, puts   *)
(* etcd on it, lets Flux put CoreDNS on it, installs platform-service-dns, *)
(* and makes CoreDNS the nameserver of an API server.  Interleaved with it *)
(* run the controllers that answer each request.  Later tests may call     *)
(* Deploy again, on the objects the earlier calls have left.               *)
(*                                                                         *)
(* An IP address is identified with the service it was assigned to, and a  *)
(* service with its cluster and its name.                                  *)
(***************************************************************************)
EXTENDS Naturals, Sequences, SequencesExt

CONSTANTS
  MaxDeploys, \* bound: how often Deploy is called
  Others,    \* the other Cluster objects on the platform
  Faults     \* "api": calls fail, "timeout": waits expire,
             \* "lost": the answer to the creation of the config gets lost,
             \* "late": an address is assigned later than it is looked up

ASSUME FaultsAssumption == Faults \subseteq {"api", "timeout", "lost", "late"}
ASSUME DeploysAssumption == MaxDeploys \in Nat \ {0}

VARIABLES
  faults,                   \* the faults of this behaviour
  flux,                     \* the fluxcd extension is installed
  leftover,                 \* a kind cluster of an earlier run has the same prefix
  attempt, step,            \* which Deploy; its next call, or "done" or "failed"
  request, cluster, access, \* on the platform: ClusterRequest, Cluster, AccessRequest
  readyOthers,              \* the other clusters that are ready
  target,                   \* the kind cluster Deploy has found for the prefix
  services,                 \* the services on that cluster and on a left-over one
  release,                  \* the HelmRelease of CoreDNS exists
  psDNS, discovered,        \* the platform service, and that its config type is known
  config,                   \* the address in the DNSServiceConfig
  ip, nameserver            \* the address looked up last; the API server's nameserver

given    == <<faults, flux, leftover, attempt>>
asked    == <<request, cluster, access, readyOthers>>
service  == <<psDNS, discovered>>
vars     == <<given, step, asked, target, services, release, service, config, ip, nameserver>>

Steps ==
  <<"createRequest", "awaitRequest", "awaitClusters", "createAccess", "awaitAccess",
    "awaitSecret", "findCluster", "createEtcd", "createCoreDNS", "readEtcdIP",
    "createService", "createConfig", "awaitService", "readDNSIP", "addNameserver",
    "awaitRestart", "done">>

Awaits == {"awaitRequest", "awaitClusters", "awaitAccess", "awaitSecret",
           "createConfig", "awaitService", "awaitRestart"}

Running == step \notin {"done", "failed"}

Services == {"own", "leftover"} \X {"etcd", "coredns"}
Nothing  == <<"none", "none">>

\* Deploy goes on from call s to the next one.
After(s) ==
  /\ step = s
  /\ \E i \in 1..(Len(Steps) - 1) : Steps[i] = s /\ step' = Steps[i + 1]

\* Call s changes something; Deploy goes on, or the answer is an error.
Call(s) ==
  \/ After(s)
  \/ step = s /\ "api" \in faults /\ step' = "failed"

\* Variant with a bug: creating an object again replaces it.
CreatableAgain(o) == TRUE

\* CreateObjectFromTemplate is an error if the object exists.
Creatable(o) == o = "absent"

-----------------------------------------------------------------------------
Init ==
  /\ faults \in SUBSET Faults /\ flux \in BOOLEAN /\ leftover \in BOOLEAN
  /\ attempt = 1 /\ step = Steps[1]
  /\ request = "absent" /\ cluster = "absent" /\ access = "absent"
  /\ readyOthers \in SUBSET Others
  /\ target = "none"
  /\ \E old \in IF leftover THEN {"absent", "addressed"} ELSE {"absent"} :
       services = [s \in Services |-> IF s[1] = "own" THEN "absent" ELSE old]
  /\ release = FALSE /\ psDNS = "absent" /\ discovered = FALSE
  /\ config = Nothing /\ ip = Nothing /\ nameserver = Nothing

(***************************************************************************)
(* createCluster.                                                          *)
(***************************************************************************)
CreateRequest ==
  /\ Call("createRequest") /\ Creatable(request)
  /\ request' = "pending"
  /\ UNCHANGED <<given, cluster, access, readyOthers, target, services, release, service, config, ip, nameserver>>

\* Waits until the request, the cluster, the access and its secret are there.
AwaitGranted ==
  /\ \/ After("awaitRequest")  /\ request = "granted"
     \/ After("awaitClusters") /\ cluster \in {"absent", "ready"} /\ readyOthers = Others
     \/ After("awaitAccess")   /\ access \in {"granted", "secret"}
     \/ After("awaitSecret")   /\ access = "secret"
  /\ UNCHANGED <<given, asked, target, services, release, service, config, ip, nameserver>>

CreateAccess ==
  /\ Call("createAccess") /\ Creatable(access)
  /\ access' = "pending"
  /\ UNCHANGED <<given, request, cluster, readyOthers, target, services, release, service, config, ip, nameserver>>

(***************************************************************************)
(* The rest of Deploy.                                                     *)
(***************************************************************************)
\* Variant with a bug: the first kind cluster of all is taken.
FindAnyCluster ==
  /\ After("findCluster")
  /\ target' \in {"own", "platform"}
  /\ UNCHANGED <<given, asked, services, release, service, config, ip, nameserver>>

\* ConfigByPrefix: the first kind cluster in the list that has the prefix.
FindCluster ==
  /\ After("findCluster")
  /\ \/ cluster \in {"creating", "ready"} /\ target' = "own"
     \/ leftover /\ target' = "leftover"
  /\ UNCHANGED <<given, asked, services, release, service, config, ip, nameserver>>

\* Creates the objects of etcd that do not exist already.
CreateEtcd ==
  /\ Call("createEtcd")
  /\ services' = [services EXCEPT ![<<target, "etcd">>] = IF @ = "absent" THEN "created" ELSE @]
  /\ UNCHANGED <<given, asked, target, release, service, config, ip, nameserver>>

\* CoreDNS is left to Flux: the manifests go to the platform cluster.
CreateCoreDNS ==
  /\ Call("createCoreDNS")
  /\ flux
  /\ release' = TRUE
  /\ UNCHANGED <<given, asked, target, services, service, config, ip, nameserver>>

\* Variant with a bug: both addresses are those of etcd.
ReadEtcdAddresses ==
  /\ After("readEtcdIP") \/ After("readDNSIP")
  /\ services[<<target, "etcd">>] = "addressed"
  /\ ip' = <<target, "etcd">>
  /\ UNCHANGED <<given, asked, target, services, release, service, config, nameserver>>

\* getLoadBalancerIP looks a service up once; without an address it fails.
GetLoadBalancerIP ==
  /\ \E s \in {"etcd", "coredns"} :
       /\ After(IF s = "etcd" THEN "readEtcdIP" ELSE "readDNSIP")
       /\ services[<<target, s>>] = "addressed"
       /\ ip' = <<target, s>>
  /\ UNCHANGED <<given, asked, target, services, release, service, config, nameserver>>

CreateService ==
  /\ Call("createService")
  /\ psDNS' = IF psDNS = "absent" THEN "present" ELSE psDNS
  /\ UNCHANGED <<given, asked, target, services, release, discovered, config, ip, nameserver>>

\* Variant with a bug: a config that exists already is an error, and retried.
CreateNewConfig ==
  /\ After("createConfig")
  /\ discovered /\ config = Nothing
  /\ config' = ip
  /\ UNCHANGED <<given, asked, target, services, release, service, ip, nameserver>>

\* An attempt to create the config; it counts as success if there is one.
CreateConfig ==
  /\ After("createConfig")
  /\ discovered
  /\ config' = IF config = Nothing THEN ip ELSE config
  /\ UNCHANGED <<given, asked, target, services, release, service, ip, nameserver>>

\* An attempt that fails is retried, even if the config has been created.
CreateConfigAgain ==
  /\ step = "createConfig" /\ "lost" \in faults
  /\ discovered /\ config = Nothing
  /\ config' = ip
  /\ UNCHANGED <<given, step, asked, target, services, release, service, ip, nameserver>>

\* Variant with a bug: the service is not waited for.
SkipService ==
  /\ After("awaitService")
  /\ UNCHANGED <<given, asked, target, services, release, service, config, ip, nameserver>>

AwaitService ==
  /\ After("awaitService")
  /\ psDNS = "ready"
  /\ UNCHANGED <<given, asked, target, services, release, service, config, ip, nameserver>>

\* AddNameserver of the updater (module ApiServerUpdater): it writes the address
\* into the API server's manifest and waits for the restart.
AddNameserver ==
  /\ Call("addNameserver")
  /\ nameserver' = ip
  /\ UNCHANGED <<given, asked, target, services, release, service, config, ip>>

AwaitRestart ==
  /\ After("awaitRestart")
  /\ UNCHANGED <<given, asked, target, services, release, service, config, ip, nameserver>>

\* Variant with a bug: the retries of the config have no timeout.
FailsButInRetries ==
  /\ Running
  /\ \/ "api" \in faults /\ step # "createConfig"
     \/ "timeout" \in faults /\ step \in Awaits \ {"createConfig"}
  /\ step' = "failed"
  /\ UNCHANGED <<given, asked, target, services, release, service, config, ip, nameserver>>

\* A call fails, a wait expires, an object exists, no kind cluster is found, Flux's
\* types are not there, or a service has no address (yet): Deploy returns the
\* error and leaves what it has created.
Fails ==
  /\ Running
  /\ \/ "api" \in faults /\ step # "createConfig"
     \/ "timeout" \in faults /\ step \in Awaits
     \/ step = "createRequest" /\ ~Creatable(request)
     \/ step = "createAccess" /\ ~Creatable(access)
     \/ step = "findCluster" /\ cluster \notin {"creating", "ready"} /\ ~leftover
     \/ step = "createCoreDNS" /\ ~flux
     \/ /\ faults \cap {"late", "timeout"} # {} \/ target = "leftover"
        /\ \E s \in {"etcd", "coredns"} :
             /\ step = IF s = "etcd" THEN "readEtcdIP" ELSE "readDNSIP"
             /\ services[<<target, s>>] # "addressed"
  /\ step' = "failed"
  /\ UNCHANGED <<given, asked, target, services, release, service, config, ip, nameserver>>

\* A later test calls Deploy again.
DeployAgain ==
  /\ ~Running /\ attempt < MaxDeploys
  /\ attempt' = attempt + 1
  /\ step' = Steps[1] /\ target' = "none" /\ ip' = Nothing
  /\ UNCHANGED <<faults, flux, leftover, asked, services, release, service, config, nameserver>>

(***************************************************************************)
(* The controllers (not part of this repository).                          *)
(***************************************************************************)
\* The scheduler grants the request with a cluster, which its provider creates.
ClusterControllers ==
  /\ \/ request = "pending" /\ request' = "granted" /\ cluster' = "creating" /\ UNCHANGED access
     \/ cluster = "creating" /\ cluster' = "ready" /\ UNCHANGED <<request, access>>
     \/ access = "pending" /\ access' = "granted" /\ UNCHANGED <<request, cluster>>
     \/ access = "granted" /\ access' = "secret" /\ UNCHANGED <<request, cluster>>
  /\ UNCHANGED <<given, step, readyOthers, target, services, release, service, config, ip, nameserver>>

OtherGetsReady ==
  /\ \E c \in Others \ readyOthers : readyOthers' = readyOthers \cup {c}
  /\ UNCHANGED <<given, step, request, cluster, access, target, services, release, service, config, ip, nameserver>>

AssignAddress ==
  /\ \E s \in Services :
       services[s] = "created" /\ services' = [services EXCEPT ![s] = "addressed"]
  /\ UNCHANGED <<given, step, asked, target, release, service, config, ip, nameserver>>

\* Flux installs CoreDNS on the cluster the access was granted to.
InstallCoreDNS ==
  /\ release /\ access = "secret" /\ services[<<"own", "coredns">>] = "absent"
  /\ services' = [services EXCEPT ![<<"own", "coredns">>] = "created"]
  /\ UNCHANGED <<given, step, asked, target, release, service, config, ip, nameserver>>

ServiceControllers ==
  /\ \/ psDNS = "present" /\ psDNS' = "ready" /\ UNCHANGED discovered
     \/ psDNS # "absent" /\ ~discovered /\ discovered' = TRUE /\ UNCHANGED psDNS
  /\ UNCHANGED <<given, step, asked, target, services, release, config, ip, nameserver>>

-----------------------------------------------------------------------------
Deploy ==
  \/ CreateRequest \/ AwaitGranted \/ CreateAccess \/ FindCluster \/ CreateEtcd
  \/ CreateCoreDNS \/ GetLoadBalancerIP \/ CreateService
  \/ CreateConfig \/ CreateConfigAgain \/ AwaitService \/ AddNameserver
  \/ AwaitRestart \/ Fails

Returned == ~Running /\ UNCHANGED vars

Next ==
  \/ Deploy \/ DeployAgain
  \/ ClusterControllers \/ OtherGetsReady \/ AssignAddress \/ InstallCoreDNS \/ ServiceControllers
  \/ Returned

\* Deploy goes on: each of its calls returns and each of its waits expires.  The
\* controllers do their work, except where waits may expire.
Spec ==
  /\ Init /\ [][Next]_vars /\ WF_vars(Deploy)
  /\ WF_vars("timeout" \notin faults /\ ClusterControllers)
  /\ WF_vars("timeout" \notin faults /\ OtherGetsReady)
  /\ WF_vars("timeout" \notin faults /\ AssignAddress)
  /\ WF_vars("timeout" \notin faults /\ InstallCoreDNS)
  /\ WF_vars("timeout" \notin faults /\ ServiceControllers)

-----------------------------------------------------------------------------
TypeOK ==
  /\ faults \subseteq Faults /\ flux \in BOOLEAN /\ leftover \in BOOLEAN
  /\ attempt \in 1..MaxDeploys /\ step \in ToSet(Steps) \cup {"failed"}
  /\ request \in {"absent", "pending", "granted"}
  /\ cluster \in {"absent", "creating", "ready"}
  /\ access \in {"absent", "pending", "granted", "secret"}
  /\ readyOthers \subseteq Others
  /\ target \in {"none", "own", "leftover"}
  /\ services \in [Services -> {"absent", "created", "addressed"}]
  /\ release \in BOOLEAN /\ discovered \in BOOLEAN
  /\ psDNS \in {"absent", "present", "ready"}
  /\ {config, ip, nameserver} \subseteq Services \cup {Nothing}

\* A Deploy without error has wired everything up: external-dns writes to the
\* etcd and the API server asks the CoreDNS of one and the same cluster, the new
\* one if there is no other with that prefix, and the platform service that
\* connects the two is ready.
SuccessMeansWired ==
  step = "done" =>
    /\ config = <<target, "etcd">> /\ nameserver = <<target, "coredns">>
    /\ ~leftover => target = "own"
    /\ psDNS = "ready"

\* The API server gets its nameserver last: not before the service that has the
\* names registered is ready and knows where to, and CoreDNS has an address.
NameserverLast ==
  [][nameserver' # nameserver =>
       psDNS = "ready" /\ config # Nothing /\ services[nameserver'] = "addressed"]_vars

\* However often Deploy is called and wherever it has failed before, the config
\* and the nameserver, once both are set, belong to one cluster.
SameCluster ==
  config # Nothing /\ nameserver # Nothing => config[1] = nameserver[1]

\* Deploy returns: the retries of the config end, too.
DeployReturns == []<>~Running

\* When no call fails, no wait expires and every address is there in time,
\* Deploy succeeds; and if the answer to the creation of the config gets lost,
\* the retry finds the config and Deploy succeeds as well.
DeploySucceeds ==
  faults \subseteq {"lost"} /\ flux /\ ~leftover => <>(step = "done")

(***************************************************************************)
(* A statement of the source that the code does not keep.                  *)
(***************************************************************************)
\* deployer.go:157, 198: Deploy "deploys CoreDNS + etcd to a dedicated "dns" cluster"
\* and logs "successfully deployed coredns", also when Flux and the load balancer
\* need some time: they do their work, and no call fails.
DeployWaitsForAddresses ==
  faults \subseteq {"late"} /\ flux /\ ~leftover => <>(step = "done")
=============================================================================
