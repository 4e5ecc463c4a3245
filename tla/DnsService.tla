------------------------------ MODULE DnsService ------------------------------
(***************************************************************************)
(* The DNS service for a test: Deploy of the DnsDeployer with the calls it *)
(* and the tests make to the ApiServerUpdater in detail.  Deploy's last    *)
(* step is a call of AddNameserver on the manifest to which tests add host *)
(* aliases before and after; the kubelet and the controllers run freely.   *)
(*                                                                         *)
(* The variables are those of the two modules, but for the nameserver,     *)
(* which is the one in the manifest.                                       *)
(***************************************************************************)
EXTENDS Naturals, FiniteSets

CONSTANTS
  MaxDeploys,  \* bound: how often Deploy is called
  Others,      \* the other Cluster objects on the platform
  AliasCalls,  \* the calls of AddHostAlias; each adds an alias of its own
  Faults       \* of the deployer, see there; with "api" docker fails as well, with
               \* "timeout" probes fail, outages are missed and the kubelet is slow

VARIABLES
  faults, flux, leftover, attempt, step, request, cluster, access, readyOthers,
  target, services, release, psDNS, discovered, config, ip,
  manifest, staticPod, running, server, pc, pod, written

exceptStep == <<faults, flux, leftover, attempt, request, cluster, access, readyOthers,
                target, services, release, psDNS, discovered, config, ip>>
deployer == <<step, exceptStep>>
updater  == <<manifest, staticPod, running, server, pc, pod, written>>
vars     == <<deployer, updater>>

D == INSTANCE DnsDeployer WITH nameserver <- manifest.nameserver

\* AddNameserver(address) of one Deploy is one call of the updater.
NameserverCalls == (1..MaxDeploys) \X D!Services

ASSUME DeploysAssumption == MaxDeploys \in Nat \ {0}
ASSUME FaultsAssumption  == Faults \subseteq {"api", "timeout", "lost", "late"}
ASSUME CallsAssumption   == AliasCalls \cap NameserverCalls = {}

ValueOf == [c \in AliasCalls \cup NameserverCalls |-> IF c \in AliasCalls THEN c ELSE c[2]]

UpdaterFaults ==
  {f \in {"docker", "probe", "missed", "slow"} :
     (IF f = "docker" THEN "api" ELSE "timeout") \in faults}

U == INSTANCE ApiServerUpdater WITH
       Calls <- AliasCalls \cup NameserverCalls, NoValue <- D!Nothing,
       Faults <- {"docker", "probe", "missed", "slow"}, faults <- UpdaterFaults,
       target <- staticPod

-----------------------------------------------------------------------------
Init == faults \in SUBSET Faults /\ U!Init /\ D!Init

\* The test is in a call of AddHostAlias.
InAliasCall == \E c \in AliasCalls : U!Active(c)

\* Deploy up to its call of AddNameserver.
Deploy ==
  /\ step \notin {"addNameserver", "awaitRestart"} /\ ~InAliasCall
  /\ UNCHANGED updater
  /\ D!Deploy

\* Where Deploy is when its call of the updater is at p.
StepOf(p) ==
  CASE p \in {"idle", "write"} -> "addNameserver"
    [] p \in {"goDown", "comeBack"} -> "awaitRestart"
    [] p = "ok" -> "done"
    [] p = "failed" -> "failed"

\* Variant with a bug: the error of AddNameserver is dropped.
DropError ==
  LET c == <<attempt, ip>> IN
  /\ step \in {"addNameserver", "awaitRestart"}
  /\ UNCHANGED exceptStep
  /\ U!Call(c)
  /\ step' = IF pc'[c] = "failed" THEN "done" ELSE StepOf(pc'[c])

\* The call of AddNameserver with the address Deploy has looked up.
AddNameserver ==
  LET c == <<attempt, ip>> IN
  /\ step \in {"addNameserver", "awaitRestart"}
  /\ UNCHANGED exceptStep
  /\ U!Call(c)
  /\ step' = StepOf(pc'[c])

\* The test calls AddHostAlias, before Deploy or when it has returned.
AddHostAlias ==
  /\ step \in {D!Steps[1], "done", "failed"}
  /\ UNCHANGED deployer
  /\ \E c \in AliasCalls : U!Call(c)

DeployAgain == ~InAliasCall /\ UNCHANGED updater /\ D!DeployAgain

Controllers ==
  /\ UNCHANGED updater
  /\ \/ D!ClusterControllers \/ D!OtherGetsReady \/ D!AssignAddress
     \/ D!InstallCoreDNS \/ D!ServiceControllers

Kubelet == UNCHANGED deployer /\ U!Kubelet

Returned == ~D!Running /\ UNCHANGED vars

Next ==
  \/ Deploy \/ AddNameserver \/ AddHostAlias \/ DeployAgain
  \/ Controllers \/ Kubelet \/ Returned

\* Calls go on and return, the kubelet runs, and the controllers do their work,
\* except where waits may expire.
Spec ==
  /\ Init /\ [][Next]_vars
  /\ WF_vars(Deploy) /\ WF_vars(AddNameserver /\ ~U!ProbeFails(<<attempt, ip>>))
  /\ WF_vars(InAliasCall /\ AddHostAlias)
  /\ WF_vars(Kubelet) /\ WF_vars("timeout" \notin faults /\ Controllers)

-----------------------------------------------------------------------------
TypeOK == D!TypeOK /\ U!TypeOK

\* When no wait expires and no AddHostAlias has failed, which may leave a restart
\* behind: once Deploy has returned without error, the running API server asks the
\* CoreDNS whose address Deploy looked up, and knows every alias added by then.
SuccessMeansAsked ==
  /\ "timeout" \notin faults /\ \A c \in AliasCalls : pc[c] # "failed"
  /\ step = "done"
  => /\ running.nameserver = ip
     /\ \A c \in AliasCalls : pc[c] = "ok" => U!Holds(running, c)

\* Whatever fails, expires or is restarted in between: a test's host alias that got
\* into the manifest is not lost by a later Deploy, nor by another alias.
AliasesKept == U!NoAliasLost

\* Whatever restart the API server was last started by, and however often Deploy was
\* called: it only asks a CoreDNS that has an address, and then the service that
\* has the names registered is ready and registers them with the same cluster.
NeverAsksTooEarly ==
  LET asked == running.nameserver IN
  asked # D!Nothing =>
    psDNS = "ready" /\ services[asked] = "addressed" /\ config = <<asked[1], "etcd">>

\* Even if it was late, or another restart was taken for it: a Deploy that returned
\* without error is followed by a restart that makes the API server ask CoreDNS.
EventuallyAsked ==
  \A s \in D!Services : (step = "done" /\ ip = s) ~> (running.nameserver = s)

\* However the updater's polls and the kubelet interleave, AddNameserver returns
\* and with it Deploy.
DeployReturns == []<>(step \in {"done", "failed"})

\* With the updater's calls in detail Deploy does what DnsDeployer says: the address
\* gets into the manifest in one step, and only then is there a restart to wait for.
ImplementsDnsDeployer == D!Init /\ [][D!Next]_(D!vars)
=============================================================================
