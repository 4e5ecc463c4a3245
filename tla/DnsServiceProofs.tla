-------------------------- MODULE DnsServiceProofs --------------------------
(***************************************************************************)
(* Deploy with the calls of the updater in detail implements DnsDeployer,  *)
(* and what both promise holds of the two together.  A step of DnsService  *)
(* is a step of the updater and one of DnsDeployer, so the invariants of   *)
(* both hold here; CallInv says how the two fit.                           *)
(***************************************************************************)
EXTENDS DnsService, TLAPS

\* The deployer and the updater again, with what is proved about them.
DP == INSTANCE DnsDeployerProofs WITH nameserver <- manifest.nameserver

UP == INSTANCE ApiServerUpdaterProofs WITH
       Calls <- AliasCalls \cup NameserverCalls, NoValue <- D!Nothing,
       Faults <- {"docker", "probe", "missed", "slow"}, faults <- UpdaterFaults,
       target <- staticPod

Calls == AliasCalls \cup NameserverCalls

-----------------------------------------------------------------------------
(* The two instances of each module are the same. *)

LEMMA SameConstants ==
  /\ D!Steps = DP!Steps /\ D!Services = DP!Services
  /\ D!Nothing = DP!Nothing /\ D!Awaits = DP!Awaits
BY DEF D!Steps, DP!Steps, D!Services, DP!Services, D!Nothing, DP!Nothing, D!Awaits, DP!Awaits

LEMMA SameTuples ==
  D!vars = DP!vars /\ D!given = DP!given /\ D!asked = DP!asked /\ D!service = DP!service
BY DEF D!vars, DP!vars, D!given, DP!given, D!asked, DP!asked, D!service, DP!service

LEMMA SameCalls ==
  \A s : (D!After(s) <=> DP!After(s)) /\ (D!Call(s) <=> DP!Call(s))
BY SameConstants DEF D!After, DP!After, D!Call, DP!Call

LEMMA SameDeploy == D!Deploy <=> DP!Deploy
BY SameTuples, SameCalls, SameConstants
   DEF D!Deploy, DP!Deploy, D!CreateRequest, DP!CreateRequest, D!AwaitGranted, DP!AwaitGranted,
   D!CreateAccess, DP!CreateAccess, D!FindCluster, DP!FindCluster, D!CreateEtcd, DP!CreateEtcd,
   D!CreateCoreDNS, DP!CreateCoreDNS, D!GetLoadBalancerIP, DP!GetLoadBalancerIP,
   D!CreateService, DP!CreateService, D!CreateConfig, DP!CreateConfig,
   D!CreateConfigAgain, DP!CreateConfigAgain, D!AwaitService, DP!AwaitService,
   D!AddNameserver, DP!AddNameserver, D!AwaitRestart, DP!AwaitRestart, D!Fails, DP!Fails,
   D!Running, DP!Running, D!Creatable, DP!Creatable,
   D!given, DP!given, D!asked, DP!asked, D!service, DP!service

LEMMA SameControllers ==
  /\ D!ClusterControllers <=> DP!ClusterControllers
  /\ D!OtherGetsReady <=> DP!OtherGetsReady
  /\ D!AssignAddress <=> DP!AssignAddress
  /\ D!InstallCoreDNS <=> DP!InstallCoreDNS
  /\ D!ServiceControllers <=> DP!ServiceControllers
BY SameConstants
   DEF D!ClusterControllers, DP!ClusterControllers, D!OtherGetsReady, DP!OtherGetsReady,
   D!AssignAddress, DP!AssignAddress, D!InstallCoreDNS, DP!InstallCoreDNS,
   D!ServiceControllers, DP!ServiceControllers,
   D!given, DP!given, D!asked, DP!asked, D!service, DP!service

LEMMA SameDeployer ==
  /\ D!Init <=> DP!Init
  /\ D!Next <=> DP!Next
  /\ D!TypeOK <=> DP!TypeOK
<1>1. D!Init <=> DP!Init
  BY SameConstants DEF D!Init, DP!Init
<1>2. D!DeployAgain <=> DP!DeployAgain
  BY SameConstants, SameTuples
     DEF D!DeployAgain, DP!DeployAgain, D!Running, DP!Running, D!asked, DP!asked,
     D!service, DP!service
<1>3. D!Returned <=> DP!Returned
  BY DEF D!Returned, DP!Returned, D!Running, DP!Running, D!vars, DP!vars,
         D!given, DP!given, D!asked, DP!asked, D!service, DP!service
<1>4. D!TypeOK <=> DP!TypeOK
  BY SameConstants DEF D!TypeOK, DP!TypeOK, D!ToSet, DP!ToSet
<1>. QED
  BY <1>1, <1>2, <1>3, <1>4, SameDeploy, SameControllers DEF D!Next, DP!Next

LEMMA SameCall == \A c : U!Call(c) <=> UP!Call(c)
BY DEF U!Call, UP!Call, U!GetStaticPod, UP!GetStaticPod, U!GetStaticPodFails, UP!GetStaticPodFails,
   U!WriteToContainerFS, UP!WriteToContainerFS, U!WriteFails, UP!WriteFails,
   U!SeesServerDown, UP!SeesServerDown, U!ProbeFails, UP!ProbeFails,
   U!SeesServerUp, UP!SeesServerUp, U!TimesOut, UP!TimesOut, U!MayStart, UP!MayStart,
   U!Active, UP!Active, U!To, UP!To, U!Patched, UP!Patched, U!Settled, UP!Settled,
   U!kubelet, UP!kubelet

LEMMA SameUpdater ==
  /\ U!Init <=> UP!Init
  /\ U!Kubelet <=> UP!Kubelet
  /\ U!TypeOK <=> UP!TypeOK
  /\ \A m, c : U!Holds(m, c) <=> UP!Holds(m, c)
BY DEF U!Init, UP!Init, U!InitialManifest, UP!InitialManifest,
   U!Kubelet, UP!Kubelet, U!KubeletReads, UP!KubeletReads, U!KubeletStops, UP!KubeletStops,
   U!KubeletStarts, UP!KubeletStarts, U!TypeOK, UP!TypeOK, U!Manifest, UP!Manifest,
   U!Values, UP!Values, U!Holds, UP!Holds
-----------------------------------------------------------------------------
(* The invariants of the two modules, and how they fit. *)

\* The call of the current Deploy.
call == <<attempt, ip>>

\* When Deploy is in its call of the updater, that call is where Deploy says, and has
\* something to change.  It is the only one: no other Deploy gets there.
CallInv ==
  /\ request = "absent" \/ step \notin {"createRequest", "addNameserver", "awaitRestart", "done", "failed"}
       => \A c \in NameserverCalls : pc[c] = "idle"
  /\ step \in {"addNameserver", "awaitRestart", "done"} =>
       /\ ip = <<target, "coredns">>
       /\ \A c \in NameserverCalls : c # call => pc[c] = "idle"
  /\ step = "addNameserver" => pc[call] \in {"idle", "write"}
  /\ step = "awaitRestart" => pc[call] \in {"goDown", "comeBack"} /\ pod[call].nameserver # ip
  /\ step = "done" => pc[call] = "ok"

ServiceInv == DP!DeployInv /\ UP!UpdaterInv /\ CallInv

\* The assumptions of the two modules.
LEMMA DeployerAssumptions == DP!FaultsAssumption /\ DP!DeploysAssumption
BY FaultsAssumption, DeploysAssumption DEF DP!FaultsAssumption, DP!DeploysAssumption

LEMMA UpdaterAssumptions == UP!FaultsAssumption /\ UP!CallsAssumption
BY DEF UP!FaultsAssumption, UP!CallsAssumption, UP!Values, ValueOf

\* What the calls of the updater are about.
LEMMA CallsAndValues ==
  /\ NameserverCalls = (1..MaxDeploys) \X DP!Services
  /\ \A c \in NameserverCalls : c \notin AliasCalls /\ ValueOf[c] = c[2]
BY CallsAssumption, SameConstants DEF NameserverCalls, ValueOf

\* Deploy is in a call of the updater: which one, and of what.
LEMMA CallType ==
  ASSUME ServiceInv, step \in {"addNameserver", "awaitRestart", "done"}
  PROVE  call \in NameserverCalls /\ call \notin AliasCalls /\ ValueOf[call] = ip
<1>1. attempt \in 1..MaxDeploys
  BY DEF ServiceInv, DP!DeployInv, DP!TypeOK
<1>2. ip \in DP!Services
  BY DEF ServiceInv, DP!DeployInv, DP!Found, DP!FoundSteps, CallInv, DP!Services
<1>. QED  BY <1>1, <1>2, CallsAndValues DEF call

\* The updater's variables are of their types.
LEMMA UpdaterTypes ==
  ASSUME UP!UpdaterInv
  PROVE  /\ pc \in [Calls -> {"idle", "write", "goDown", "comeBack", "ok", "failed"}]
         /\ pod \in [Calls -> UP!Manifest] /\ manifest \in UP!Manifest
BY DEF UP!UpdaterInv, UP!TypeOK, Calls

-----------------------------------------------------------------------------
(* A step of DnsService is one of the updater. *)

LEMMA UpdaterStep ==
  ASSUME ServiceInv, [Next]_vars
  PROVE  [UP!Next]_(UP!vars)
<1>1. CASE Deploy \/ DeployAgain \/ Controllers
  <2>1. UNCHANGED updater /\ faults' = faults
    BY <1>1 DEF Deploy, DeployAgain, Controllers, D!Deploy, D!DeployAgain,
       D!CreateRequest, D!AwaitGranted, D!CreateAccess, D!FindCluster, D!CreateEtcd,
       D!CreateCoreDNS, D!GetLoadBalancerIP, D!CreateService, D!CreateConfig,
       D!CreateConfigAgain, D!AwaitService, D!AddNameserver, D!AwaitRestart, D!Fails,
       D!ClusterControllers, D!OtherGetsReady, D!AssignAddress, D!InstallCoreDNS,
       D!ServiceControllers, D!given
  <2>. QED  BY <2>1 DEF updater, UP!vars, UP!kubelet, UpdaterFaults
<1>2. CASE AddNameserver
  <2>1. U!Call(call) /\ step \in {"addNameserver", "awaitRestart"}
    BY <1>2 DEF AddNameserver, call
  <2>2. call \in NameserverCalls
    BY <2>1, CallType
  <2>. QED  BY <2>1, <2>2, SameCall DEF UP!Next
<1>3. CASE AddHostAlias
  BY <1>3, SameCall DEF AddHostAlias, UP!Next
<1>4. CASE Kubelet
  BY <1>4, SameUpdater DEF Kubelet, UP!Next
<1>5. CASE Returned \/ UNCHANGED vars
  BY <1>5 DEF Returned, vars, deployer, exceptStep, updater, UP!vars, UP!kubelet, UpdaterFaults
<1>. QED  BY <1>1, <1>2, <1>3, <1>4, <1>5 DEF Next

-----------------------------------------------------------------------------
(* A step of DnsService is one of DnsDeployer, or none. *)

\* What the updater's step does for Deploy.
LEMMA AddNameserverStep ==
  ASSUME ServiceInv, AddNameserver
  PROVE  DP!AddNameserver \/ DP!AwaitRestart \/ DP!Fails \/ UNCHANGED DP!vars
<1>. DEFINE c == call
<1>0. /\ step \in {"addNameserver", "awaitRestart"} /\ UP!Call(c)
      /\ step' = StepOf(pc'[c]) /\ UNCHANGED exceptStep
      /\ c \in NameserverCalls /\ c \notin AliasCalls /\ ValueOf[c] = ip
      /\ c \in Calls
  BY CallType, SameCall DEF AddNameserver, call, Calls
<1>1. UNCHANGED <<DP!given, DP!asked, target, services, release, DP!service, config, ip>>
  BY <1>0 DEF exceptStep, DP!given, DP!asked, DP!service
<1>2. pc \in [Calls -> {"idle", "write", "goDown", "comeBack", "ok", "failed"}]
      /\ pod \in [Calls -> UP!Manifest]
  BY UpdaterTypes DEF ServiceInv
<1>3. /\ step = "addNameserver" => pc[c] \in {"idle", "write"}
      /\ step = "awaitRestart" => pc[c] \in {"goDown", "comeBack"} /\ pod[c].nameserver # ip
  BY DEF ServiceInv, CallInv
<1>4. DP!After("addNameserver") <=> step = "addNameserver" /\ step' = "awaitRestart"
  BY DP!StepsLength, DeployerAssumptions DEF DP!After, DP!Steps
<1>5. DP!After("awaitRestart") <=> step = "awaitRestart" /\ step' = "done"
  BY DP!StepsLength, DeployerAssumptions DEF DP!After, DP!Steps
<1>6. /\ "docker" \in UpdaterFaults <=> "api" \in faults
      /\ \A f \in {"probe", "missed", "slow"} : f \in UpdaterFaults <=> "timeout" \in faults
  BY DEF UpdaterFaults
<1>7. CASE UP!GetStaticPod(c)
  <2>1. pc[c] = "idle" /\ pc'[c] = "write" /\ manifest' = manifest
    BY <1>2, <1>0, <1>7 DEF UP!GetStaticPod, UP!MayStart, UP!To
  <2>. QED  BY <1>0, <1>1, <1>3, <2>1 DEF DP!vars, StepOf
<1>8. CASE UP!GetStaticPodFails(c)
  <2>1. pc[c] = "idle" /\ pc'[c] = "failed" /\ manifest' = manifest /\ "docker" \in UpdaterFaults
    BY <1>2, <1>0, <1>8 DEF UP!GetStaticPodFails, UP!MayStart, UP!To
  <2>. QED  BY <1>0, <1>1, <1>3, <1>6, <2>1 DEF DP!Fails, DP!Running, StepOf
<1>9. CASE UP!WriteToContainerFS(c)
  <2>1. pc[c] = "write" /\ pc'[c] = "goDown" /\ manifest' = UP!Patched(pod[c], c)
    BY <1>2, <1>0, <1>9 DEF UP!WriteToContainerFS, UP!To
  <2>2. manifest'.nameserver = ip
    BY <1>0, <1>2, <2>1 DEF UP!Patched, UP!Manifest
  <2>. QED  BY <1>0, <1>1, <1>3, <1>4, <2>1, <2>2 DEF DP!AddNameserver, DP!Call, StepOf
<1>10. CASE UP!WriteFails(c)
  <2>1. pc[c] = "write" /\ pc'[c] = "failed" /\ "docker" \in UpdaterFaults
    BY <1>2, <1>0, <1>10 DEF UP!WriteFails, UP!To
  <2>2. CASE manifest' = manifest
    BY <1>0, <1>1, <1>3, <1>6, <2>1, <2>2 DEF DP!Fails, DP!Running, StepOf
  <2>3. CASE manifest' = UP!Patched(pod[c], c)
    <3>1. manifest'.nameserver = ip
      BY <1>0, <1>2, <2>3 DEF UP!Patched, UP!Manifest
    <3>. QED  BY <1>0, <1>1, <1>3, <1>6, <2>1, <3>1 DEF DP!AddNameserver, DP!Call, StepOf
  <2>. QED  BY <1>10, <2>2, <2>3 DEF UP!WriteFails
<1>11. CASE UP!SeesServerDown(c) \/ UP!ProbeFails(c)
  <2>1. pc[c] = "goDown" /\ pc'[c] = "comeBack" /\ manifest' = manifest
    BY <1>2, <1>0, <1>11 DEF UP!SeesServerDown, UP!ProbeFails, UP!To
  <2>. QED  BY <1>0, <1>1, <1>3, <2>1 DEF DP!vars, StepOf
<1>12. CASE UP!SeesServerUp(c)
  <2>1. pc[c] = "comeBack" /\ pc'[c] = "ok" /\ manifest' = manifest
    BY <1>2, <1>0, <1>12 DEF UP!SeesServerUp, UP!To
  <2>. QED  BY <1>0, <1>1, <1>3, <1>5, <2>1 DEF DP!AwaitRestart, StepOf
<1>13. CASE UP!TimesOut(c)
  <2>1. pc[c] \in {"goDown", "comeBack"} /\ pc'[c] = "failed" /\ manifest' = manifest
    BY <1>2, <1>0, <1>13 DEF UP!TimesOut, UP!To
  <2>2. "api" \in faults \/ "timeout" \in faults
    <3>. SUFFICES ASSUME UpdaterFaults = {} PROVE FALSE
      BY <1>6 DEF UpdaterFaults
    <3>1. pc[c] = "goDown" /\ UP!Settled
      BY <1>13 DEF UP!TimesOut
    <3>2. UP!Changes(c)
      BY <1>0, <1>2, <1>3, <2>1 DEF UP!Changes, UP!Patched, UP!Manifest
    <3>. QED  BY <1>0, <3>1, <3>2, UP!ChangeRestarts, UpdaterAssumptions DEF ServiceInv, Calls
  <2>3. step = "awaitRestart"
    BY <1>0, <1>3, <2>1
  <2>. QED  BY <1>0, <1>1, <2>1, <2>2, <2>3 DEF DP!Fails, DP!Running, DP!Awaits, StepOf
<1>. QED
  BY <1>0, <1>7, <1>8, <1>9, <1>10, <1>11, <1>12, <1>13 DEF UP!Call

LEMMA DeployerStep ==
  ASSUME ServiceInv, [Next]_vars
  PROVE  [DP!Next]_(DP!vars)
<1>. USE DEF deployer, exceptStep, updater, DP!vars, DP!given, DP!asked, DP!service
<1>1. CASE Deploy \/ DeployAgain \/ Controllers
  BY <1>1, SameDeployer DEF Deploy, DeployAgain, Controllers, D!Next
<1>2. CASE AddNameserver
  BY <1>2, AddNameserverStep DEF DP!Next, DP!Deploy
<1>3. CASE AddHostAlias
  <2>1. PICK c \in AliasCalls : UP!Call(c)
    BY <1>3, SameCall DEF AddHostAlias
  <2>2. manifest' = manifest \/ manifest' = UP!Patched(manifest, c)
    BY <2>1 DEF ServiceInv, UP!UpdaterInv, UP!EditInv, UP!Call, UP!GetStaticPod,
       UP!GetStaticPodFails, UP!WriteToContainerFS, UP!WriteFails, UP!SeesServerDown,
       UP!ProbeFails, UP!SeesServerUp, UP!TimesOut
  <2>3. manifest'.nameserver = manifest.nameserver
    BY <2>2, UpdaterTypes DEF ServiceInv, UP!Patched, UP!Manifest
  <2>. QED  BY <1>3, <2>3 DEF AddHostAlias
<1>4. CASE Kubelet
  BY <1>4 DEF Kubelet, U!Kubelet, U!KubeletReads, U!KubeletStops, U!KubeletStarts
<1>5. CASE Returned \/ UNCHANGED vars
  BY <1>5 DEF Returned, vars
<1>. QED  BY <1>1, <1>2, <1>3, <1>4, <1>5 DEF Next
-----------------------------------------------------------------------------
(* CallInv. *)

\* What the calls of Deploy before that of the updater do to its control.
LEMMA DeployMoves ==
  ASSUME DP!DeployInv, DP!Deploy, step \notin {"addNameserver", "awaitRestart"}
  PROVE  /\ step \notin {"done", "failed"} /\ (request' = "absent" => request = "absent")
         /\ step' \notin {"createRequest", "awaitRestart", "done"}
         /\ step = "createRequest" /\ step' # "failed" => request = "absent"
         /\ step' = "addNameserver" =>
              step = "readDNSIP" /\ ip' = <<target, "coredns">> /\ target' = target
<1>. USE DEF DP!given, DP!asked, DP!service, DP!Call
<1>0. /\ DP!After("createRequest") => step' = "awaitRequest"
      /\ DP!After("awaitRequest")  => step' = "awaitClusters"
      /\ DP!After("awaitClusters") => step' = "createAccess"
      /\ DP!After("createAccess")  => step' = "awaitAccess"
      /\ DP!After("awaitAccess")   => step' = "awaitSecret"
      /\ DP!After("awaitSecret")   => step' = "findCluster"
  BY DP!ClusterSuccessors, DeployerAssumptions
<1>1. /\ DP!After("findCluster")   => step' = "createEtcd"
      /\ DP!After("createEtcd")    => step' = "createCoreDNS"
      /\ DP!After("createCoreDNS") => step' = "readEtcdIP"
      /\ DP!After("readEtcdIP")    => step' = "createService"
      /\ DP!After("createService") => step' = "createConfig"
      /\ DP!After("createConfig")  => step' = "awaitService"
      /\ DP!After("awaitService")  => step' = "readDNSIP"
      /\ DP!After("readDNSIP")     => step' = "addNameserver"
  BY DP!DeploySuccessors, DP!ServiceSuccessors, DeployerAssumptions
<1>2. \A s : DP!After(s) => step = s
  BY DEF DP!After
<1>3. CASE DP!CreateRequest
  BY <1>0, <1>2, <1>3 DEF DP!CreateRequest, DP!Creatable
<1>4. CASE DP!AwaitGranted \/ DP!CreateAccess
  BY <1>0, <1>2, <1>4 DEF DP!AwaitGranted, DP!CreateAccess
<1>5. CASE DP!FindCluster \/ DP!CreateEtcd \/ DP!CreateCoreDNS \/ DP!CreateService
  BY <1>1, <1>2, <1>5 DEF DP!FindCluster, DP!CreateEtcd, DP!CreateCoreDNS, DP!CreateService
<1>6. CASE DP!GetLoadBalancerIP
  <2>1. PICK s \in {"etcd", "coredns"} :
          /\ DP!After(IF s = "etcd" THEN "readEtcdIP" ELSE "readDNSIP")
          /\ ip' = <<target, s>>
    BY <1>6 DEF DP!GetLoadBalancerIP
  <2>2. UNCHANGED <<request, target>>
    BY <1>6 DEF DP!GetLoadBalancerIP
  <2>3. CASE s = "etcd"
    BY <1>1, <1>2, <2>1, <2>2, <2>3
  <2>4. CASE s = "coredns"
    BY <1>1, <1>2, <2>1, <2>2, <2>4
  <2>. QED  BY <2>1, <2>3, <2>4
<1>7. CASE DP!CreateConfig \/ DP!CreateConfigAgain \/ DP!AwaitService
  BY <1>1, <1>2, <1>7 DEF DP!CreateConfig, DP!CreateConfigAgain, DP!AwaitService
<1>8. CASE DP!AddNameserver \/ DP!AwaitRestart
  BY <1>2, <1>8 DEF DP!AddNameserver, DP!AwaitRestart
<1>9. CASE DP!Fails
  BY <1>9 DEF DP!Fails, DP!Running
<1>. QED
  BY <1>3, <1>4, <1>5, <1>6, <1>7, <1>8, <1>9 DEF DP!Deploy

\* What a call of the updater does to the calls.
LEMMA CallMoves ==
  ASSUME ServiceInv, NEW c \in Calls, UP!Call(c)
  PROVE  /\ \A d \in Calls \ {c} : pc'[d] = pc[d] /\ pod'[d] = pod[d]
         /\ \/ pc[c] = "idle" /\ pc'[c] \in {"write", "failed"}
            \/ pc[c] = "write" /\ pc'[c] \in {"goDown", "failed"} /\ pod'[c] = manifest
            \/ pc[c] = "goDown" /\ pc'[c] \in {"comeBack", "failed"} /\ pod'[c] = pod[c]
            \/ pc[c] = "comeBack" /\ pc'[c] \in {"ok", "failed"} /\ pod'[c] = pod[c]
<1>1. /\ pc \in [Calls -> {"idle", "write", "goDown", "comeBack", "ok", "failed"}]
      /\ pod \in [Calls -> UP!Manifest]
  BY UpdaterTypes DEF ServiceInv
<1>2. pc[c] = "write" => pod[c] = manifest
  BY DEF ServiceInv, UP!UpdaterInv, UP!EditInv, Calls
<1>. QED
  BY <1>1, <1>2 DEF UP!Call, UP!GetStaticPod, UP!GetStaticPodFails, UP!WriteToContainerFS,
     UP!WriteFails, UP!SeesServerDown, UP!ProbeFails, UP!SeesServerUp, UP!TimesOut,
     UP!MayStart, UP!To

LEMMA CallInvStep ==
  ASSUME ServiceInv, [Next]_vars
  PROVE  CallInv'
<1>. USE DEF ServiceInv, CallInv, call
<1>1. CASE Deploy
  <2>1. UNCHANGED updater /\ DP!Deploy /\ step \notin {"addNameserver", "awaitRestart"}
    BY <1>1, SameDeploy DEF Deploy
  <2>2. \A c \in NameserverCalls : pc'[c] = pc[c]
    BY <2>1 DEF updater
  <2>3. /\ step \notin {"done", "failed"} /\ (request' = "absent" => request = "absent")
        /\ step' \notin {"createRequest", "awaitRestart", "done"}
        /\ step = "createRequest" /\ step' # "failed" => request = "absent"
        /\ step' = "addNameserver" =>
             step = "readDNSIP" /\ ip' = <<target, "coredns">> /\ target' = target
    BY <2>1, DeployMoves
  <2>4. request = "absent" \/ step # "createRequest" => \A c \in NameserverCalls : pc[c] = "idle"
    BY <2>1, <2>3
  <2>5. step' = "addNameserver" => call' \in NameserverCalls
    <3>. SUFFICES ASSUME step' = "addNameserver" PROVE call' \in NameserverCalls
      OBVIOUS
    <3>1. target \in {"own", "leftover"} /\ ip' = <<target, "coredns">>
      BY <2>3 DEF DP!DeployInv, DP!Found, DP!FoundSteps
    <3>2. attempt' \in 1..MaxDeploys
      BY DeployerStep, DP!NextDeploy, DeployerAssumptions DEF DP!DeployInv, DP!TypeOK
    <3>. QED  BY <3>1, <3>2, CallsAndValues DEF DP!Services
  <2>. QED  BY <2>1, <2>2, <2>3, <2>4, <2>5
<1>2. CASE AddNameserver
  <2>1. /\ step \in {"addNameserver", "awaitRestart"} /\ UP!Call(call)
        /\ step' = StepOf(pc'[call]) /\ UNCHANGED exceptStep
        /\ call \in NameserverCalls /\ call \in Calls
    BY <1>2, CallType, SameCall DEF AddNameserver, Calls
  <2>2. call' = call /\ UNCHANGED <<ip, target, request>> /\ request # "absent"
    BY <2>1 DEF exceptStep, DP!DeployInv, DP!WiredInv, DP!RequestInv
  <2>3. \A c \in NameserverCalls : c # call => pc'[c] = "idle"
    BY <2>1, CallMoves DEF Calls
  <2>4. step = "addNameserver" => manifest.nameserver # ip
    <3>1. step = "addNameserver" => manifest.nameserver = DP!Nothing
      BY DEF DP!DeployInv, DP!WiredInv, DP!NameserverInv
    <3>. QED  BY <2>1, <3>1 DEF DP!Nothing
  <2>5. /\ pc'[call] \in {"write", "goDown", "comeBack", "ok", "failed"}
        /\ pc'[call] = "goDown" => step = "addNameserver" /\ pod'[call] = manifest
        /\ pc'[call] = "comeBack" => step = "awaitRestart" /\ pod'[call] = pod[call]
    BY <2>1, CallMoves
  <2>. QED  BY <2>1, <2>2, <2>3, <2>4, <2>5 DEF StepOf
<1>3. CASE AddHostAlias
  <2>1. PICK c \in AliasCalls : UP!Call(c)
    BY <1>3, SameCall DEF AddHostAlias
  <2>2. \A d \in NameserverCalls : pc'[d] = pc[d] /\ pod'[d] = pod[d]
    BY <2>1, CallMoves, CallsAndValues DEF Calls
  <2>. QED  BY <1>3, <2>2, CallType DEF AddHostAlias, deployer, exceptStep
<1>4. CASE DeployAgain
  <2>1. /\ step' = "createRequest" /\ request' = request /\ UNCHANGED updater
        /\ step \in {"done", "failed"}
    BY <1>4, SameConstants DEF DeployAgain, D!DeployAgain, D!Running, D!asked, DP!Steps
  <2>. QED  BY <2>1 DEF updater
<1>5. CASE Controllers
  <2>1. UNCHANGED <<updater, step, attempt, ip, target>> /\ (request' = "absent" => request = "absent")
    BY <1>5 DEF Controllers, D!ClusterControllers, D!OtherGetsReady, D!AssignAddress,
       D!InstallCoreDNS, D!ServiceControllers, D!given, D!asked
  <2>. QED  BY <2>1 DEF updater
<1>6. CASE Kubelet \/ Returned \/ UNCHANGED vars
  <2>1. UNCHANGED <<deployer, pc, pod>>
    BY <1>6 DEF Kubelet, U!Kubelet, U!KubeletReads, U!KubeletStops, U!KubeletStarts,
       Returned, vars, updater
  <2>. QED  BY <2>1 DEF deployer, exceptStep
<1>. QED  BY <1>1, <1>2, <1>3, <1>4, <1>5, <1>6 DEF Next

-----------------------------------------------------------------------------
(* The theorems. *)

LEMMA InitService == Init => ServiceInv
<1>. SUFFICES ASSUME Init PROVE ServiceInv
  OBVIOUS
<1>1. DP!Init /\ UP!Init
  BY SameDeployer, SameUpdater DEF Init
<1>2. DP!DeployInv
  BY <1>1, DP!InitDeploy, DeployerAssumptions
<1>3. UP!UpdaterInv
  BY <1>1, UP!InitUpdaterInv, UpdaterAssumptions
<1>4. CallInv
  BY <1>1 DEF CallInv, DP!Init, DP!Steps, UP!Init
<1>. QED  BY <1>2, <1>3, <1>4 DEF ServiceInv

LEMMA ServiceInvStep == ServiceInv /\ [Next]_vars => ServiceInv'
<1>. SUFFICES ASSUME ServiceInv, [Next]_vars PROVE ServiceInv'
  OBVIOUS
<1>1. DP!DeployInv'
  BY DeployerStep, DP!NextDeploy, DeployerAssumptions DEF ServiceInv
<1>2. UP!UpdaterInv'
  BY UpdaterStep, UP!UpdaterInvStep, UpdaterAssumptions DEF ServiceInv
<1>. QED  BY <1>1, <1>2, CallInvStep DEF ServiceInv

LEMMA ServiceInvHolds == Spec => []ServiceInv
BY InitService, ServiceInvStep, PTL DEF Spec

\* TypeOK: the deployer, the updater and what they share keep their types.
THEOREM TypeCorrect == Spec => []TypeOK
<1>1. ServiceInv => TypeOK
  BY SameDeployer, SameUpdater DEF ServiceInv, DP!DeployInv, UP!UpdaterInv, TypeOK
<1>. QED  BY <1>1, ServiceInvHolds, PTL

\* ImplementsDnsDeployer: with the calls of the updater command by command (updater.go),
\* Deploy does what DnsDeployer says of it (deployer.go:158-217).
THEOREM ServiceImplementsDeployer == Spec => ImplementsDnsDeployer
<1>1. Init => D!Init
  BY DEF Init
<1>2. ServiceInv /\ [Next]_vars => [D!Next]_(D!vars)
  BY DeployerStep, SameDeployer
     DEF D!vars, DP!vars, D!given, DP!given, D!asked, DP!asked, D!service, DP!service
<1>. QED  BY <1>1, <1>2, ServiceInvHolds, PTL DEF Spec, ImplementsDnsDeployer

\* SuccessMeansAsked: after a Deploy without error the API server asks its CoreDNS and
\* knows the aliases of the tests, if no restart has been left behind.
THEOREM AskedWhenDone == Spec => []SuccessMeansAsked
<1>1. ServiceInv => SuccessMeansAsked
  <2>. SUFFICES ASSUME ServiceInv, "timeout" \notin faults, step = "done",
                       \A c \in AliasCalls : pc[c] # "failed"
                PROVE  /\ running.nameserver = ip
                       /\ \A c \in AliasCalls : pc[c] = "ok" => U!Holds(running, c)
    BY DEF SuccessMeansAsked
  <2>1. /\ call \in NameserverCalls /\ call \notin AliasCalls /\ ValueOf[call] = ip
        /\ pc[call] = "ok" /\ \A c \in NameserverCalls : c # call => pc[c] = "idle"
    BY CallType DEF ServiceInv, CallInv
  <2>2. UP!NoFailures
    BY <2>1 DEF UP!NoFailures, UpdaterFaults
  <2>3. \A c \in Calls : pc[c] = "ok" /\ UP!Stays(c) => UP!Holds(running, c)
    BY <2>2 DEF ServiceInv, UP!UpdaterInv, UP!KnownInv, Calls
  <2>4. UP!Holds(running, call)
    <3>1. UP!Stays(call)
      BY <2>1 DEF UP!Stays
    <3>. QED  BY <2>1, <2>3, <3>1 DEF Calls
  <2>5. \A c \in AliasCalls : UP!Stays(c)
    BY DEF UP!Stays
  <2>. QED  BY <2>1, <2>3, <2>4, <2>5, SameUpdater DEF UP!Holds, Calls
<1>. QED  BY <1>1, ServiceInvHolds, PTL

-----------------------------------------------------------------------------
(* Aliases of tests and nameservers of Deploy in one manifest. *)

LEMMA SameAliases == U!NoAliasLost <=> UP!NoAliasLost
BY SameUpdater DEF U!NoAliasLost, UP!NoAliasLost

\* AliasesKept: host aliases that tests have added outlive any number of Deploys,
\* failed or not, because AddNameserver and AddHostAlias (updater.go:78-112) edit
\* what is in the file, and no call starts during another one.
THEOREM AliasesOutlive == Spec => []AliasesKept
<1>1. Init => AliasesKept
  BY SameUpdater, SameAliases DEF Init, AliasesKept, UP!Init, UP!NoAliasLost
<1>2. ServiceInv /\ AliasesKept /\ [Next]_vars => AliasesKept'
  <2>. SUFFICES ASSUME ServiceInv, AliasesKept, [Next]_vars PROVE AliasesKept'
    OBVIOUS
  <2>1. UP!NoAliasLost'
    BY UpdaterStep, UP!NoAliasLostStep, UpdaterAssumptions, SameAliases
       DEF ServiceInv, UP!UpdaterInv, AliasesKept
  <2>. QED  BY <2>1 DEF AliasesKept, U!NoAliasLost, UP!NoAliasLost, U!Holds, UP!Holds
<1>. QED  BY <1>1, <1>2, ServiceInvHolds, PTL DEF Spec

-----------------------------------------------------------------------------
(* From the manifest to the running API server. *)

\* What is set up before the API server may be given the nameserver s.
SetUp(s) ==
  \/ s = DP!Nothing
  \/ /\ s \in DP!Services
     /\ psDNS = "ready" /\ services[s] = "addressed" /\ config = <<s[1], "etcd">>

\* It is for the manifest in the file, with the kubelet, and in the API server.
AsksInv ==
  SetUp(manifest.nameserver) /\ SetUp(staticPod.nameserver) /\ SetUp(running.nameserver)

LEMMA InitAsks == Init => AsksInv
BY SameUpdater, SameConstants DEF Init, AsksInv, SetUp, UP!Init, UP!InitialManifest

\* What is set up stays, and so does what has been read from the file.
LEMMA SetUpStays ==
  ASSUME ServiceInv, [Next]_vars, NEW s, SetUp(s)
  PROVE  \/ s = DP!Nothing
         \/ /\ s \in DP!Services
            /\ psDNS' = "ready" /\ services'[s] = "addressed" /\ config' = <<s[1], "etcd">>
BY DeployerStep, DP!WiringStays, DeployerAssumptions DEF ServiceInv, SetUp

\* Deploy writes the nameserver into the file when all else is set up, ...
LEMMA ManifestAsks ==
  ASSUME ServiceInv, AsksInv, [Next]_vars
  PROVE  SetUp(manifest.nameserver)'
<1>1. CASE manifest'.nameserver = manifest.nameserver
  BY <1>1, SetUpStays DEF AsksInv, SetUp
<1>2. CASE manifest'.nameserver # manifest.nameserver
  <2>. DEFINE s == manifest'.nameserver
  <2>1. /\ psDNS = "ready" /\ config # DP!Nothing /\ services[s] = "addressed"
        /\ config = <<s[1], "etcd">>
    BY <1>2, DeployerStep, DP!NameserverStep, DeployerAssumptions DEF ServiceInv
  <2>2. s \in DP!Services \cup {DP!Nothing}
    BY DeployerStep, DP!NextDeploy, DeployerAssumptions DEF ServiceInv, DP!DeployInv, DP!TypeOK
  <2>3. SetUp(s)
    BY <2>1, <2>2 DEF SetUp
  <2>. HIDE DEF s
  <2>4. \/ s = DP!Nothing
        \/ /\ s \in DP!Services
           /\ psDNS' = "ready" /\ services'[s] = "addressed" /\ config' = <<s[1], "etcd">>
    BY <2>3, SetUpStays
  <2>. QED  BY <2>4 DEF SetUp, s
<1>. QED  BY <1>1, <1>2

\* ... and the kubelet passes on what is in the file.
LEMMA AsksInvStep == ServiceInv /\ AsksInv /\ [Next]_vars => AsksInv'
<1>. SUFFICES ASSUME ServiceInv, AsksInv, [Next]_vars PROVE AsksInv'
  OBVIOUS
<1>1. staticPod' \in {staticPod, manifest} /\ running' \in {running, staticPod}
  BY UpdaterStep DEF UP!Next, UP!Call, UP!GetStaticPod, UP!GetStaticPodFails,
     UP!WriteToContainerFS, UP!WriteFails, UP!SeesServerDown, UP!ProbeFails, UP!SeesServerUp,
     UP!TimesOut, UP!Kubelet, UP!KubeletReads, UP!KubeletStops, UP!KubeletStarts,
     UP!Finished, UP!vars, UP!kubelet
<1>2. SetUp(staticPod.nameserver)'
  BY <1>1, SetUpStays DEF AsksInv, SetUp
<1>3. SetUp(running.nameserver)'
  BY <1>1, SetUpStays DEF AsksInv, SetUp
<1>. QED  BY <1>2, <1>3, ManifestAsks DEF AsksInv

\* NeverAsksTooEarly: whenever the API server is restarted, by whichever call and
\* however late, it asks a nameserver only when all of Deploy's other steps
\* (deployer.go:158-210) are done and still hold.
THEOREM NeverTooEarly == Spec => []NeverAsksTooEarly
<1>1. AsksInv => NeverAsksTooEarly
  BY SameConstants DEF AsksInv, SetUp, NeverAsksTooEarly
<1>. QED  BY <1>1, InitAsks, AsksInvStep, ServiceInvHolds, PTL DEF Spec
-----------------------------------------------------------------------------
(* What each of the two modules promises holds of the other one's behaviour. *)

\* The promises of Deploy and of a call of the updater, of the two together.
PartsKeepTheirPromises ==
  /\ []D!SuccessMeansWired /\ []D!SameCluster /\ D!NameserverLast
  /\ U!SuccessMeansServed

\* SuccessMeansWired, SameCluster and NameserverLast of DnsDeployer and
\* SuccessMeansServed of ApiServerUpdater, proved there with an atomic AddNameserver
\* and without Deploy: together they hold as well.
THEOREM PartsCompose == Spec => PartsKeepTheirPromises
<1>1. ServiceInv => D!SuccessMeansWired /\ D!SameCluster
  BY SameConstants
     DEF ServiceInv, DP!DeployInv, DP!Found, DP!FoundSteps, DP!WiredInv, DP!ConfigInv,
     DP!NameserverInv, DP!SameCluster, D!SuccessMeansWired, D!SameCluster
<1>2. ServiceInv /\ [Next]_vars
        => [manifest.nameserver' # manifest.nameserver =>
              /\ psDNS = "ready" /\ config # D!Nothing
              /\ services[manifest.nameserver'] = "addressed"]_(D!vars)
  BY DeployerStep, DP!NameserverStep, DeployerAssumptions, SameConstants DEF ServiceInv
<1>3. ServiceInv /\ [Next]_vars
        => [UpdaterFaults \subseteq {"missed"} => \A c \in Calls : U!Served(c)]_(U!vars)
  BY UpdaterStep, UP!ServedStep, UpdaterAssumptions
     DEF ServiceInv, UP!UpdaterInv, U!Served, UP!Served, U!Holds, UP!Holds, Calls
<1>. QED
  BY <1>1, <1>2, <1>3, ServiceInvHolds, PTL
  DEF Spec, PartsKeepTheirPromises, D!NameserverLast, U!SuccessMeansServed, Calls
=============================================================================
