--------------------------- MODULE DnsDeployerProofs ---------------------------
(***************************************************************************)
(* Theorems about DnsDeployer, for any other clusters, any faults and any  *)
(* number of calls of Deploy: type correctness, and that what Deploy wires *)
(* up belongs together.  At most one Deploy gets past the creation of its  *)
(* ClusterRequest (WiredInv), and what that one sets comes from one        *)
(* look-up of the cluster.                                                 *)
(***************************************************************************)
EXTENDS DnsDeployer, TLAPS

-----------------------------------------------------------------------------
(* The order of the calls. *)

LEMMA StepsLength == Len(Steps) = 17 /\ DOMAIN Steps = 1..17
  BY DEF Steps

\* What follows each call of createCluster ...
LEMMA ClusterSuccessors ==
  /\ After("createRequest") => step' = "awaitRequest"
  /\ After("awaitRequest")  => step' = "awaitClusters"
  /\ After("awaitClusters") => step' = "createAccess"
  /\ After("createAccess")  => step' = "awaitAccess"
  /\ After("awaitAccess")   => step' = "awaitSecret"
  /\ After("awaitSecret")   => step' = "findCluster"
  BY StepsLength DEF After, Steps

\* ... and of the rest of Deploy.
LEMMA DeploySuccessors ==
  /\ After("findCluster")   => step' = "createEtcd"
  /\ After("createEtcd")    => step' = "createCoreDNS"
  /\ After("createCoreDNS") => step' = "readEtcdIP"
  /\ After("readEtcdIP")    => step' = "createService"
  /\ After("createService") => step' = "createConfig"
  BY StepsLength DEF After, Steps

LEMMA ServiceSuccessors ==
  /\ After("createConfig")  => step' = "awaitService"
  /\ After("awaitService")  => step' = "readDNSIP"
  /\ After("readDNSIP")     => step' = "addNameserver"
  /\ After("addNameserver") => step' = "awaitRestart"
  /\ After("awaitRestart")  => step' = "done"
  BY StepsLength DEF After, Steps

\* A call is followed by one of Deploy's steps.
LEMMA AfterType ==
  ASSUME NEW s, After(s)
  PROVE  step = s /\ step' \in ToSet(Steps)
  BY StepsLength DEF After, ToSet

LEMMA CallType ==
  ASSUME NEW s, Call(s)
  PROVE  step = s /\ step' \in ToSet(Steps) \cup {"failed"}
  BY AfterType DEF Call

-----------------------------------------------------------------------------
(* Type correctness. *)

\* Once Deploy has looked up its cluster, it has one.
FoundSteps ==
  {"createEtcd", "createCoreDNS", "readEtcdIP", "createService", "createConfig",
   "awaitService", "readDNSIP", "addNameserver", "awaitRestart", "done"}

Found ==
  step \in FoundSteps => target \in {"own", "leftover"} /\ (~leftover => target = "own")

LEMMA InitFound == Init => Found
  BY DEF Init, Found, FoundSteps, Steps

LEMMA NextFound == TypeOK /\ Found /\ [Next]_vars => Found'
<1>. SUFFICES ASSUME TypeOK, Found, [Next]_vars PROVE Found'
  OBVIOUS
<1>. USE DEF Found, FoundSteps, given
<1>1. CASE CreateRequest \/ AwaitGranted \/ CreateAccess
  BY <1>1, ClusterSuccessors DEF CreateRequest, AwaitGranted, CreateAccess, Call
<1>2. CASE FindCluster
  BY <1>2 DEF FindCluster
<1>3. CASE CreateEtcd \/ CreateCoreDNS \/ CreateService \/ AddNameserver
  BY <1>3, CallType DEF CreateEtcd, CreateCoreDNS, CreateService, AddNameserver
<1>4. CASE GetLoadBalancerIP
  BY <1>4, AfterType DEF GetLoadBalancerIP
<1>5. CASE CreateConfig \/ CreateConfigAgain \/ AwaitService \/ AwaitRestart
  BY <1>5, AfterType DEF CreateConfig, CreateConfigAgain, AwaitService, AwaitRestart
<1>6. CASE Fails
  BY <1>6 DEF Fails
<1>7. CASE DeployAgain
  BY <1>7 DEF DeployAgain, Steps
<1>8. CASE UNCHANGED <<step, target, leftover>>
  BY <1>8
<1>. QED
  BY <1>1, <1>2, <1>3, <1>4, <1>5, <1>6, <1>7, <1>8
  DEF Next, Deploy, Returned, vars, ClusterControllers, OtherGetsReady, AssignAddress,
      InstallCoreDNS, ServiceControllers

LEMMA InitType == Init => TypeOK
<1>. SUFFICES ASSUME Init PROVE TypeOK
  OBVIOUS
<1>1. step \in ToSet(Steps)
  BY StepsLength DEF Init, ToSet
<1>2. services \in [Services -> {"absent", "created", "addressed"}]
  BY DEF Init
<1>3. flux \in BOOLEAN /\ leftover \in BOOLEAN /\ release \in BOOLEAN /\ discovered \in BOOLEAN
  BY Zenon DEF Init
<1>. QED
  BY <1>1, <1>2, <1>3, DeploysAssumption DEF Init, TypeOK

LEMMA NextType == TypeOK /\ Found /\ [Next]_vars => TypeOK'
<1>. SUFFICES ASSUME TypeOK, Found, [Next]_vars PROVE TypeOK'
  OBVIOUS
<1>. USE DEF TypeOK, given, asked, service
<1>1. CASE CreateRequest \/ CreateAccess
  BY <1>1, CallType DEF CreateRequest, CreateAccess
<1>2. CASE AwaitGranted
  BY <1>2, AfterType DEF AwaitGranted
<1>3. CASE FindCluster
  BY <1>3, AfterType DEF FindCluster
<1>4. CASE CreateEtcd
  <2>1. step' \in ToSet(Steps) \cup {"failed"}
    BY <1>4, CallType DEF CreateEtcd
  <2>2. services' \in [Services -> {"absent", "created", "addressed"}]
    BY <1>4 DEF CreateEtcd
  <2>. QED  BY <1>4, <2>1, <2>2 DEF CreateEtcd
<1>5. CASE CreateCoreDNS \/ CreateService
  <2>1. step' \in ToSet(Steps) \cup {"failed"}
    BY <1>5, CallType DEF CreateCoreDNS, CreateService
  <2>2. release' \in {release, TRUE} /\ psDNS' \in {psDNS, "present"}
    BY <1>5 DEF CreateCoreDNS, CreateService
  <2>3. release' \in BOOLEAN /\ psDNS' \in {"absent", "present", "ready"}
    BY <2>2
  <2>4. UNCHANGED <<given, asked, target, services, discovered, config, ip, nameserver>>
    BY <1>5 DEF CreateCoreDNS, CreateService
  <2>. QED  BY <2>1, <2>3, <2>4
<1>6. CASE GetLoadBalancerIP
  <2>1. PICK s \in {"etcd", "coredns"} :
          /\ After(IF s = "etcd" THEN "readEtcdIP" ELSE "readDNSIP")
          /\ ip' = <<target, s>>
    BY <1>6 DEF GetLoadBalancerIP
  <2>2. step \in {"readEtcdIP", "readDNSIP"} /\ step' \in ToSet(Steps)
    BY <2>1, AfterType
  <2>3. ip' \in Services
    BY <2>1, <2>2 DEF Found, FoundSteps, Services
  <2>. QED  BY <1>6, <2>2, <2>3 DEF GetLoadBalancerIP
<1>7. CASE CreateConfig \/ CreateConfigAgain
  BY <1>7, AfterType DEF CreateConfig, CreateConfigAgain
<1>8. CASE AwaitService \/ AwaitRestart
  BY <1>8, AfterType DEF AwaitService, AwaitRestart
<1>9. CASE AddNameserver
  BY <1>9, CallType DEF AddNameserver
<1>10. CASE Fails
  BY <1>10 DEF Fails
<1>11. CASE DeployAgain
  BY <1>11, StepsLength, DeploysAssumption DEF DeployAgain, ToSet
<1>12. CASE ClusterControllers
  BY <1>12 DEF ClusterControllers
<1>13. CASE OtherGetsReady
  BY <1>13 DEF OtherGetsReady
<1>14. CASE AssignAddress \/ InstallCoreDNS
  BY <1>14 DEF AssignAddress, InstallCoreDNS
<1>15. CASE ServiceControllers
  <2>1. psDNS' \in {psDNS, "ready"} /\ discovered' \in {discovered, TRUE}
    BY <1>15 DEF ServiceControllers
  <2>2. UNCHANGED <<given, step, asked, target, services, release, config, ip, nameserver>>
    BY <1>15 DEF ServiceControllers
  <2>3. psDNS' \in {"absent", "present", "ready"} /\ discovered' \in BOOLEAN
    BY <2>1
  <2>. QED  BY <2>2, <2>3
<1>16. CASE UNCHANGED vars
  BY <1>16 DEF vars
<1>. QED
  BY <1>1, <1>2, <1>3, <1>4, <1>5, <1>6, <1>7, <1>8, <1>9, <1>10, <1>11, <1>12, <1>13,
     <1>14, <1>15, <1>16 DEF Next, Deploy, Returned

\* TypeOK: the variables keep their types; the cluster Deploy finds is one with
\* its prefix.
THEOREM TypeCorrect == Spec => []TypeOK
<1>1. TypeOK /\ Found /\ [Next]_vars => TypeOK' /\ Found'
  BY NextType, NextFound
<1>. QED  BY <1>1, InitType, InitFound, PTL DEF Spec

-----------------------------------------------------------------------------
(* What Deploy wires up. *)

\* Before there is a ClusterRequest nothing is wired up.  The Deploy that creates it
\* is the only one that goes on, and sets the config and the nameserver step by step.
RequestInv ==
  /\ step \notin {"createRequest", "failed"} => request # "absent"
  /\ request = "absent" => config = Nothing /\ nameserver = Nothing

ConfigInv ==
  /\ step \in {"awaitRequest", "awaitClusters", "createAccess", "awaitAccess", "awaitSecret",
               "findCluster", "createEtcd", "createCoreDNS", "readEtcdIP", "createService"}
       => config = Nothing
  /\ step \in {"createService", "createConfig"} => ip = <<target, "etcd">>
  /\ step = "createConfig" => config \in {Nothing, ip}
  /\ step \in {"awaitService", "readDNSIP", "addNameserver", "awaitRestart", "done"}
       => config = <<target, "etcd">>

NameserverInv ==
  /\ step \in {"readDNSIP", "addNameserver", "awaitRestart", "done"} => psDNS = "ready"
  /\ step = "addNameserver" => ip = <<target, "coredns">> /\ services[ip] = "addressed"
  /\ step \notin {"createRequest", "failed", "awaitRestart", "done"} => nameserver = Nothing
  /\ step \in {"awaitRestart", "done"} => nameserver = <<target, "coredns">>

WiredInv == RequestInv /\ ConfigInv /\ NameserverInv /\ SameCluster

LEMMA InitWired == Init => WiredInv
  BY DEF Init, WiredInv, RequestInv, ConfigInv, NameserverInv, SameCluster, Steps

LEMMA NextWired == TypeOK /\ Found /\ WiredInv /\ [Next]_vars => WiredInv'
<1>. SUFFICES ASSUME TypeOK, Found, WiredInv, [Next]_vars PROVE WiredInv'
  OBVIOUS
<1>. USE DEF WiredInv, RequestInv, ConfigInv, NameserverInv, SameCluster, given, asked, service
<1>1. CASE CreateRequest
  BY <1>1, ClusterSuccessors DEF CreateRequest, Call, Creatable
<1>2. CASE AwaitGranted
  BY <1>2, ClusterSuccessors, AfterType DEF AwaitGranted
<1>3. CASE CreateAccess
  BY <1>3, ClusterSuccessors, AfterType DEF CreateAccess, Call
<1>4. CASE FindCluster
  BY <1>4, DeploySuccessors, AfterType DEF FindCluster
<1>5. CASE CreateEtcd
  BY <1>5, DeploySuccessors, AfterType DEF CreateEtcd, Call
<1>6. CASE CreateCoreDNS
  BY <1>6, DeploySuccessors, AfterType DEF CreateCoreDNS, Call
<1>7. CASE GetLoadBalancerIP
  <2>1. PICK s \in {"etcd", "coredns"} :
          /\ After(IF s = "etcd" THEN "readEtcdIP" ELSE "readDNSIP")
          /\ services[<<target, s>>] = "addressed" /\ ip' = <<target, s>>
    BY <1>7 DEF GetLoadBalancerIP
  <2>2. CASE s = "etcd"
    BY <1>7, <2>1, <2>2, DeploySuccessors, AfterType DEF GetLoadBalancerIP
  <2>3. CASE s = "coredns"
    BY <1>7, <2>1, <2>3, ServiceSuccessors, AfterType DEF GetLoadBalancerIP
  <2>. QED  BY <2>1, <2>2, <2>3
<1>8. CASE CreateService
  BY <1>8, DeploySuccessors, AfterType DEF CreateService, Call
<1>9. CASE CreateConfig
  BY <1>9, ServiceSuccessors, AfterType DEF CreateConfig
<1>10. CASE CreateConfigAgain
  BY <1>10 DEF CreateConfigAgain
<1>11. CASE AwaitService
  BY <1>11, ServiceSuccessors, AfterType DEF AwaitService
<1>12. CASE AddNameserver
  BY <1>12, ServiceSuccessors, AfterType DEF AddNameserver, Call
<1>13. CASE AwaitRestart
  BY <1>13, ServiceSuccessors, AfterType DEF AwaitRestart
<1>14. CASE Fails
  BY <1>14 DEF Fails
<1>15. CASE DeployAgain
  BY <1>15 DEF DeployAgain, Steps
<1>16. CASE ClusterControllers \/ OtherGetsReady
  BY <1>16 DEF ClusterControllers, OtherGetsReady
<1>17. CASE AssignAddress \/ InstallCoreDNS
  BY <1>17 DEF AssignAddress, InstallCoreDNS, TypeOK, Services
<1>18. CASE ServiceControllers
  BY <1>18 DEF ServiceControllers
<1>19. CASE UNCHANGED vars
  BY <1>19 DEF vars
<1>. QED
  BY <1>1, <1>2, <1>3, <1>4, <1>5, <1>6, <1>7, <1>8, <1>9, <1>10, <1>11, <1>12, <1>13,
     <1>14, <1>15, <1>16, <1>17, <1>18, <1>19 DEF Next, Deploy, Returned

DeployInv == TypeOK /\ Found /\ WiredInv

LEMMA InitDeploy == Init => DeployInv
  BY InitType, InitFound, InitWired DEF DeployInv

LEMMA NextDeploy == DeployInv /\ [Next]_vars => DeployInv'
  BY NextType, NextFound, NextWired DEF DeployInv

LEMMA DeployInvHolds == Spec => []DeployInv
  BY InitDeploy, NextDeploy, PTL DEF Spec

\* SuccessMeansWired: a Deploy without error has put the addresses of etcd and
\* CoreDNS, both of the cluster it looked up, where they belong.
THEOREM SuccessWired == Spec => []SuccessMeansWired
<1>1. DeployInv => SuccessMeansWired
  BY DEF DeployInv, Found, FoundSteps, WiredInv, ConfigInv, NameserverInv, SuccessMeansWired
<1>. QED  BY <1>1, DeployInvHolds, PTL

\* SameCluster: also Deploys that fail, in any order and number, do not mix up
\* the services of two clusters.
THEOREM OneCluster == Spec => []SameCluster
<1>1. DeployInv => SameCluster
  BY DEF DeployInv, WiredInv
<1>. QED  BY <1>1, DeployInvHolds, PTL

\* Only AddNameserver changes the nameserver: of what Deploy has set up by then.
LEMMA NameserverStep ==
  ASSUME DeployInv, [Next]_vars, nameserver' # nameserver
  PROVE  /\ psDNS = "ready" /\ config # Nothing /\ services[nameserver'] = "addressed"
         /\ config = <<nameserver'[1], "etcd">>
<1>1. AddNameserver
  BY DEF Next, Deploy, Returned, vars, given, asked, service, CreateRequest, AwaitGranted,
         CreateAccess, FindCluster, CreateEtcd, CreateCoreDNS, GetLoadBalancerIP,
         CreateService, CreateConfig, CreateConfigAgain, AwaitService, AwaitRestart, Fails,
         DeployAgain, ClusterControllers, OtherGetsReady, AssignAddress, InstallCoreDNS,
         ServiceControllers
<1>2. step = "addNameserver" /\ nameserver' = ip
  BY <1>1, CallType DEF AddNameserver
<1>3. ip = <<target, "coredns">> /\ config = <<target, "etcd">> /\ config # Nothing
  BY <1>2 DEF DeployInv, WiredInv, ConfigInv, NameserverInv, Nothing
<1>. QED  BY <1>2, <1>3 DEF DeployInv, WiredInv, NameserverInv

\* NameserverLast: when Deploy gives the API server its nameserver, that has an
\* address, and the service that registers names is ready.
THEOREM NameserverComesLast == Spec => NameserverLast
<1>1. DeployInv /\ [Next]_vars
        => [nameserver' # nameserver =>
              psDNS = "ready" /\ config # Nothing /\ services[nameserver'] = "addressed"]_vars
  BY NameserverStep
<1>. QED  BY <1>1, DeployInvHolds, PTL DEF Spec, NameserverLast

\* What has been set up for an address stays: no call and no controller undoes it.
LEMMA WiringStays ==
  ASSUME DeployInv, [Next]_vars, NEW s \in Services,
         psDNS = "ready", config = <<s[1], "etcd">>, services[s] = "addressed"
  PROVE  psDNS' = "ready" /\ config' = config /\ services'[s] = "addressed"
<1>0. config # Nothing
  BY DEF Nothing
<1>. USE DEF DeployInv, TypeOK, given, asked, service
<1>1. CASE CreateRequest \/ AwaitGranted \/ CreateAccess \/ FindCluster \/ CreateCoreDNS
  BY <1>1 DEF CreateRequest, AwaitGranted, CreateAccess, FindCluster, CreateCoreDNS
<1>2. CASE CreateEtcd
  BY <1>2 DEF CreateEtcd
<1>3. CASE GetLoadBalancerIP \/ CreateService \/ AwaitService
  BY <1>3 DEF GetLoadBalancerIP, CreateService, AwaitService
<1>4. CASE CreateConfig \/ CreateConfigAgain
  BY <1>0, <1>4 DEF CreateConfig, CreateConfigAgain
<1>5. CASE AddNameserver \/ AwaitRestart \/ Fails \/ DeployAgain
  BY <1>5 DEF AddNameserver, AwaitRestart, Fails, DeployAgain
<1>6. CASE ClusterControllers \/ OtherGetsReady
  BY <1>6 DEF ClusterControllers, OtherGetsReady
<1>7. CASE AssignAddress \/ InstallCoreDNS
  BY <1>7 DEF AssignAddress, InstallCoreDNS
<1>8. CASE ServiceControllers
  BY <1>8 DEF ServiceControllers
<1>9. CASE Returned \/ UNCHANGED vars
  BY <1>9 DEF Returned, vars
<1>. QED
  BY <1>1, <1>2, <1>3, <1>4, <1>5, <1>6, <1>7, <1>8, <1>9 DEF Next, Deploy
=============================================================================
