-------------------------- MODULE ControlPlanesProofs --------------------------
(***************************************************************************)
(* Theorems about ControlPlanes, for any number of MCPs, clusters and      *)
(* calls: type correctness, that an MCP created without error stays within *)
(* reach of ImportDomainAPIs until it is deleted (ReachInv), that          *)
(* DeleteCluster deletes the requests of its own cluster only, as long as  *)
(* nothing fails (OwnInv), and that UsableControlPlanes is implemented.    *)
(***************************************************************************)
EXTENDS ControlPlanes, FiniteSetTheorems, TLAPS

\* Where each call can be, and what it is about.
CallInv ==
  /\ op = "CreateMCP" => subject \in MCPs /\ pc \in {"begin", "ready", "clusters"}
  /\ op = "ImportDomainAPIs" =>
       /\ subject \in MCPs /\ pc \in {"begin", "match", "import"}
       /\ pc \in {"match", "import"} => found \in Clusters
       /\ pc = "import" => config \in Clusters
  /\ op = "DeleteMCP" => subject \in MCPs /\ pc \in {"begin", "delete", "await"}
  /\ op = "DeleteCluster" =>
       /\ subject \in Clusters /\ pc \in {"begin", "get", "delete", "await"}
       /\ pc \in {"delete", "await"} => todo # << >>

GrantedInv == \A m \in MCPs : request[m] = "granted" => binding[m] \in Clusters

TypeInv == TypeOK /\ CallInv /\ GrantedInv

\* An MCP that can be used.
Fit(m) ==
  /\ mcp[m] = "ready" /\ request[m] = "granted"
  /\ binding[m] \in Clusters /\ cluster[binding[m]] = "ready"

\* The usable MCPs are fit, and no call that could change that is about one of
\* them.  What CreateMCP has seen ready is fit, since no deletion runs.
ReachInv ==
  /\ \A m \in usable : Fit(m)
  /\ op = "CreateMCP" /\ pc \in {"ready", "clusters"} =>
       /\ mcp[subject] = "ready" => Fit(subject)
       /\ pc = "clusters" /\ outcome = "ok" => mcp[subject] = "ready"
  /\ op = "DeleteMCP" => subject \notin usable
  /\ op = "DeleteCluster" =>
       \A m \in usable : binding[m] # subject /\ \A i \in 1..Len(todo) : todo[i] # m
  /\ op = "ImportDomainAPIs" /\ subject \in usable =>
       /\ pc \in {"match", "import"} => found = binding[subject]
       /\ pc = "import" => config = binding[subject]

\* A request is bound while it is granted, to a cluster that stays meanwhile.
BindingInv ==
  \A m \in MCPs :
    /\ request[m] \in {"absent", "pending"} => binding[m] = NoCluster
    /\ binding[m] # NoCluster => cluster[binding[m]] \in {"present", "created", "ready"}

\* Deleting is what DeleteCluster is doing, request by request.
Deleting == op = "DeleteCluster" /\ pc \in {"get", "delete"}

\* Without faults a request is deleted by the operator, with its MCP, or by the
\* running DeleteCluster.  Each request this one still has to delete has not been
\* deleted by it before, so it is bound as it was, or gone for good.
OwnInv ==
  /\ ~waitOpts /\ (op = "DeleteCluster" => pc # "await")
  /\ \A m \in MCPs :
       request[m] = "terminating" =>
         mcp[m] = "terminating" \/ (Deleting /\ binding[m] = subject)
  /\ Deleting => IsInjective(todo)
  /\ Deleting => \A i \in 1..Len(todo) :
       \/ request[todo[i]] = "absent" /\ mcp[todo[i]] \in {"terminating", "absent"}
       \/ /\ binding[todo[i]] = subject
          /\ request[todo[i]] = "terminating" => mcp[todo[i]] = "terminating"

FaultlessInv == BindingInv /\ (faults = {} => OwnInv)

-----------------------------------------------------------------------------
(* Type correctness. *)

\* What DeleteCluster lists is a sequence of requests without repetitions.
LEMMA ListingType ==
  ASSUME NEW S \in SUBSET MCPs, NEW t \in SetToSeqs(S)
  PROVE  t \in Seq(MCPs) /\ IsInjective(t) /\ \A i \in 1..Len(t) : t[i] \in S
<1>1. Cardinality(S) \in Nat
  BY NamesAssumption, FS_Subset, FS_CardinalityType
<1>2. /\ t \in [1..Cardinality(S) -> S]
      /\ \A i, j \in 1..Cardinality(S) : i # j => t[i] # t[j]
  BY Zenon DEF SetToSeqs
<1>3. DOMAIN t = 1..Cardinality(S)
  BY <1>2
<1>4. IsInjective(t)
  BY <1>2, <1>3 DEF IsInjective
<1>5. t \in Seq(S) /\ Len(t) = Cardinality(S)
  BY <1>1, <1>2
<1>6. t \in Seq(MCPs)
  BY <1>1, <1>2
<1>. QED  BY <1>1, <1>2, <1>4, <1>5, <1>6

LEMMA InitType == Init => TypeInv
<1>. SUFFICES ASSUME Init PROVE TypeInv
  OBVIOUS
<1>1. waitOpts \in BOOLEAN
  BY DEF Init
<1>2. faults \subseteq Faults
  BY DEF Init
<1>. QED
  BY <1>1, <1>2, CallsAssumption DEF Init, TypeInv, TypeOK, CallInv, GrantedInv

\* The calls of a test; the call that is running goes on or returns.
LEMMA CallTypes ==
  ASSUME TypeInv, BeginCall \/ Step
  PROVE  TypeInv'
<1>. USE DEF TypeInv, TypeOK, CallInv, GrantedInv, At, Goto, Return,
             given, objects, local, history, control
<1>1. CASE BeginCall
  <2>1. calls + 1 \in 0..MaxCalls
    BY <1>1, CallsAssumption DEF BeginCall
  <2>2. usable' \in SUBSET MCPs
    BY <1>1 DEF BeginCall
  <2>3. PICK o \in {"CreateMCP", "ImportDomainAPIs", "DeleteMCP", "DeleteCluster"},
             x \in MCPs \cup Clusters :
          Begin(o, x) /\ (IF o = "DeleteCluster" THEN x \in Clusters ELSE x \in MCPs)
    BY <1>1 DEF BeginCall
  <2>4. UNCHANGED <<given, objects>>
    BY <1>1 DEF BeginCall
  <2>. QED  BY <2>1, <2>2, <2>3, <2>4 DEF Begin
<1>2. CASE CreateMCP
  BY <1>2 DEF CreateMCP
<1>3. CASE AwaitMCP
  BY <1>3 DEF AwaitMCP
<1>4. CASE AwaitClusters
  BY <1>4 DEF AwaitClusters
<1>5. CASE RetrieveMCPClusterName
  BY <1>5 DEF RetrieveMCPClusterName
<1>6. CASE ConfigByPrefix
  BY <1>6, NamesAssumption DEF ConfigByPrefix
<1>7. CASE ImportFromDir
  BY <1>7 DEF ImportFromDir
<1>8. CASE DeleteMCP
  BY <1>8 DEF DeleteMCP
<1>9. CASE GetMCP \/ AwaitMCPDeleted
  BY <1>9 DEF GetMCP, AwaitMCPDeleted
<1>10. CASE ListClusterRequests
  BY <1>10, ListingType DEF ListClusterRequests
<1>11. CASE GetRequest \/ DeleteRequest
  <2>1. todo # << >> /\ Head(todo) \in MCPs /\ Tail(todo) \in Seq(MCPs)
    BY <1>11 DEF GetRequest, DeleteRequest
  <2>2. /\ request' \in [MCPs -> {"absent", "pending", "granted", "terminating"}]
        /\ \A m \in MCPs : request'[m] \in {request[m], "terminating"}
    BY <1>11, <2>1 DEF GetRequest, DeleteRequest
  <2>3. UNCHANGED <<given, mcp, binding, cluster, found, history>>
    BY <1>11 DEF GetRequest, DeleteRequest
  <2>4. /\ op = "DeleteCluster" /\ UNCHANGED <<op, subject, outcome>>
        /\ \/ pc' \in {"delete", "await"} /\ UNCHANGED todo
           \/ pc' = "get" /\ todo' = Tail(todo)
    BY <1>11 DEF GetRequest, DeleteRequest, NextRequest
  <2>. QED  BY <2>1, <2>2, <2>3, <2>4
<1>12. CASE AwaitRequestDeleted
  BY <1>12 DEF AwaitRequestDeleted, NextRequest
<1>13. CASE AwaitClusterDeleted
  BY <1>13 DEF AwaitClusterDeleted
<1>14. CASE Fails \/ LosesAnswer
  BY <1>14 DEF Fails, LosesAnswer
<1>. QED
  BY <1>1, <1>2, <1>3, <1>4, <1>5, <1>6, <1>7, <1>8, <1>9, <1>10, <1>11, <1>12, <1>13,
     <1>14 DEF Step

\* The controllers.
LEMMA ControllerTypes ==
  ASSUME TypeInv,
         (\E m \in MCPs : MCPController(m)) \/ (\E k \in Clusters : ClusterController(k))
  PROVE  TypeInv'
<1>. USE DEF TypeInv, TypeOK, CallInv, GrantedInv, given, objects, local, history, control
<1>1. ASSUME NEW m \in MCPs, MCPController(m) PROVE TypeInv'
  BY <1>1 DEF MCPController, RequestCluster, ReleaseRequest, FinalizeMCP, ReadyMCP,
              GrantRequest, FinalizeRequest
<1>2. ASSUME NEW k \in Clusters, ClusterController(k) PROVE TypeInv'
  BY <1>2 DEF ClusterController, ProvideCluster, RemoveCluster
<1>. QED  BY <1>1, <1>2

LEMMA NextType == TypeInv /\ [Next]_vars => TypeInv'
<1>1. CASE UNCHANGED vars
  BY <1>1 DEF vars, given, objects, local, history, control, TypeInv, TypeOK, CallInv, GrantedInv
<1>. QED  BY <1>1, CallTypes, ControllerTypes DEF Next, TestOver

\* TypeOK: the variables keep their types; every call is about an MCP or a cluster.
THEOREM TypeCorrect == Spec => []TypeOK
<1>1. Spec => []TypeInv
  BY InitType, NextType, PTL DEF Spec
<1>. QED  BY <1>1, PTL DEF TypeInv

-----------------------------------------------------------------------------
(* A usable MCP is within reach. *)

LEMMA InitReach == Init => ReachInv
  BY DEF Init, ReachInv

\* The first match of a cluster's own name is that cluster, if it is there: kind
\* lists it before the others whose names start with it.
LEMMA FirstMatch ==
  ASSUME NEW i \in DOMAIN Listing, Matches(Listing[i]),
         \A j \in 1..(i - 1) : ~Matches(Listing[j]),
         found \in Clusters, cluster[found] = "ready"
  PROVE  Listing[i] = found
<1>1. DOMAIN Listing = 1..Len(Listing) /\ Len(Listing) \in Nat
  BY NamesAssumption
<1>2. PICK j \in 1..Len(Listing) : Listing[j] = found
  BY <1>1, NamesAssumption DEF ToSet
<1>3. Matches(Listing[j])
  BY <1>2, NamesAssumption DEF Matches
<1>4. j >= i
  BY <1>1, <1>2, <1>3
<1>5. j <= i
  BY <1>1, <1>2, NamesAssumption DEF Matches
<1>. QED  BY <1>1, <1>2, <1>4, <1>5

LEMMA CallReach ==
  ASSUME TypeInv, ReachInv, BeginCall \/ Step
  PROVE  ReachInv'
<1>. USE DEF TypeInv, TypeOK, CallInv, GrantedInv, ReachInv, Fit, At, Goto, Return,
             given, objects, local, history, control
<1>1. CASE BeginCall
  BY <1>1 DEF BeginCall, Running, Begin
<1>2. CASE CreateMCP
  BY <1>2 DEF CreateMCP
<1>3. CASE AwaitMCP
  BY <1>3 DEF AwaitMCP
<1>4. CASE AwaitClusters
  BY <1>4 DEF AwaitClusters
<1>5. CASE RetrieveMCPClusterName
  BY <1>5 DEF RetrieveMCPClusterName
<1>6. CASE ConfigByPrefix
  BY <1>6, FirstMatch DEF ConfigByPrefix
<1>7. CASE ImportFromDir
  BY <1>7 DEF ImportFromDir
<1>8. CASE DeleteMCP
  BY <1>8 DEF DeleteMCP
<1>9. CASE GetMCP \/ AwaitMCPDeleted
  BY <1>9 DEF GetMCP, AwaitMCPDeleted
<1>10. CASE ListClusterRequests
  BY <1>10, ListingType DEF ListClusterRequests
<1>11. CASE GetRequest \/ DeleteRequest
  BY <1>11 DEF GetRequest, DeleteRequest, NextRequest
<1>12. CASE AwaitRequestDeleted
  BY <1>12 DEF AwaitRequestDeleted, NextRequest
<1>13. CASE AwaitClusterDeleted
  BY <1>13 DEF AwaitClusterDeleted
<1>14. CASE Fails \/ LosesAnswer
  BY <1>14 DEF Fails, LosesAnswer
<1>. QED
  BY <1>1, <1>2, <1>3, <1>4, <1>5, <1>6, <1>7, <1>8, <1>9, <1>10, <1>11, <1>12, <1>13,
     <1>14 DEF Step

LEMMA ControllerReach ==
  ASSUME TypeInv, ReachInv,
         (\E m \in MCPs : MCPController(m)) \/ (\E k \in Clusters : ClusterController(k))
  PROVE  ReachInv'
<1>. USE DEF TypeInv, TypeOK, CallInv, GrantedInv, ReachInv, Fit,
             given, objects, local, history, control
<1>1. ASSUME NEW m \in MCPs, MCPController(m) PROVE ReachInv'
  <2>1. CASE RequestCluster(m)
    BY <2>1 DEF RequestCluster
  <2>2. CASE ReleaseRequest(m)
    BY <2>2 DEF ReleaseRequest
  <2>3. CASE FinalizeMCP(m)
    BY <2>3 DEF FinalizeMCP
  <2>4. CASE ReadyMCP(m)
    BY <2>4, NamesAssumption DEF ReadyMCP
  <2>5. CASE GrantRequest(m)
    BY <2>5 DEF GrantRequest
  <2>6. CASE FinalizeRequest(m)
    BY <2>6 DEF FinalizeRequest
  <2>. QED  BY <1>1, <2>1, <2>2, <2>3, <2>4, <2>5, <2>6 DEF MCPController
<1>2. ASSUME NEW k \in Clusters, ClusterController(k) PROVE ReachInv'
  BY <1>2 DEF ClusterController, ProvideCluster, RemoveCluster
<1>. QED  BY <1>1, <1>2

LEMMA NextReach == TypeInv /\ ReachInv /\ [Next]_vars => ReachInv'
<1>1. CASE UNCHANGED vars
  BY <1>1 DEF vars, given, objects, local, history, control, ReachInv, Fit
<1>. QED  BY <1>1, CallReach, ControllerReach DEF Next, TestOver

\* A call of ImportDomainAPIs that ends.
Imports ==
  op = "ImportDomainAPIs" /\ op' = "none" /\ subject \in usable
    => \/ config = binding[subject] /\ outcome' = "ok"
       \/ "api" \in faults /\ outcome' = "error"

LEMMA ReachImports == TypeInv /\ ReachInv /\ [Next]_vars => Imports
<1>. SUFFICES ASSUME TypeInv, ReachInv, [Next]_vars,
                     op = "ImportDomainAPIs", op' = "none", subject \in usable
              PROVE  \/ config = binding[subject] /\ outcome' = "ok"
                     \/ "api" \in faults /\ outcome' = "error"
  BY DEF Imports
<1>. USE DEF At, Goto, Return
<1>1. /\ Fit(subject) /\ pc \in {"begin", "match", "import"}
      /\ pc \in {"match", "import"} => found = binding[subject]
      /\ pc = "import" => config = binding[subject]
  BY DEF ReachInv, TypeInv, CallInv
<1>2. Step
  BY DEF Next, TestOver, vars, control, BeginCall, Running, MCPController, RequestCluster,
         ReleaseRequest, FinalizeMCP, ReadyMCP, GrantRequest, FinalizeRequest,
         ClusterController, ProvideCluster, RemoveCluster
<1>3. ~RetrieveMCPClusterName
  BY <1>1, NamesAssumption DEF RetrieveMCPClusterName, Fit
<1>4. ~ConfigByPrefix
  <2>1. pc = "match" => Matches(binding[subject])
    BY <1>1, NamesAssumption DEF Matches, Fit
  <2>. QED  BY <1>1, <2>1 DEF ConfigByPrefix, Fit
<1>5. ImportFromDir \/ Fails
  BY <1>2, <1>3, <1>4
  DEF Step, CreateMCP, AwaitMCP, AwaitClusters, DeleteMCP, GetMCP, AwaitMCPDeleted,
      ListClusterRequests, GetRequest, DeleteRequest, AwaitRequestDeleted,
      AwaitClusterDeleted, LosesAnswer
<1>6. CASE ImportFromDir
  BY <1>1, <1>6 DEF ImportFromDir, Fit
<1>7. CASE Fails
  BY <1>1, <1>7 DEF Fails
<1>. QED  BY <1>5, <1>6, <1>7

\* UsableMCPReachable: whatever else a test and the controllers do, and wherever
\* calls fail, ImportDomainAPIs imports into the cluster of a usable MCP.
THEOREM UsableReachable == Spec => UsableMCPReachable
<1>1. Init => TypeInv /\ ReachInv
  BY InitType, InitReach
<1>2. TypeInv /\ ReachInv /\ [Next]_vars => TypeInv' /\ ReachInv'
  BY NextType, NextReach
<1>3. Imports <=>
        (op = "ImportDomainAPIs" /\ op' = "none" /\ subject \in usable
          => \/ config = binding[subject] /\ outcome' = "ok"
             \/ "api" \in faults /\ outcome' = "error")
  BY DEF Imports
<1>. QED  BY <1>1, <1>2, <1>3, ReachImports, PTL DEF Spec, UsableMCPReachable

-----------------------------------------------------------------------------
(* DeleteCluster deletes the requests of its cluster. *)

LEMMA InitFaultless == Init => FaultlessInv
  BY NamesAssumption DEF Init, FaultlessInv, BindingInv, OwnInv, Deleting

LEMMA NextBinding == TypeInv /\ BindingInv /\ [Next]_vars => BindingInv'
<1>. SUFFICES ASSUME TypeInv, BindingInv, [Next]_vars PROVE BindingInv'
  OBVIOUS
<1>. USE DEF TypeInv, TypeOK, BindingInv, GrantedInv, given, objects, local, history, control
<1>1. CASE BeginCall \/ Step
  <2>1. binding' = binding /\ cluster' = cluster
    BY <1>1 DEF BeginCall, Step, CreateMCP, AwaitMCP, AwaitClusters, RetrieveMCPClusterName,
         ConfigByPrefix, ImportFromDir, GetMCP, DeleteMCP, AwaitMCPDeleted, ListClusterRequests,
         GetRequest, DeleteRequest, NextRequest, AwaitRequestDeleted, AwaitClusterDeleted,
         Fails, LosesAnswer
  <2>2. \A m \in MCPs : request'[m] \in {"absent", "pending"} => request'[m] = request[m]
    <3>1. CASE DeleteRequest
      <4>1. Head(todo) \in MCPs
        BY <3>1 DEF DeleteRequest, CallInv, At
      <4>. QED  BY <3>1, <4>1 DEF DeleteRequest
    <3>2. CASE LosesAnswer
      <4>1. CASE At("DeleteCluster", "delete")
        <5>1. Head(todo) \in MCPs
          BY <4>1 DEF CallInv, At
        <5>. QED  BY <3>2, <4>1, <5>1 DEF LosesAnswer, At
      <4>. QED  BY <3>2, <4>1 DEF LosesAnswer
    <3>3. CASE request' = request
      BY <3>3
    <3>. QED
      BY <1>1, <3>1, <3>2, <3>3
      DEF BeginCall, Step, CreateMCP, AwaitMCP, AwaitClusters, RetrieveMCPClusterName,
         ConfigByPrefix, ImportFromDir, DeleteMCP, GetMCP, AwaitMCPDeleted,
         ListClusterRequests, GetRequest, AwaitRequestDeleted, AwaitClusterDeleted, Fails
  <2>. QED  BY <2>1, <2>2
<1>2. ASSUME NEW m \in MCPs, MCPController(m) PROVE BindingInv'
  BY <1>2, NamesAssumption DEF MCPController, RequestCluster, ReleaseRequest, FinalizeMCP,
     ReadyMCP, GrantRequest, FinalizeRequest
<1>3. ASSUME NEW k \in Clusters, ClusterController(k) PROVE BindingInv'
  BY <1>3 DEF ClusterController, ProvideCluster, RemoveCluster, Exists
<1>4. CASE UNCHANGED vars
  BY <1>4 DEF vars
<1>. QED  BY <1>1, <1>2, <1>3, <1>4 DEF Next, TestOver

LEMMA CallOwn ==
  ASSUME TypeInv, BindingInv, OwnInv, faults = {}, BeginCall \/ Step
  PROVE  OwnInv'
<1>. USE DEF TypeInv, TypeOK, CallInv, BindingInv, OwnInv, Deleting, At, Goto, Return,
             given, objects, local, history, control
<1>1. CASE BeginCall
  BY <1>1 DEF BeginCall, Running, Begin
<1>2. CASE CreateMCP \/ AwaitMCP \/ AwaitClusters
  BY <1>2 DEF CreateMCP, AwaitMCP, AwaitClusters
<1>3. CASE RetrieveMCPClusterName \/ ConfigByPrefix \/ ImportFromDir
  BY <1>3 DEF RetrieveMCPClusterName, ConfigByPrefix, ImportFromDir
<1>4. CASE GetMCP \/ DeleteMCP \/ AwaitMCPDeleted
  BY <1>4 DEF GetMCP, DeleteMCP, AwaitMCPDeleted
<1>5. CASE ListClusterRequests
  BY <1>5, ListingType DEF ListClusterRequests
<1>6. CASE DeleteRequest \/ (GetRequest /\ request[Head(todo)] = "absent")
  <2>. DEFINE h == Head(todo)
  <2>1. /\ todo # << >> /\ h \in MCPs /\ h = todo[1] /\ Len(todo) \in Nat /\ Len(todo) > 0
        /\ DOMAIN todo = 1..Len(todo)
    BY <1>6 DEF GetRequest, DeleteRequest
  <2>2. /\ todo' = Tail(todo) /\ Deleting /\ Deleting' /\ pc' = "get"
        /\ UNCHANGED <<given, mcp, binding, op, subject>>
        /\ request' = [request EXCEPT ![h] = IF @ = "absent" THEN @ ELSE "terminating"]
    BY <1>6, <2>1 DEF GetRequest, DeleteRequest, NextRequest
  <2>3. Len(todo') = Len(todo) - 1 /\ \A i \in 1..Len(todo') : todo'[i] = todo[i + 1]
    BY <2>1, <2>2
  <2>4. IsInjective(todo')
    <3>1. DOMAIN todo' = 1..Len(todo')
      BY <2>1, <2>2
    <3>. QED  BY <2>1, <2>2, <2>3, <3>1 DEF IsInjective
  <2>5. \A i \in 1..Len(todo') : todo'[i] \in MCPs /\ todo'[i] # h
    <3>1. IsInjective(todo)
      BY <2>2
    <3>2. \A i \in 1..Len(todo') : i + 1 \in DOMAIN todo /\ 1 \in DOMAIN todo /\ i + 1 # 1
      BY <2>1, <2>3
    <3>3. \A i \in 1..Len(todo') : todo[i + 1] # todo[1]
      BY <3>1, <3>2 DEF IsInjective
    <3>4. \A i \in 1..Len(todo') : todo[i + 1] \in MCPs
      BY <3>2
    <3>. QED  BY <2>1, <2>3, <3>3, <3>4
  <2>6. request[h] # "absent" => binding[h] = subject
    BY <2>1, <2>2
  <2>7. \A m \in MCPs \ {h} : request'[m] = request[m]
    BY <2>1, <2>2
  <2>8. \A m \in MCPs : request'[m] = "terminating"
          => mcp[m] = "terminating" \/ binding[m] = subject
    BY <2>1, <2>2, <2>6, <2>7
  <2>9. \A i \in 1..Len(todo') :
          \/ request'[todo'[i]] = "absent" /\ mcp[todo'[i]] \in {"terminating", "absent"}
          \/ /\ binding[todo'[i]] = subject
             /\ request'[todo'[i]] = "terminating" => mcp[todo'[i]] = "terminating"
    BY <2>1, <2>2, <2>3, <2>5, <2>7
  <2>. QED  BY <2>2, <2>4, <2>8, <2>9
<1>7. CASE AwaitRequestDeleted \/ (GetRequest /\ request[Head(todo)] # "absent")
  BY <1>7 DEF AwaitRequestDeleted, GetRequest
<1>8. CASE AwaitClusterDeleted
  BY <1>8, NamesAssumption DEF AwaitClusterDeleted, Exists
<1>9. CASE Fails \/ LosesAnswer
  BY <1>9 DEF Fails, LosesAnswer
<1>. QED  BY <1>1, <1>2, <1>3, <1>4, <1>5, <1>6, <1>7, <1>8, <1>9 DEF Step

LEMMA ControllerOwn ==
  ASSUME TypeInv, BindingInv, OwnInv,
         (\E m \in MCPs : MCPController(m)) \/ (\E k \in Clusters : ClusterController(k))
  PROVE  OwnInv'
<1>. USE DEF TypeInv, TypeOK, CallInv, BindingInv, OwnInv, Deleting,
             given, objects, local, history, control
<1>1. ASSUME NEW m \in MCPs, MCPController(m) PROVE OwnInv'
  <2>1. CASE RequestCluster(m)
    BY <2>1 DEF RequestCluster
  <2>2. CASE ReleaseRequest(m)
    BY <2>2 DEF ReleaseRequest
  <2>3. CASE FinalizeMCP(m)
    BY <2>3 DEF FinalizeMCP
  <2>4. CASE ReadyMCP(m)
    BY <2>4 DEF ReadyMCP
  <2>5. CASE GrantRequest(m)
    BY <2>5, NamesAssumption DEF GrantRequest
  <2>6. CASE FinalizeRequest(m)
    BY <2>6 DEF FinalizeRequest
  <2>. QED  BY <1>1, <2>1, <2>2, <2>3, <2>4, <2>5, <2>6 DEF MCPController
<1>2. ASSUME NEW k \in Clusters, ClusterController(k) PROVE OwnInv'
  BY <1>2 DEF ClusterController, ProvideCluster, RemoveCluster
<1>. QED  BY <1>1, <1>2

LEMMA NextFaultless == TypeInv /\ FaultlessInv /\ [Next]_vars => FaultlessInv'
<1>. SUFFICES ASSUME TypeInv, FaultlessInv, [Next]_vars PROVE FaultlessInv'
  OBVIOUS
<1>1. BindingInv'
  BY NextBinding DEF FaultlessInv
<1>2. faults' = faults
  BY DEF Next, TestOver, vars, local, given, BeginCall, Step, CreateMCP, AwaitMCP,
     AwaitClusters, RetrieveMCPClusterName, ConfigByPrefix, ImportFromDir, DeleteMCP,
     GetMCP, AwaitMCPDeleted, ListClusterRequests, DeleteRequest, AwaitRequestDeleted,
     AwaitClusterDeleted, Fails, LosesAnswer, GetRequest, NextRequest, MCPController,
     RequestCluster, ReleaseRequest, FinalizeMCP, ReadyMCP, GrantRequest, FinalizeRequest,
     ClusterController, ProvideCluster, RemoveCluster
<1>3. ASSUME faults = {} PROVE OwnInv'
  <2>1. CASE UNCHANGED vars
    BY <1>3, <2>1 DEF vars, objects, control, local, given, FaultlessInv, OwnInv, Deleting
  <2>. QED
    BY <1>3, <2>1, CallOwn, ControllerOwn DEF Next, TestOver, FaultlessInv
<1>. QED  BY <1>1, <1>2, <1>3 DEF FaultlessInv

\* A step of the loop that deletes requests.
DeletesOwn ==
  faults = {} /\ At("DeleteCluster", "delete") /\ (todo # todo' \/ pc # pc') =>
    \A m \in MCPs : request[m] # request'[m] => binding[m] = subject

LEMMA OwnDeletes == TypeInv /\ FaultlessInv /\ [Next]_vars => DeletesOwn
<1>. SUFFICES ASSUME TypeInv, FaultlessInv, [Next]_vars, faults = {},
                     At("DeleteCluster", "delete"), todo # todo' \/ pc # pc',
                     NEW m \in MCPs, request[m] # request'[m]
              PROVE  binding[m] = subject
  BY DEF DeletesOwn
<1>1. DeleteRequest
  BY DEF Next, TestOver, vars, objects, control, local, At, BeginCall, Running, Step, CreateMCP,
     AwaitMCP, AwaitClusters, RetrieveMCPClusterName, ConfigByPrefix, ImportFromDir, DeleteMCP,
     GetMCP, AwaitMCPDeleted, ListClusterRequests, AwaitRequestDeleted, AwaitClusterDeleted,
     Fails, LosesAnswer, GetRequest, NextRequest, MCPController, RequestCluster,
     ReleaseRequest, FinalizeMCP, ReadyMCP, GrantRequest,
     FinalizeRequest, ClusterController, ProvideCluster, RemoveCluster
<1>2. Len(todo) > 0 /\ Head(todo) = todo[1] /\ Len(todo) \in Nat
  BY <1>1 DEF DeleteRequest, TypeInv, TypeOK, CallInv, At
<1>3. m = Head(todo) /\ request[m] # "absent"
  BY <1>1 DEF DeleteRequest, TypeInv, TypeOK
<1>. QED  BY <1>2, <1>3 DEF FaultlessInv, OwnInv, Deleting, At

\* DeletesOwnRequests: as long as nothing fails DeleteCluster deletes no request of
\* another cluster, although it goes by the names it has listed.
THEOREM DeletesOwnOnly == Spec => DeletesOwnRequests
<1>1. Init => TypeInv /\ FaultlessInv
  BY InitType, InitFaultless
<1>2. TypeInv /\ FaultlessInv /\ [Next]_vars => TypeInv' /\ FaultlessInv'
  BY NextType, NextFaultless
<1>3. DeletesOwn <=>
        (faults = {} /\ At("DeleteCluster", "delete") /\ (todo # todo' \/ pc # pc') =>
           \A m \in MCPs : request[m] # request'[m] => binding[m] = subject)
  BY DEF DeletesOwn
<1>. QED  BY <1>1, <1>2, <1>3, OwnDeletes, PTL DEF Spec, DeletesOwnRequests

-----------------------------------------------------------------------------
(* What a test may rely on. *)

\* Two requests never have one cluster; config is set by an import only.
OwnClusterInv ==
  \A m, n \in MCPs : binding[m] # NoCluster /\ binding[m] = binding[n] => m = n

ConfigInv == Running /\ ~At("ImportDomainAPIs", "import") => config = NoCluster

UsableInv == TypeInv /\ ReachInv /\ BindingInv /\ OwnClusterInv /\ ConfigInv

LEMMA InitUsable == Init => UsableInv
<1>. SUFFICES ASSUME Init PROVE UsableInv
  OBVIOUS
<1>1. BindingInv
  BY InitFaultless DEF FaultlessInv
<1>2. OwnClusterInv /\ ConfigInv
  BY DEF Init, OwnClusterInv, ConfigInv, Running
<1>. QED  BY <1>1, <1>2, InitType, InitReach DEF UsableInv

\* Calls leave the bindings alone.
LEMMA CallBinding == BeginCall \/ Step => UNCHANGED binding
BY DEF BeginCall, Step, CreateMCP, AwaitMCP, AwaitClusters, RetrieveMCPClusterName,
   ConfigByPrefix, ImportFromDir, DeleteMCP, GetMCP, AwaitMCPDeleted, ListClusterRequests,
   GetRequest, DeleteRequest, NextRequest, AwaitRequestDeleted, AwaitClusterDeleted, Fails,
   LosesAnswer, objects

\* A request that is granted gets a cluster that no other one is bound to.
LEMMA NextOwnCluster ==
  ASSUME TypeInv, BindingInv, OwnClusterInv, [Next]_vars
  PROVE  OwnClusterInv'
<1>. USE DEF OwnClusterInv
<1>1. CASE BeginCall \/ Step
  BY <1>1, CallBinding
<1>2. ASSUME NEW m \in MCPs, GrantRequest(m) PROVE OwnClusterInv'
  <2>1. PICK k \in Clusters : cluster[k] = "absent" /\ binding' = [binding EXCEPT ![m] = k]
    BY <1>2 DEF GrantRequest
  <2>2. \A n \in MCPs : binding[n] # k
    BY <2>1, NamesAssumption DEF BindingInv
  <2>. QED  BY <2>1, <2>2 DEF TypeInv, TypeOK
<1>3. ASSUME NEW m \in MCPs, FinalizeRequest(m) PROVE OwnClusterInv'
  BY <1>3 DEF FinalizeRequest, TypeInv, TypeOK
<1>4. ASSUME NEW m \in MCPs,
             RequestCluster(m) \/ ReleaseRequest(m) \/ FinalizeMCP(m) \/ ReadyMCP(m)
      PROVE  OwnClusterInv'
  BY <1>4 DEF RequestCluster, ReleaseRequest, FinalizeMCP, ReadyMCP
<1>5. CASE UNCHANGED vars \/ \E k \in Clusters : ClusterController(k)
  BY <1>5 DEF vars, objects, ClusterController, ProvideCluster, RemoveCluster
<1>. QED  BY <1>1, <1>2, <1>3, <1>4, <1>5 DEF Next, TestOver, MCPController

LEMMA NextConfig ==
  ASSUME TypeInv, ConfigInv, [Next]_vars
  PROVE  ConfigInv'
<1>. USE DEF ConfigInv, Running, At, Goto, Return, history, control
<1>1. CASE BeginCall
  BY <1>1 DEF BeginCall, Begin
<1>2. CASE ConfigByPrefix
  BY <1>2 DEF ConfigByPrefix
<1>3. CASE \/ ImportFromDir \/ AwaitMCPDeleted \/ AwaitClusterDeleted \/ AwaitClusters
           \/ Fails \/ LosesAnswer
  BY <1>3
  DEF ImportFromDir, AwaitMCPDeleted, AwaitClusterDeleted, AwaitClusters, Fails, LosesAnswer
<1>4. CASE CreateMCP \/ AwaitMCP \/ RetrieveMCPClusterName \/ GetMCP \/ DeleteMCP
  BY <1>4 DEF CreateMCP, AwaitMCP, RetrieveMCPClusterName, GetMCP, DeleteMCP
<1>5. CASE ListClusterRequests \/ GetRequest \/ DeleteRequest \/ AwaitRequestDeleted
  BY <1>5 DEF ListClusterRequests, GetRequest, DeleteRequest, AwaitRequestDeleted, NextRequest
<1>6. CASE UNCHANGED <<control, history>>
  BY <1>6
<1>7. \A m \in MCPs : MCPController(m) => UNCHANGED <<control, history>>
  BY DEF MCPController, RequestCluster, ReleaseRequest, FinalizeMCP, ReadyMCP,
     GrantRequest, FinalizeRequest
<1>8. \A k \in Clusters : ClusterController(k) => UNCHANGED <<control, history>>
  BY DEF ClusterController, ProvideCluster, RemoveCluster
<1>. QED
  BY <1>1, <1>2, <1>3, <1>4, <1>5, <1>6, <1>7, <1>8 DEF Next, Step, TestOver, vars

LEMMA NextUsable == UsableInv /\ [Next]_vars => UsableInv'
BY NextType, NextReach, NextBinding, NextOwnCluster, NextConfig DEF UsableInv

\* A call that begins gives up the MCP it deletes, or the one whose cluster it deletes.
LEMMA BeginUsable ==
  ASSUME UsableInv, BeginCall
  PROVE  Usable!Next
<1>1. /\ op' # "none" /\ binding' = binding
      /\ \/ usable' = usable
         \/ \E m \in MCPs : usable' = usable \ {m}
         \/ \E k \in Clusters : usable' = {m \in usable : binding[m] # k}
  BY CallBinding DEF BeginCall, Begin
<1>2. importedBar' = NoCluster
  BY <1>1 DEF importedBar, Running
<1>3. DOMAIN homeBar = usable /\ \A m \in usable : homeBar[m] = binding[m]
  BY DEF homeBar
<1>4. CASE usable' = usable
  BY <1>1, <1>2, <1>4 DEF homeBar, Usable!Next, Usable!Call
<1>5. ASSUME NEW m \in usable, usable' = usable \ {m} PROVE Usable!Next
  <2>1. homeBar' = [n \in DOMAIN homeBar \ {m} |-> homeBar[n]]
    BY <1>1, <1>3, <1>5 DEF homeBar
  <2>. QED  BY <1>2, <1>3, <2>1 DEF Usable!Next, Usable!GiveUp
<1>6. ASSUME NEW k \in Clusters, usable' = {m \in usable : binding[m] # k} PROVE Usable!Next
  <2>1. ASSUME NEW m \in usable, binding[m] = k PROVE usable' = usable \ {m}
    BY <1>6, <2>1, NamesAssumption DEF UsableInv, OwnClusterInv, TypeInv, TypeOK
  <2>2. (\A m \in usable : binding[m] # k) => usable' = usable
    BY <1>6
  <2>. QED  BY <1>4, <1>5, <2>1, <2>2
<1>7. ASSUME NEW m \in MCPs, usable' = usable \ {m} PROVE Usable!Next
  <2>1. CASE m \in usable
    BY <1>5, <1>7, <2>1
  <2>2. CASE m \notin usable
    BY <1>4, <1>7, <2>2
  <2>. QED  BY <2>1, <2>2
<1>. QED  BY <1>1, <1>4, <1>6, <1>7

\* CreateMCP obtains an MCP when it returns without error.
LEMMA CreateUsable ==
  ASSUME UsableInv, AwaitClusters
  PROVE  Usable!Next \/ UNCHANGED <<homeBar, importedBar>>
<1>1. /\ Running /\ config = NoCluster /\ config' = config /\ subject \in MCPs
      /\ outcome' = outcome /\ binding' = binding
      /\ usable' = IF outcome = "ok" THEN usable \cup {subject} ELSE usable
  BY DEF AwaitClusters, UsableInv, ConfigInv, Running, At, Return, TypeInv, CallInv, objects
<1>2. UNCHANGED importedBar
  BY <1>1 DEF importedBar
<1>3. CASE usable' = usable
  BY <1>1, <1>2, <1>3 DEF homeBar
<1>4. CASE outcome = "ok" /\ subject \notin usable
  <2>1. Fit(subject)
    BY <1>4 DEF AwaitClusters, At, UsableInv, ReachInv
  <2>2. binding[subject] \in Clusters /\ \A n \in usable : binding[n] # binding[subject]
    BY <1>1, <1>4, <2>1, NamesAssumption
    DEF Fit, UsableInv, OwnClusterInv, TypeInv, TypeOK
  <2>3. DOMAIN homeBar = usable /\ \A m \in usable : homeBar[m] = binding[m]
    BY DEF homeBar
  <2>4. homeBar' = [n \in DOMAIN homeBar \cup {subject} |->
                      IF n = subject THEN binding[subject] ELSE homeBar[n]]
    BY <1>1, <1>4, <2>3 DEF homeBar
  <2>5. Usable!Obtain(subject, binding[subject])
    BY <1>2, <1>4, <2>2, <2>3, <2>4 DEF Usable!Obtain
  <2>. QED  BY <1>1, <2>2, <2>5 DEF Usable!Next
<1>. QED  BY <1>1, <1>3, <1>4

\* An import for a usable MCP ends up in its cluster.
LEMMA ImportUsable ==
  ASSUME UsableInv, ImportFromDir
  PROVE  Usable!Next \/ UNCHANGED <<homeBar, importedBar>>
<1>1. /\ Running /\ ~Running' /\ UNCHANGED <<config, usable, binding, subject>>
      /\ outcome' \in {"ok", "error"}
      /\ subject \in usable => config = binding[subject]
  BY DEF ImportFromDir, At, Return, Running, history, objects, UsableInv, ReachInv
<1>2. homeBar' = homeBar
  BY <1>1 DEF homeBar
<1>3. importedBar = NoCluster
  BY <1>1 DEF importedBar
<1>4. CASE outcome' = "ok" /\ subject \in usable
  <2>1. importedBar' = homeBar[subject] /\ subject \in DOMAIN homeBar
    BY <1>1, <1>4 DEF importedBar, homeBar
  <2>. QED  BY <1>2, <2>1 DEF Usable!Next, Usable!Import
<1>5. CASE outcome' = "error" \/ subject \notin usable
  <2>1. importedBar' = NoCluster
    BY <1>1, <1>5 DEF importedBar
  <2>. QED  BY <1>2, <1>3, <2>1
<1>. QED  BY <1>1, <1>4, <1>5

\* The other steps of a call are none of its business.
LEMMA CallUsable ==
  ASSUME UsableInv, Step, ~AwaitClusters, ~ImportFromDir
  PROVE  UNCHANGED <<homeBar, importedBar>>
<1>1. binding' = binding /\ usable' = usable
  BY CallBinding
  DEF Step, CreateMCP, AwaitMCP, RetrieveMCPClusterName, ConfigByPrefix, DeleteMCP,
      GetMCP, AwaitMCPDeleted, ListClusterRequests, DeleteRequest, AwaitRequestDeleted,
      AwaitClusterDeleted, Fails, LosesAnswer, GetRequest, NextRequest, history
<1>2. Running
  BY DEF Step, CreateMCP, AwaitMCP, RetrieveMCPClusterName, ConfigByPrefix, DeleteMCP,
         GetMCP, AwaitMCPDeleted, ListClusterRequests, DeleteRequest, AwaitRequestDeleted,
         AwaitClusterDeleted, Fails, LosesAnswer, GetRequest, NextRequest, At, Running
<1>3. Running' \/ outcome' # "ok" \/ config' = NoCluster
  BY DEF Step, CreateMCP, AwaitMCP, RetrieveMCPClusterName, ConfigByPrefix, DeleteMCP,
         GetMCP, AwaitMCPDeleted, ListClusterRequests, DeleteRequest, AwaitRequestDeleted,
         AwaitClusterDeleted, Fails, LosesAnswer, GetRequest, NextRequest, At, Goto, Return,
         Running, history, control, UsableInv, ConfigInv
<1>. QED  BY <1>1, <1>2, <1>3 DEF homeBar, importedBar

\* The controllers take nothing from a usable MCP.
LEMMA ControllerUsable ==
  ASSUME UsableInv,
         (\E m \in MCPs : MCPController(m)) \/ (\E k \in Clusters : ClusterController(k))
  PROVE  UNCHANGED <<homeBar, importedBar>>
<1>1. UNCHANGED <<control, history>>
  BY DEF MCPController, RequestCluster, ReleaseRequest, FinalizeMCP, ReadyMCP,
         GrantRequest, FinalizeRequest, ClusterController, ProvideCluster, RemoveCluster
<1>2. importedBar' = importedBar
  BY <1>1 DEF importedBar, Running, control, history
<1>3. \A m \in usable : m \in MCPs /\ request[m] = "granted"
  BY DEF UsableInv, ReachInv, Fit, TypeInv, TypeOK
<1>4. \A m \in usable : binding'[m] = binding[m]
  BY <1>3 DEF UsableInv, TypeInv, TypeOK, MCPController, RequestCluster, ReleaseRequest,
     FinalizeMCP, ReadyMCP, GrantRequest, FinalizeRequest, ClusterController,
     ProvideCluster, RemoveCluster
<1>5. homeBar' = homeBar
  BY <1>1, <1>4 DEF homeBar, history
<1>. QED  BY <1>2, <1>5

LEMMA UsableStep ==
  ASSUME UsableInv, [Next]_vars
  PROVE  [Usable!Next]_<<homeBar, importedBar>>
<1>1. CASE UNCHANGED vars
  BY <1>1 DEF vars, objects, control, history, homeBar, importedBar, Running
<1>. QED
  BY <1>1, BeginUsable, CreateUsable, ImportUsable, CallUsable, ControllerUsable
  DEF Next, TestOver

\* ImplementsUsable: whatever fails and however requests come, go and come back, a
\* test that got an MCP from CreateMCP (clusterprovider.go:146-168) has one with a
\* cluster of its own, until it calls DeleteMCP or DeleteCluster for just that one.
THEOREM UsableImplemented == Spec => ImplementsUsable
<1>1. Init => Usable!Init
  BY DEF Init, Usable!Init, homeBar, importedBar, Running
<1>. QED
  BY <1>1, InitUsable, NextUsable, UsableStep, PTL
  DEF Spec, ImplementsUsable, Usable!Spec, Usable!vars
=============================================================================
