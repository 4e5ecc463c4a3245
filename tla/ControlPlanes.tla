----------------------------- MODULE ControlPlanes -----------------------------
(***************************************************************************)
(* What tests do with control planes (MCPs): CreateMCP, DeleteMCP,         *)
(* ImportDomainAPIs (with MCPConfig) and DeleteCluster, one call after the *)
(* other, in any order.  The MCP object is on the onboarding cluster; the  *)
(* operator answers it with a ClusterRequest of the same name on the       *)
(* platform cluster, the scheduler with a Cluster, and the provider with a *)
(* kind cluster whose name begins with the Cluster's name.  A test that got *)
(* an error goes on.                                                       *)
(***************************************************************************)
EXTENDS Naturals, Sequences, FiniteSets, SequencesExt

CONSTANTS
  MCPs,        \* names of MCPs, and of their requests
  Clusters,    \* names of clusters
  NoCluster,   \* no name
  Listing,     \* the order in which kind lists the clusters there are: a name comes
               \* before those that start with it
  StartsWith,  \* the clusters whose kind name starts with a cluster's name
  MaxCalls,    \* bound: calls a test makes
  Faults       \* "api": calls fail, "timeout": waits expire

ASSUME NamesAssumption ==
  /\ NoCluster \notin Clusters
  /\ Listing \in Seq(Clusters) /\ ToSet(Listing) = Clusters
  /\ StartsWith \in [Clusters -> SUBSET Clusters]
  /\ \A k \in Clusters : k \in StartsWith[k]
  /\ \A i, j \in DOMAIN Listing : Listing[j] \in StartsWith[Listing[i]] => i <= j
  /\ IsFiniteSet(MCPs)

ASSUME CallsAssumption ==
  MaxCalls \in Nat /\ Faults \subseteq {"api", "timeout"}

VARIABLES
  faults,    \* the faults of this behaviour
  waitOpts,  \* the deletions are given wait options
  mcp,       \* the MCP objects
  request,   \* the ClusterRequests
  binding,   \* their status.cluster
  cluster,   \* the Clusters; from "created" on there is a kind cluster.
             \* Names are not used again: a cluster ends up "gone"
  op, subject, pc,  \* the running call, what it is about, and where it is
  found,     \* the cluster name MCPConfig has found
  todo,      \* the requests DeleteCluster still has to delete
  outcome,   \* of the last call: "ok", "error" or "panic"
  config,    \* the cluster MCPConfig has returned, into which objects are imported
  calls,     \* how many calls have been made
  usable     \* history: MCPs that were created without error and not deleted

given   == <<faults, waitOpts>>
objects == <<mcp, request, binding, cluster>>
local   == <<given, found, todo>>
history == <<config, calls, usable>>
control == <<op, subject, pc, outcome>>
vars    == <<objects, control, local, history>>

-----------------------------------------------------------------------------
\* A wait for the deletion of an object whose owner recreates it at once may
\* never see it gone, and ends with its timeout.
Init ==
  /\ faults \in {{}, Faults} /\ waitOpts = ("timeout" \in faults)
  /\ mcp = [m \in MCPs |-> "absent"]
  /\ request = [m \in MCPs |-> "absent"]
  /\ binding = [m \in MCPs |-> NoCluster]
  /\ cluster = [k \in Clusters |-> "absent"]
  /\ op = "none" /\ subject = NoCluster /\ pc = "idle"
  /\ found = NoCluster /\ todo = << >>
  /\ outcome = "ok" /\ config = NoCluster /\ calls = 0 /\ usable = {}

Exists(k) == cluster[k] \notin {"absent", "gone"}

\* Every Cluster there is (there may be none) is ready.
ClustersReady == \A k \in Clusters : Exists(k) => cluster[k] = "ready"

Running == op # "none"

At(o, p) == op = o /\ pc = p
Goto(p)  == pc' = p /\ UNCHANGED <<op, subject, outcome>>

\* The call returns.
Return(result) ==
  /\ op' = "none" /\ pc' = "idle" /\ outcome' = result
  /\ UNCHANGED subject

Begin(o, x) ==
  /\ op' = o /\ subject' = x /\ pc' = "begin" /\ outcome' = "ok"
  /\ calls' = calls + 1
  /\ found' = NoCluster /\ todo' = << >> /\ config' = NoCluster

\* Bound: a name is left for each cluster that is still to come, and one more.
NamesLeft ==
  Cardinality({m \in MCPs : mcp[m] \in {"pending", "ready"} /\ binding[m] = NoCluster})
    < Cardinality({k \in Clusters : cluster[k] = "absent"})

\* A test calls something, unless a panic has ended it.  It knows the name of a
\* cluster that there is or was.
BeginCall ==
  /\ ~Running /\ outcome # "panic" /\ calls < MaxCalls
  /\ \/ \E m \in MCPs : NamesLeft /\ Begin("CreateMCP", m) /\ UNCHANGED usable
     \/ \E m \in MCPs : Begin("ImportDomainAPIs", m) /\ UNCHANGED usable
     \/ \E m \in MCPs : Begin("DeleteMCP", m) /\ usable' = usable \ {m}
     \/ \E k \in Clusters : /\ cluster[k] # "absent" /\ NamesLeft
                            /\ Begin("DeleteCluster", k)
                            /\ usable' = {m \in usable : binding[m] # k}
  /\ UNCHANGED <<given, objects>>

(***************************************************************************)
(* CreateMCP.                                                              *)
(***************************************************************************)
CreateMCP ==
  /\ At("CreateMCP", "begin")
  /\ \/ mcp[subject] = "absent" /\ mcp' = [mcp EXCEPT ![subject] = "pending"] /\ Goto("ready")
     \/ mcp[subject] # "absent" /\ UNCHANGED mcp /\ Return("error")
  /\ UNCHANGED <<request, binding, cluster, local, history>>

\* Variant with a bug: the phase of the MCP is looked at once.
LookAtMCP ==
  /\ At("CreateMCP", "ready")
  /\ outcome' = IF mcp[subject] = "ready" THEN outcome ELSE "error"
  /\ pc' = "clusters"
  /\ UNCHANGED <<objects, op, subject, local, history>>

\* The wait for the MCP is over; with an error the test is marked as failed
\* and the call goes on.
AwaitMCP ==
  /\ At("CreateMCP", "ready")
  /\ \/ mcp[subject] = "ready" /\ UNCHANGED outcome
     \/ faults # {} /\ outcome' = "error"
  /\ pc' = "clusters"
  /\ UNCHANGED <<objects, op, subject, local, history>>

\* Variant with a bug: an error of the first wait is forgotten.
ForgetError ==
  /\ At("CreateMCP", "clusters")
  /\ ClustersReady
  /\ Return("ok")
  /\ usable' = usable \cup {subject}
  /\ UNCHANGED <<objects, local, config, calls>>

AwaitClusters ==
  /\ At("CreateMCP", "clusters")
  /\ ClustersReady
  /\ Return(outcome)
  /\ usable' = IF outcome = "ok" THEN usable \cup {subject} ELSE usable
  /\ UNCHANGED <<objects, local, config, calls>>

(***************************************************************************)
(* ImportDomainAPIs: MCPConfig and the import into the cluster it returns. *)
(***************************************************************************)
\* Variant with a bug: the first request of the list is taken.
RetrieveFirstClusterName ==
  /\ At("ImportDomainAPIs", "begin")
  /\ \/ \E m \in MCPs : binding[m] # NoCluster /\ found' = binding[m] /\ Goto("match")
     \/ (\A m \in MCPs : binding[m] = NoCluster) /\ UNCHANGED found /\ Return("error")
  /\ UNCHANGED <<given, objects, todo, history>>

\* Looks for the request of that name.  A request that has not been granted has
\* no status.cluster, which is dereferenced all the same.
RetrieveMCPClusterName ==
  /\ At("ImportDomainAPIs", "begin")
  /\ \/ request[subject] = "absent" /\ UNCHANGED found /\ Return("error")
     \/ /\ request[subject] # "absent" /\ binding[subject] = NoCluster
        /\ UNCHANGED found /\ Return("panic")
     \/ /\ request[subject] # "absent" /\ binding[subject] # NoCluster
        /\ found' = binding[subject] /\ Goto("match")
  /\ UNCHANGED <<given, objects, todo, history>>

\* There is a kind cluster of k, and its name has the prefix.
Matches(k) ==
  k \in StartsWith[found] /\ cluster[k] \in {"created", "ready", "terminating"}

\* ConfigByPrefix: the first match in the order in which kind lists the clusters.
ConfigByPrefix ==
  /\ At("ImportDomainAPIs", "match")
  /\ \/ (\A k \in Clusters : ~Matches(k)) /\ UNCHANGED config /\ Return("error")
     \/ \E i \in DOMAIN Listing :
          /\ Matches(Listing[i]) /\ \A j \in 1..(i - 1) : ~Matches(Listing[j])
          /\ config' = Listing[i] /\ Goto("import")
  /\ UNCHANGED <<objects, local, calls, usable>>

\* Creates the objects in the directory.  The cluster may not be up yet, may be
\* about to go, or gone since it was listed.
ImportFromDir ==
  /\ At("ImportDomainAPIs", "import")
  /\ \/ cluster[config] \in {"created", "ready", "terminating"} /\ Return("ok")
     \/ cluster[config] \in {"created", "terminating", "gone"} /\ Return("error")
  /\ UNCHANGED <<objects, local, history>>

(***************************************************************************)
(* DeleteMCP: the Get, the Delete and the wait of DeleteObject.            *)
(***************************************************************************)
GetMCP ==
  /\ At("DeleteMCP", "begin")
  /\ IF mcp[subject] = "absent" THEN Return("ok") ELSE Goto("delete")
  /\ UNCHANGED <<objects, local, history>>

\* Meanwhile it may be gone.
DeleteMCP ==
  /\ At("DeleteMCP", "delete")
  /\ \/ mcp[subject] = "absent" /\ UNCHANGED mcp /\ Return("ok")
     \/ /\ mcp[subject] # "absent"
        /\ mcp' = [mcp EXCEPT ![subject] = "terminating"]
        /\ IF waitOpts THEN Goto("await") ELSE Return("ok")
  /\ UNCHANGED <<request, binding, cluster, local, history>>

AwaitMCPDeleted ==
  /\ At("DeleteMCP", "await")
  /\ mcp[subject] = "absent"
  /\ Return("ok")
  /\ UNCHANGED <<objects, local, history>>

(***************************************************************************)
(* DeleteCluster.                                                          *)
(***************************************************************************)
\* Variant with a bug: the names of clusters are taken for those of requests.
ListClusters ==
  /\ At("DeleteCluster", "begin")
  /\ todo' \in SetToSeqs({binding[m] : m \in {n \in MCPs : binding[n] = subject}})
  /\ Goto("get")
  /\ UNCHANGED <<given, objects, found, history>>

\* Variant with a bug: the requests are not filtered by their cluster.
ListAllRequests ==
  /\ At("DeleteCluster", "begin")
  /\ todo' \in SetToSeqs({m \in MCPs : request[m] # "absent"})
  /\ Goto("get")
  /\ UNCHANGED <<given, objects, found, history>>

\* Variant with a bug: only the first request of the list is looked at.
ListFirstRequest ==
  /\ At("DeleteCluster", "begin")
  /\ \/ \E m \in MCPs : /\ request[m] # "absent"
                       /\ todo' = IF binding[m] = subject THEN <<m>> ELSE << >>
     \/ (\A m \in MCPs : request[m] = "absent") /\ todo' = << >>
  /\ Goto("get")
  /\ UNCHANGED <<given, objects, found, history>>

\* The requests that were bound to the cluster when they were listed.
ListClusterRequests ==
  /\ At("DeleteCluster", "begin")
  /\ todo' \in SetToSeqs({m \in MCPs : request[m] # "absent" /\ binding[m] = subject})
  /\ Goto("get")
  /\ UNCHANGED <<given, objects, found, history>>

\* DeleteObject returns for a request: on to the next one.
NextRequest == todo' = Tail(todo) /\ Goto("get")

\* The Get for the next request; it need not exist any more.
GetRequest ==
  /\ At("DeleteCluster", "get") /\ todo # << >>
  /\ IF request[Head(todo)] = "absent" THEN NextRequest ELSE Goto("delete") /\ UNCHANGED todo
  /\ UNCHANGED <<given, objects, found, history>>

\* The Delete; it goes by the name, whatever has become of the request meanwhile.
DeleteRequest ==
  /\ At("DeleteCluster", "delete")
  /\ request' = [request EXCEPT ![Head(todo)] = IF @ = "absent" THEN @ ELSE "terminating"]
  /\ IF waitOpts /\ request[Head(todo)] # "absent"
     THEN Goto("await") /\ UNCHANGED todo
     ELSE NextRequest
  /\ UNCHANGED <<given, mcp, binding, cluster, found, history>>

AwaitRequestDeleted ==
  /\ At("DeleteCluster", "await")
  /\ request[Head(todo)] = "absent"
  /\ NextRequest
  /\ UNCHANGED <<given, objects, found, history>>

AwaitClusterDeleted ==
  /\ At("DeleteCluster", "get") /\ todo = << >>
  /\ ~Exists(subject)
  /\ Return("ok")
  /\ UNCHANGED <<objects, local, history>>

\* Variant with a bug: the last wait of DeleteCluster has no timeout.
FailsButAtTheEnd ==
  /\ Running
  /\ \/ "api" \in faults /\ ~At("DeleteCluster", "get")
     \/ "timeout" \in faults /\ pc \in {"clusters", "await"}
  /\ Return("error")
  /\ UNCHANGED <<objects, local, history>>

\* A call to an API server fails, or a wait expires: the error is returned.
Fails ==
  /\ Running /\ ~At("CreateMCP", "ready")
  /\ \/ "api" \in faults
     \/ "timeout" \in faults /\ pc \in {"clusters", "await"}
     \/ "timeout" \in faults /\ At("DeleteCluster", "get") /\ todo = << >>
  /\ Return("error")
  /\ UNCHANGED <<objects, local, history>>

\* The answer to a Create or a Delete gets lost: the error is returned although the
\* object is there, or about to go.
LosesAnswer ==
  /\ "api" \in faults
  /\ \/ /\ At("CreateMCP", "begin") /\ mcp[subject] = "absent"
        /\ mcp' = [mcp EXCEPT ![subject] = "pending"] /\ UNCHANGED request
     \/ /\ At("DeleteMCP", "delete") /\ mcp[subject] # "absent"
        /\ mcp' = [mcp EXCEPT ![subject] = "terminating"] /\ UNCHANGED request
     \/ /\ At("DeleteCluster", "delete") /\ request[Head(todo)] # "absent"
        /\ request' = [request EXCEPT ![Head(todo)] = "terminating"] /\ UNCHANGED mcp
  /\ Return("error")
  /\ UNCHANGED <<binding, cluster, local, history>>

(***************************************************************************)
(* The controllers (not part of this repository).                          *)
(***************************************************************************)
\* The operator keeps a request for each MCP, and deletes it with the MCP.
RequestCluster(m) ==
  /\ mcp[m] \in {"pending", "ready"} /\ request[m] = "absent"
  /\ request' = [request EXCEPT ![m] = "pending"]
  /\ UNCHANGED <<mcp, binding, cluster, control, local, history>>

ReleaseRequest(m) ==
  /\ mcp[m] = "terminating" /\ request[m] \in {"pending", "granted"}
  /\ request' = [request EXCEPT ![m] = "terminating"]
  /\ UNCHANGED <<mcp, binding, cluster, control, local, history>>

FinalizeMCP(m) ==
  /\ mcp[m] = "terminating" /\ request[m] = "absent"
  /\ mcp' = [mcp EXCEPT ![m] = "absent"]
  /\ UNCHANGED <<request, binding, cluster, control, local, history>>

ReadyMCP(m) ==
  /\ mcp[m] = "pending" /\ request[m] = "granted" /\ cluster[binding[m]] = "ready"
  /\ mcp' = [mcp EXCEPT ![m] = "ready"]
  /\ UNCHANGED <<request, binding, cluster, control, local, history>>

\* MCP clusters have exclusive tenancy: each request gets one of its own.
GrantRequest(m) ==
  /\ request[m] = "pending"
  /\ \E k \in Clusters :
       /\ cluster[k] = "absent"
       /\ cluster' = [cluster EXCEPT ![k] = "present"]
       /\ binding' = [binding EXCEPT ![m] = k]
  /\ request' = [request EXCEPT ![m] = "granted"]
  /\ UNCHANGED <<mcp, control, local, history>>

FinalizeRequest(m) ==
  /\ request[m] = "terminating"
  /\ request' = [request EXCEPT ![m] = "absent"]
  /\ binding' = [binding EXCEPT ![m] = NoCluster]
  /\ UNCHANGED <<mcp, cluster, control, local, history>>

\* The provider creates a kind cluster and deletes the one nobody needs.
ProvideCluster(k) ==
  /\ \/ cluster[k] = "present" /\ cluster' = [cluster EXCEPT ![k] = "created"]
     \/ cluster[k] = "created" /\ cluster' = [cluster EXCEPT ![k] = "ready"]
  /\ UNCHANGED <<mcp, request, binding, control, local, history>>

RemoveCluster(k) ==
  /\ \/ /\ Exists(k) /\ cluster[k] # "terminating"
        /\ \A m \in MCPs : binding[m] # k
        /\ cluster' = [cluster EXCEPT ![k] = "terminating"]
     \/ cluster[k] = "terminating" /\ cluster' = [cluster EXCEPT ![k] = "gone"]
  /\ UNCHANGED <<mcp, request, binding, control, local, history>>

-----------------------------------------------------------------------------
Step ==
  \/ CreateMCP \/ AwaitMCP \/ AwaitClusters
  \/ RetrieveMCPClusterName \/ ConfigByPrefix \/ ImportFromDir
  \/ GetMCP \/ DeleteMCP \/ AwaitMCPDeleted
  \/ ListClusterRequests \/ GetRequest \/ DeleteRequest \/ AwaitRequestDeleted
  \/ AwaitClusterDeleted \/ Fails \/ LosesAnswer

MCPController(m) ==
  \/ RequestCluster(m) \/ ReleaseRequest(m) \/ FinalizeMCP(m) \/ ReadyMCP(m)
  \/ GrantRequest(m) \/ FinalizeRequest(m)

ClusterController(k) == ProvideCluster(k) \/ RemoveCluster(k)

TestOver == ~Running /\ (calls = MaxCalls \/ outcome = "panic") /\ UNCHANGED vars

Next ==
  \/ BeginCall \/ Step \/ TestOver
  \/ \E m \in MCPs : MCPController(m)
  \/ \E k \in Clusters : ClusterController(k)

\* A call that has begun goes on.  The controllers do their work, except where
\* something may fail.
Spec ==
  /\ Init /\ [][Next]_vars /\ WF_vars(Step)
  /\ \A m \in MCPs : WF_vars(faults = {} /\ MCPController(m))
  /\ \A k \in Clusters : WF_vars(faults = {} /\ ClusterController(k))

-----------------------------------------------------------------------------
TypeOK ==
  /\ faults \subseteq Faults /\ waitOpts \in BOOLEAN
  /\ mcp \in [MCPs -> {"absent", "pending", "ready", "terminating"}]
  /\ request \in [MCPs -> {"absent", "pending", "granted", "terminating"}]
  /\ binding \in [MCPs -> Clusters \cup {NoCluster}]
  /\ cluster \in [Clusters -> {"absent", "present", "created", "ready", "terminating", "gone"}]
  /\ op \in {"none", "CreateMCP", "ImportDomainAPIs", "DeleteMCP", "DeleteCluster"}
  /\ subject \in MCPs \cup Clusters \cup {NoCluster}
  /\ pc \in {"idle", "begin", "ready", "clusters", "match", "import", "get", "delete", "await"}
  /\ {found, config} \subseteq Clusters \cup {NoCluster}
  /\ todo \in Seq(MCPs)
  /\ outcome \in {"ok", "error", "panic"}
  /\ calls \in 0..MaxCalls
  /\ usable \in SUBSET MCPs

\* As long as an MCP that CreateMCP created without error has not been deleted,
\* nor its cluster, ImportDomainAPIs imports into its cluster (or a call has
\* failed): whatever other MCPs and clusters are created, half created or deleted
\* meanwhile, although the cluster is found by the first match of a prefix, and
\* used some time after.
UsableMCPReachable ==
  [][op = "ImportDomainAPIs" /\ op' = "none" /\ subject \in usable
       => \/ config = binding[subject] /\ outcome' = "ok"
          \/ "api" \in faults /\ outcome' = "error"]_vars

\* clusterprovider.go:200: DeleteCluster deletes "every cluster request that
\* belongs to this cluster", and no other one: what it deletes is bound to the
\* cluster when it is deleted, and not just was when it was listed.  So it is
\* as long as nothing fails and the deletion is not called twice.
DeletesOwnRequests ==
  [][faults = {} /\ At("DeleteCluster", "delete") /\ (todo # todo' \/ pc # pc') =>
       \A m \in MCPs : request[m] # request'[m] => binding[m] = subject]_vars

\* What a test has got: the usable MCPs and the clusters they are bound to.
homeBar == [m \in usable |-> binding[m]]

\* Where the last call has put its objects, if it was an import for one of them.
importedBar == IF ~Running /\ outcome = "ok" /\ subject \in usable THEN config ELSE NoCluster

Usable == INSTANCE UsableControlPlanes WITH home <- homeBar, imported <- importedBar

\* Two usable MCPs never have one cluster, none ever changes its cluster, no call
\* makes more than the one unusable it is about, and each import goes to the right
\* cluster, whatever fails and however requests come, go and come back.
ImplementsUsable == Usable!Spec

\* A call that was made returns.
CallsReturn == Running ~> ~Running

\* When nothing fails, CreateMCP of an MCP there is not returns without error, and
\* the test can use it: the other clusters, which it waits for as well, get ready or
\* go in the end, those that an earlier call has left in the making or in deletion
\* included.
CreateMCPSucceeds ==
  \A m \in MCPs :
    faults = {} /\ At("CreateMCP", "begin") /\ subject = m /\ mcp[m] = "absent"
      ~> op = "none" /\ subject = m /\ outcome = "ok" /\ m \in usable

\* When nothing fails, DeleteCluster of a cluster there is gets it deleted and
\* returns without error, even if the MCP it belongs to asks for another one at
\* once, and whatever became of its requests since they were listed.
DeleteClusterSucceeds ==
  \A k \in Clusters :
    faults = {} /\ At("DeleteCluster", "begin") /\ subject = k /\ Exists(k)
      ~> op = "none" /\ outcome = "ok" /\ cluster[k] = "gone"

(***************************************************************************)
(* A statement of the source that the code does not keep.                  *)
(***************************************************************************)
\* clusterutils.go:87-89, clusterutils_test.go:88-92: for an MCP that has no
\* cluster MCPConfig returns errClusterNotFound, rather than panic.
NoPanic == outcome # "panic"
=============================================================================
