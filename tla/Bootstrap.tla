------------------------------ MODULE Bootstrap ------------------------------
(***************************************************************************)
(* The life of a test environment built by OpenMCPSetup.Bootstrap: the     *)
(* setup functions it registers, the test run, and the finish functions    *)
(* that take the environment down again, interleaved with the controllers  *)
(* of the platform cluster.                                                *)
(*                                                                         *)
(* The program is sequential.  Its control is a program counter of three   *)
(* parts: the registered function it is in (phase), the element of the     *)
(* slice that function loops over (idx), and the call it is about to make  *)
(* for that element (pc).  Every call to the API server is one action, so  *)
(* the controllers may act between any two of them.                        *)
(*                                                                         *)
(* An API object is identified by kind and name; here every object is one  *)
(* element of Names, so the slices of different kinds are disjoint.        *)
(***************************************************************************)
EXTENDS Naturals, Sequences, FiniteSets, SequencesExt

CONSTANTS
  ClusterProviders, PlatformServices, ServiceProviders, Extensions,
                    \* the slices of OpenMCPSetup
  Operator,         \* the openmcp-operator deployment
  PlatformCluster,  \* the Cluster object "platform"
  Kind,             \* the cluster provider named "kind"
  Requests,         \* the ClusterRequests that may appear on the platform
  Clusters,         \* the Cluster objects created for them
  ClusterOf,        \* the cluster a request is bound to when it is granted
  Owned,            \* requests whose owner recreates them (a left-over MCP)
  LocalImages,      \* objects whose setup says LoadImageToCluster
  WithConfigs,      \* services that have a PlatformServiceConfigsDir
  WithOpts,         \* objects whose deletion is given wait options
  Faults            \* "api": calls fail, "timeout": waits expire,
                    \* "degrade": a ready object becomes unready again

Components ==
  ToSet(ClusterProviders) \cup ToSet(PlatformServices) \cup ToSet(ServiceProviders)

Names == Components \cup {Operator, PlatformCluster} \cup Requests \cup Clusters

Disjoint(S, T) == S \cap T = {}

ASSUME SlicesAssumption ==
  /\ ClusterProviders \in Seq(Components) /\ IsInjective(ClusterProviders)
  /\ PlatformServices \in Seq(Components) /\ IsInjective(PlatformServices)
  /\ ServiceProviders \in Seq(Components) /\ IsInjective(ServiceProviders)
  /\ Extensions \in Seq(ToSet(Extensions))

ASSUME NamesAssumption ==
  /\ Disjoint(ToSet(ClusterProviders), ToSet(PlatformServices))
  /\ Disjoint(ToSet(ClusterProviders), ToSet(ServiceProviders))
  /\ Disjoint(ToSet(PlatformServices), ToSet(ServiceProviders))
  /\ Operator # PlatformCluster
  /\ Disjoint(Components, {Operator, PlatformCluster})
  /\ Disjoint(Components \cup {Operator, PlatformCluster}, Requests \cup Clusters)
  /\ Disjoint(Requests, Clusters)

ASSUME EnvironmentAssumption ==
  /\ ClusterOf \in [Requests -> Clusters]
  /\ IsFiniteSet(Requests)
  /\ Owned \subseteq Requests
  /\ Faults \subseteq {"api", "timeout", "degrade"}

VARIABLES
  platform,  \* the kind cluster that hosts everything: "none", "up", "gone"
  obj,       \* the API objects on the platform cluster
  created,   \* the requests that have been created so far
  loaded,    \* images loaded into the platform cluster
  phase, idx, pc,
  listed,    \* the ClusterRequests cleanup found
  reported   \* what the finish functions logged an error about

api     == <<platform, obj, created>>
control == <<phase, idx, pc>>
vars    == <<api, loaded, control, listed, reported>>

ObjectStates == {"absent", "present", "ready", "terminating"}

\* Variant with a bug: the operator is installed after the cluster providers.
RankOperatorLate ==
  [CreateCluster          |-> 1,  CreateNamespace         |-> 2,
   LoadImages             |-> 3,  InstallClusterProviders |-> 4,
   InstallOperator        |-> 5,  ManagePlatformCluster   |-> 6,
   InstallExtensions      |-> 7,  VerifyEnvironment       |-> 8,
   InstallPlatformServices|-> 9,  InstallServiceProviders |-> 10,
   Test                   |-> 11,
   DeleteServiceProviders |-> 12, DeletePlatformServices  |-> 13,
   ListRequests           |-> 14, DeleteRequests          |-> 15,
   DeleteClusterProviders |-> 16, DestroyCluster          |-> 17,
   Done                   |-> 18]

\* The functions Bootstrap registers, in the order the framework runs them.
Rank ==
  [CreateCluster          |-> 1,  CreateNamespace         |-> 2,
   LoadImages             |-> 3,  InstallOperator         |-> 4,
   InstallClusterProviders|-> 5,  ManagePlatformCluster   |-> 6,
   InstallExtensions      |-> 7,  VerifyEnvironment       |-> 8,
   InstallPlatformServices|-> 9,  InstallServiceProviders |-> 10,
   Test                   |-> 11,
   DeleteServiceProviders |-> 12, DeletePlatformServices  |-> 13,
   ListRequests           |-> 14, DeleteRequests          |-> 15,
   DeleteClusterProviders |-> 16, DestroyCluster          |-> 17,
   Done                   |-> 18]

Phases == DOMAIN Rank

InSetup   == Rank[phase] < Rank["Test"]
InCleanup == Rank[phase] \in Rank["DeleteServiceProviders"] .. Rank["DestroyCluster"]

InstallPhases ==
  {"InstallOperator", "InstallClusterProviders",
   "InstallPlatformServices", "InstallServiceProviders"}

DeletePhases ==
  {"DeleteServiceProviders", "DeletePlatformServices",
   "DeleteRequests", "DeleteClusterProviders"}

LoopPhases == InstallPhases \cup DeletePhases \cup {"LoadImages", "InstallExtensions"}

\* The setups that may have an image to load, in the order they are visited.
ImageSetups == <<Operator>> \o ClusterProviders \o ServiceProviders \o PlatformServices

\* The slice a function loops over.
Todo ==
  CASE phase = "LoadImages" -> ImageSetups
    [] phase = "InstallOperator" -> <<Operator>>
    [] phase \in {"InstallClusterProviders", "DeleteClusterProviders"} -> ClusterProviders
    [] phase \in {"InstallPlatformServices", "DeletePlatformServices"} -> PlatformServices
    [] phase \in {"InstallServiceProviders", "DeleteServiceProviders"} -> ServiceProviders
    [] phase = "InstallExtensions" -> Extensions
    [] phase = "DeleteRequests" -> listed
    [] OTHER -> << >>

MoreItems == idx <= Len(Todo)
Item      == Todo[idx]

Goto(p)  == phase' = p /\ idx' = 1 /\ pc' = "call"
Advance  == \E p \in Phases : Rank[p] = Rank[phase] + 1 /\ Goto(p)
NextItem == idx' = idx + 1 /\ pc' = "call" /\ UNCHANGED phase
Await(c) == pc' = c /\ UNCHANGED <<phase, idx>>

\* The program is at call c of the loop body of one of the functions in P.
At(P, c) == phase \in P /\ pc = c /\ MoreItems

Exists(o) == obj[o] # "absent"
ClusterProviderReady == \E i \in 1..Len(ClusterProviders) : obj[ClusterProviders[i]] = "ready"

-----------------------------------------------------------------------------
Init ==
  /\ platform = "none"
  /\ obj = [o \in Names |-> "absent"]
  /\ created = {}
  /\ loaded = {}
  /\ phase = "CreateCluster" /\ idx = 1 /\ pc = "call"
  /\ listed = << >>
  /\ reported = {}

(***************************************************************************)
(* Setup.                                                                  *)
(***************************************************************************)
CreatePlatformCluster ==
  /\ phase = "CreateCluster"
  /\ platform' = "up"
  /\ Advance
  /\ UNCHANGED <<obj, created, loaded, listed, reported>>

CreateNamespace ==
  /\ phase = "CreateNamespace"
  /\ Advance
  /\ UNCHANGED <<api, loaded, listed, reported>>

\* Variant with a bug: the loop over the service providers is missing.
LoadSomeImages ==
  /\ At({"LoadImages"}, "call")
  /\ loaded' = loaded \cup ({Item} \cap (LocalImages \ ToSet(ServiceProviders)))
  /\ NextItem
  /\ UNCHANGED <<api, listed, reported>>

\* One of the functions loadImagesToCluster composes, if there is one for it.
LoadImage ==
  /\ At({"LoadImages"}, "call")
  /\ loaded' = loaded \cup ({Item} \cap LocalImages)
  /\ NextItem
  /\ UNCHANGED <<api, listed, reported>>

\* Create the object of an operator, provider or service; a second Create of
\* the same object is an error, except that what there is of the operator's
\* manifests stays as it is.
CreateObject ==
  /\ At(InstallPhases, "call")
  /\ Exists(Item) => Item = Operator
  /\ obj' = [obj EXCEPT ![Item] = IF @ = "absent" THEN "present" ELSE @]
  /\ Await(IF Item \in WithConfigs THEN "import" ELSE "wait")
  /\ UNCHANGED <<platform, created, loaded, listed, reported>>

\* An attempt to import the configs of a platform service succeeds; a failed
\* attempt is retried and changes nothing here.
ImportConfigs ==
  /\ At({"InstallPlatformServices"}, "import")
  /\ Await("wait")
  /\ UNCHANGED <<api, loaded, listed, reported>>

\* Variant with a bug: the wait is satisfied as soon as the object is found.
ObserveCreated ==
  /\ At(InstallPhases, "wait")
  /\ Exists(Item)
  /\ NextItem
  /\ UNCHANGED <<api, loaded, listed, reported>>

\* A poll of wait.For finds the condition true.
ObserveReady ==
  /\ At(InstallPhases, "wait")
  /\ obj[Item] = "ready"
  /\ NextItem
  /\ UNCHANGED <<api, loaded, listed, reported>>

ManagesPlatformCluster == Len(ClusterProviders) > 0 /\ ClusterProviders[1] = Kind

\* The first provider decides whether the platform gets a Cluster object.
ManagePlatformCluster ==
  /\ phase = "ManagePlatformCluster"
  /\ Len(ClusterProviders) > 0
  /\ \/ /\ ManagesPlatformCluster
        /\ ~Exists(PlatformCluster)
        /\ obj' = [obj EXCEPT ![PlatformCluster] = "present"]
     \/ /\ ~ManagesPlatformCluster
        /\ UNCHANGED obj
  /\ Advance
  /\ UNCHANGED <<platform, created, loaded, listed, reported>>

InstallExtension ==
  /\ At({"InstallExtensions"}, "call")
  /\ Await("register")
  /\ UNCHANGED <<api, loaded, listed, reported>>

RegisterSchemes ==
  /\ At({"InstallExtensions"}, "register")
  /\ NextItem
  /\ UNCHANGED <<api, loaded, listed, reported>>

\* MatchList: every Cluster object there is (there may be none) is ready.
VerifyEnvironment ==
  /\ phase = "VerifyEnvironment"
  /\ \A c \in Clusters \cup {PlatformCluster} : Exists(c) => obj[c] = "ready"
  /\ Advance
  /\ UNCHANGED <<api, loaded, listed, reported>>

\* A function that loops has come to the end of its slice.
LoopEnds ==
  /\ phase \in LoopPhases
  /\ ~MoreItems
  /\ Advance
  /\ UNCHANGED <<api, loaded, listed, reported>>

\* There is a call the setup function may fail in.
CallPending ==
  CASE phase = "LoadImages" -> MoreItems /\ Item \in LocalImages
    [] phase \in LoopPhases -> MoreItems
    [] phase = "ManagePlatformCluster" -> ManagesPlatformCluster
    [] OTHER -> TRUE

\* What the call the setup function is about to make creates.
Creates ==
  {o \in Names : \/ At(InstallPhases, "call") /\ o = Item
                 \/ /\ phase = "ManagePlatformCluster" /\ ManagesPlatformCluster
                    /\ o = PlatformCluster}

NoProvider == phase = "ManagePlatformCluster" /\ Len(ClusterProviders) = 0

\* The call fails whatever happens: the object already exists (which is ignored
\* for the operator's manifests), or there is no provider to begin with.
CallRefused == NoProvider \/ \E o \in Creates \ {Operator} : Exists(o)

\* The program is in a wait.For that may run into its timeout.
Waiting == CallPending /\ (pc \in {"wait", "import"} \/ phase = "VerifyEnvironment")

\* Variant with a bug: the error of a setup function is dropped.
SetupGoesOn ==
  /\ InSetup
  /\ \/ "api" \in Faults /\ CallPending
     \/ "timeout" \in Faults /\ Waiting
     \/ CallRefused
  /\ Advance
  /\ UNCHANGED <<api, loaded, listed, reported>>

\* A call of a setup function returns an error, which ends the setup.  When
\* the answer to a Create is lost the object is there all the same.
SetupFails ==
  /\ InSetup
  /\ \/ "api" \in Faults /\ CallPending
     \/ "timeout" \in Faults /\ Waiting
     \/ CallRefused
  /\ \/ UNCHANGED obj
     \/ \E o \in Creates : ~Exists(o) /\ obj' = [obj EXCEPT ![o] = "present"]
  /\ Goto("DeleteServiceProviders")
  /\ UNCHANGED <<platform, created, loaded, listed, reported>>

\* The test run ends, with whatever result.
TestsEnd ==
  /\ phase = "Test"
  /\ Advance
  /\ UNCHANGED <<api, loaded, listed, reported>>

(***************************************************************************)
(* Cleanup.  No error stops it; each is logged.                            *)
(***************************************************************************)
\* DeletePlatformService is called without the wait options of the service.
Awaited(o) == o \in WithOpts \ ToSet(PlatformServices)

\* DeleteObject returns; the deletion of a request is then waited for once more.
DeleteReturns == IF phase = "DeleteRequests" THEN Await("confirm") ELSE NextItem

\* The Get of DeleteObject: nothing to do for an object that does not exist.
GetObject ==
  /\ At(DeletePhases, "call")
  /\ platform = "up"
  /\ IF Exists(Item) THEN Await("delete") ELSE DeleteReturns
  /\ UNCHANGED <<api, loaded, listed, reported>>

\* The Delete of DeleteObject; an object with finalizers stays for a while.
DeleteObject ==
  /\ At(DeletePhases, "delete")
  /\ platform = "up"
  /\ \/ ~Exists(Item) /\ UNCHANGED obj /\ DeleteReturns
     \/ /\ Exists(Item)
        /\ \E s \in {"terminating", "absent"} : obj' = [obj EXCEPT ![Item] = s]
        /\ IF Awaited(Item) THEN Await("await") ELSE DeleteReturns
  /\ UNCHANGED <<platform, created, loaded, listed, reported>>

\* Variant with a bug: an object that is being deleted counts as deleted.
ObserveTerminating ==
  /\ \E c \in {"await", "confirm"} : At(DeletePhases, c)
  /\ platform = "up"
  /\ obj[Item] \in {"absent", "terminating"}
  /\ IF pc = "await" THEN DeleteReturns ELSE NextItem
  /\ UNCHANGED <<api, loaded, listed, reported>>

\* A poll of ResourceDeleted finds no object of that name.
ObserveDeleted ==
  /\ \E c \in {"await", "confirm"} : At(DeletePhases, c)
  /\ platform = "up"
  /\ ~Exists(Item)
  /\ IF pc = "await" THEN DeleteReturns ELSE NextItem
  /\ UNCHANGED <<api, loaded, listed, reported>>

DeleteMayFail ==
  /\ phase \in DeletePhases /\ MoreItems
  /\ \/ "api" \in Faults
     \/ platform # "up"
     \/ "timeout" \in Faults /\ pc \in {"await", "confirm"}

\* Variants with a bug: the error is not logged; the cleanup returns it and
\* leaves the rest to DestroyCluster; a wait for a deletion has no timeout; a
\* deletion is repeated until it succeeds.
DeleteFailsSilently ==
  /\ DeleteMayFail
  /\ IF pc = "confirm" THEN NextItem ELSE DeleteReturns
  /\ UNCHANGED <<api, loaded, listed, reported>>

CleanupReturnsError ==
  /\ DeleteMayFail
  /\ reported' = reported \cup {Item}
  /\ Goto("DestroyCluster")
  /\ UNCHANGED <<api, loaded, listed>>

DeleteWaitsForever ==
  /\ DeleteMayFail
  /\ platform = "up" => pc \notin {"await", "confirm"}
  /\ reported' = reported \cup {Item}
  /\ IF pc = "confirm" THEN NextItem ELSE DeleteReturns
  /\ UNCHANGED <<api, loaded, listed>>

DeleteRepeats ==
  /\ DeleteMayFail
  /\ pc' = "call"
  /\ UNCHANGED <<api, loaded, phase, idx, listed, reported>>

\* Any of these calls fails, or its wait expires.  A Delete whose answer is
\* lost has marked the object all the same.
DeleteFails ==
  /\ DeleteMayFail
  /\ \/ UNCHANGED obj
     \/ /\ pc = "delete" /\ platform = "up" /\ Exists(Item)
        /\ \E s \in {"terminating", "absent"} : obj' = [obj EXCEPT ![Item] = s]
  /\ reported' = reported \cup {Item}
  /\ IF pc = "confirm" THEN NextItem ELSE DeleteReturns
  /\ UNCHANGED <<platform, created, loaded, listed>>

\* Variant with a bug: the Cluster objects are listed and not the requests.
ListClusters ==
  /\ phase = "ListRequests"
  /\ platform = "up"
  /\ listed' \in SetToSeqs({c \in Clusters : Exists(c)})
  /\ Advance
  /\ UNCHANGED <<api, loaded, reported>>

\* The list of all cluster requests, in the order the API server returns it.
ListRequests ==
  /\ phase = "ListRequests"
  /\ platform = "up"
  /\ listed' \in SetToSeqs({r \in Requests : Exists(r)})
  /\ Advance
  /\ UNCHANGED <<api, loaded, reported>>

\* Without a list there is nothing to loop over: the loop is skipped.
ListFails ==
  /\ phase = "ListRequests"
  /\ "api" \in Faults \/ platform # "up"
  /\ reported' = reported \cup {"list"}
  /\ Advance
  /\ UNCHANGED <<api, loaded, listed>>

DestroyPlatformCluster ==
  /\ phase = "DestroyCluster"
  /\ platform = "up"
  /\ platform' = "gone"
  /\ Advance
  /\ UNCHANGED <<obj, created, loaded, listed, reported>>

DestroyFails ==
  /\ phase = "DestroyCluster"
  /\ "api" \in Faults \/ platform # "up"
  /\ reported' = reported \cup {"destroy"}
  /\ Advance
  /\ UNCHANGED <<api, loaded, listed>>

Terminated == phase = "Done" /\ UNCHANGED vars

(***************************************************************************)
(* The controllers of the platform cluster (not part of this repository).  *)
(***************************************************************************)
\* What must work for an object to become ready or to be finalized.
Served(o) ==
  CASE o \in Clusters \cup {PlatformCluster} -> ClusterProviderReady
    [] o = Operator -> TRUE
    [] OTHER -> obj[Operator] = "ready"

BecomeReady(o) ==
  /\ platform = "up"
  /\ obj[o] = "present" /\ Served(o)
  /\ obj' = [obj EXCEPT ![o] = "ready"]
  /\ UNCHANGED <<platform, created, loaded, control, listed, reported>>

LoseReady(o) ==
  /\ platform = "up" /\ "degrade" \in Faults
  /\ obj[o] = "ready"
  /\ obj' = [obj EXCEPT ![o] = "present"]
  /\ UNCHANGED <<platform, created, loaded, control, listed, reported>>

Finalize(o) ==
  /\ platform = "up"
  /\ obj[o] = "terminating" /\ Served(o)
  /\ obj' = [obj EXCEPT ![o] = "absent"]
  /\ UNCHANGED <<platform, created, loaded, control, listed, reported>>

\* The operator asks for a cluster, once, or again as long as the owner exists.
CreateRequest(r) ==
  /\ platform = "up" /\ obj[Operator] = "ready"
  /\ ~Exists(r) /\ (r \in created => r \in Owned)
  /\ obj' = [obj EXCEPT ![r] = "present"]
  /\ created' = created \cup {r}
  /\ UNCHANGED <<platform, loaded, control, listed, reported>>

\* The scheduler grants a request; requests may share a cluster.
GrantRequest(r) ==
  /\ platform = "up" /\ obj[Operator] = "ready"
  /\ obj[r] = "present" /\ obj[ClusterOf[r]] # "terminating"
  /\ obj' = [obj EXCEPT ![r] = "ready",
                        ![ClusterOf[r]] = IF @ = "absent" THEN "present" ELSE @]
  /\ UNCHANGED <<platform, created, loaded, control, listed, reported>>

\* The scheduler deletes a cluster that no request is bound to any more.
ReleaseCluster(c) ==
  /\ platform = "up" /\ obj[Operator] = "ready"
  /\ obj[c] \in {"present", "ready"}
  /\ \A r \in Requests : ClusterOf[r] = c => obj[r] \in {"absent", "present"}
  /\ obj' = [obj EXCEPT ![c] = "terminating"]
  /\ UNCHANGED <<platform, created, loaded, control, listed, reported>>

\* A test takes its control plane down, and with it the request.
TestDeletesRequest(r) ==
  /\ phase = "Test"
  /\ obj[r] \in {"present", "ready"}
  /\ obj' = [obj EXCEPT ![r] = "terminating"]
  /\ UNCHANGED <<platform, created, loaded, control, listed, reported>>

-----------------------------------------------------------------------------
Setup ==
  \/ CreatePlatformCluster \/ CreateNamespace \/ LoadImage
  \/ CreateObject \/ ImportConfigs \/ ObserveReady
  \/ ManagePlatformCluster \/ InstallExtension \/ RegisterSchemes
  \/ VerifyEnvironment \/ SetupFails

Cleanup ==
  \/ GetObject \/ DeleteObject \/ ObserveDeleted \/ DeleteFails
  \/ ListRequests \/ ListFails
  \/ DestroyPlatformCluster \/ DestroyFails

Program == Setup \/ LoopEnds \/ TestsEnd \/ Cleanup

Environment ==
  \/ \E o \in Names \ Requests : BecomeReady(o) \/ LoseReady(o)
  \/ \E o \in Names : Finalize(o)
  \/ \E r \in Requests : CreateRequest(r) \/ GrantRequest(r) \/ TestDeletesRequest(r)
  \/ \E c \in Clusters : ReleaseCluster(c)

Next == Program \/ Environment \/ Terminated

\* The program keeps running: every wait has a timeout and every call returns.
Spec == Init /\ [][Next]_vars /\ WF_vars(Program)

\* The controllers do their work, too.
CooperativeSpec ==
  /\ Spec
  /\ \A o \in Names \ Requests : WF_vars(BecomeReady(o))
  /\ \A o \in Names : WF_vars(Finalize(o))
  /\ \A r \in Requests : WF_vars(GrantRequest(r))

-----------------------------------------------------------------------------
(***************************************************************************)
(* Properties.                                                             *)
(***************************************************************************)
TypeOK ==
  /\ platform \in {"none", "up", "gone"}
  /\ obj \in [Names -> ObjectStates]
  /\ created \in SUBSET Requests
  /\ loaded \in SUBSET Names
  /\ phase \in Phases
  /\ idx \in Nat \ {0}
  /\ pc \in {"call", "import", "wait", "register", "delete", "await", "confirm"}
  /\ listed \in Seq(Requests)
  /\ reported \in SUBSET (Names \cup {"list", "destroy"})

StableObjects == "degrade" \notin Faults

\* The tests run against a complete environment: unless something that was
\* ready has broken since, the operator, every configured component and the
\* managed platform cluster are ready for as long as the tests run.  No setup
\* function may skip an element, forget to wait or swallow an error.
TestsSeeReadyEnvironment ==
  StableObjects /\ phase = "Test" =>
    /\ \A x \in Components \cup {Operator} : obj[x] = "ready"
    /\ ManagesPlatformCluster => obj[PlatformCluster] = "ready"

\* Setup works bottom up: when the object of a platform service or a service
\* provider appears, whatever is installed in earlier functions is ready.
InstallsBottomUp ==
  [][StableObjects =>
       \A x \in Components : obj[x] = "absent" /\ obj'[x] # "absent" =>
         /\ obj[Operator] = "ready"
         /\ x \notin ToSet(ClusterProviders) =>
              \A y \in ToSet(ClusterProviders) : obj[y] = "ready"
         /\ x \in ToSet(ServiceProviders) =>
              \A y \in ToSet(PlatformServices) : obj[y] = "ready"]_vars

\* An object whose image is a local one is never created before the image has
\* been loaded into the kind cluster: its pod could not pull it.
ImagesBeforeObjects ==
  \A x \in LocalImages \cap (Components \cup {Operator}) : Exists(x) => x \in loaded

\* Cluster providers outlive the clusters' requests: once cleanup deletes
\* providers, every request it found is gone, or an error about it was logged.
\* (A request whose owner is left over may come back at any time.)
ProvidersOutliveRequests ==
  Rank[phase] >= Rank["DeleteClusterProviders"] =>
    \A i \in 1..Len(listed) :
      listed[i] \in Owned \/ ~Exists(listed[i]) \/ listed[i] \in reported

\* A cleanup that logs no error has cleaned up: the platform cluster is gone,
\* the deletion of every component was at least started, and has finished for
\* the components that are waited for and for the requests that were found.
SilentMeansClean ==
  phase = "Done" /\ reported = {} =>
    /\ platform = "gone"
    /\ \A x \in Components : obj[x] \in {"absent", "terminating"}
    /\ \A x \in Components : Awaited(x) => ~Exists(x)
    /\ \A i \in 1..Len(listed) : listed[i] \in Owned \/ ~Exists(listed[i])

\* Whatever fails, the finish functions run to the end.
CleanupAlwaysEnds == <>(phase = "Done")

\* When no call fails, no wait expires and the controllers do their work, the
\* order of the setup functions lets every wait succeed and the tests start.
TestsEventuallyRun == <>(phase = "Test")

(***************************************************************************)
(* The inductive invariants behind these properties.                       *)
(***************************************************************************)
\* Nothing more can come of request r, unless an error was logged about it.
Settled(r) == r \in Owned \/ (r \in created /\ ~Exists(r)) \/ r \in reported

\* Which requests cleanup has settled: the ones its loop is past.
RequestsInv ==
  /\ \A r \in Requests : Exists(r) => r \in created
  /\ Rank[phase] <= Rank["ListRequests"] => listed = << >>
  /\ \A i \in 1..Len(listed) : listed[i] \in created
  /\ \A i \in 1..Len(listed) :
       \/ phase = "DeleteRequests" /\ i < idx
       \/ Rank[phase] > Rank["DeleteRequests"]
       => Settled(listed[i])

\* The loop of function p over slice s is past element i.
Past(p, s, i) == i \in 1..Len(s) /\ (Rank[phase] > Rank[p] \/ (phase = p /\ i < idx))

\* Up to the end of the tests, what has been waited for is ready.
ReadyInv ==
  StableObjects /\ Rank[phase] <= Rank["Test"] =>
    /\ Past("InstallOperator", <<Operator>>, 1) => obj[Operator] = "ready"
    /\ \A i \in 1..Len(ClusterProviders) :
         Past("InstallClusterProviders", ClusterProviders, i)
           => obj[ClusterProviders[i]] = "ready"
    /\ \A i \in 1..Len(PlatformServices) :
         Past("InstallPlatformServices", PlatformServices, i)
           => obj[PlatformServices[i]] = "ready"
    /\ \A i \in 1..Len(ServiceProviders) :
         Past("InstallServiceProviders", ServiceProviders, i)
           => obj[ServiceProviders[i]] = "ready"
    /\ ManagesPlatformCluster =>
         /\ Rank[phase] > Rank["ManagePlatformCluster"]
              => obj[PlatformCluster] \in {"present", "ready"}
         /\ Rank[phase] > Rank["VerifyEnvironment"] => obj[PlatformCluster] = "ready"

\* Unless the setup failed, the images the loop is past are loaded.
ImagesInv ==
  /\ Rank[phase] <= Rank["Test"] =>
       \A i \in 1..Len(ImageSetups) :
         Past("LoadImages", ImageSetups, i) /\ ImageSetups[i] \in LocalImages
           => ImageSetups[i] \in loaded
  /\ ImagesBeforeObjects

(***************************************************************************)
(* A statement of a comment in the source that the code does not keep.     *)
(***************************************************************************)
\* platformservice.go:76: DeletePlatformService "deletes the platform service
\* object on the platform cluster and waits until the object has been deleted".
\* Here for the services whose setup has wait options.
PlatformServiceDeletionAwaited ==
  Rank[phase] > Rank["DeletePlatformServices"] =>
    \A x \in ToSet(PlatformServices) \cap WithOpts : ~Exists(x) \/ x \in reported

(***************************************************************************)
(* Bootstrap implements Lifecycle.                                         *)
(***************************************************************************)
Tier == [x \in Components |->
           CASE x \in ToSet(ClusterProviders) -> 1
             [] x \in ToSet(PlatformServices) -> 2
             [] OTHER -> 3]

\* The elements of s that the loop of function p has finished with.
Finished(p, s) == {s[i] : i \in {j \in 1..Len(s) : Past(p, s, j)}}

stageBar ==
  CASE InSetup -> "setup"
    [] phase = "Test" -> "test"
    [] InCleanup -> "cleanup"
    [] OTHER -> "over"

handledBar ==
  CASE InSetup -> Finished("InstallClusterProviders", ClusterProviders)
                    \cup Finished("InstallPlatformServices", PlatformServices)
                    \cup Finished("InstallServiceProviders", ServiceProviders)
    [] InCleanup -> Finished("DeleteServiceProviders", ServiceProviders)
                    \cup Finished("DeletePlatformServices", PlatformServices)
                    \cup Finished("DeleteClusterProviders", ClusterProviders)
    [] OTHER -> {}

L == INSTANCE Lifecycle WITH stage <- stageBar, handled <- handledBar

\* The setup and finish functions take the components up and down tier by tier, and
\* every cleanup does so with all of them, whatever fails.
ImplementsLifecycle == L!Spec
=============================================================================
