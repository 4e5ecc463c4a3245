--------------------------- MODULE CleanupProofs ---------------------------
(***************************************************************************)
(* A cleanup that logs no error has cleaned up.  RequestsInv says what the *)
(* cleanup's loop over the requests achieves; CleanInv says it of its      *)
(* loops over the components, and of the cluster it destroys at last.      *)
(***************************************************************************)
EXTENDS BootstrapProofs

\* The deletion of x was started, and has finished if it is waited for.
Down(x) == obj[x] \in {"absent", "terminating"} /\ (Awaited(x) => ~Exists(x))

\* What the loops over the components are past is down for good.
LoopsInv ==
  /\ \A i \in 1..Len(ServiceProviders) :
       Past("DeleteServiceProviders", ServiceProviders, i) => Down(ServiceProviders[i])
  /\ \A i \in 1..Len(PlatformServices) :
       Past("DeletePlatformServices", PlatformServices, i) => Down(PlatformServices[i])
  /\ \A i \in 1..Len(ClusterProviders) :
       Past("DeleteClusterProviders", ClusterProviders, i) => Down(ClusterProviders[i])

CleanInv == reported = {} => LoopsInv /\ (phase = "Done" => platform = "gone")

\* The functions that delete components.
ComponentPhases == {"DeleteServiceProviders", "DeletePlatformServices", "DeleteClusterProviders"}

\* The components are neither requests nor clusters.
LEMMA ComponentNames ==
  /\ Components \subseteq Names
  /\ \A x \in Components : x \notin Requests /\ x \notin Clusters
BY NamesAssumption DEF Disjoint, Names

\* No report is ever taken back.
LEMMA ReportsStay == ASSUME [Next]_vars PROVE reported \subseteq reported'
<1>1. CASE Setup
  BY <1>1 DEF Setup, CreatePlatformCluster, CreateNamespace, LoadImage, CreateObject,
     ImportConfigs, ObserveReady, ManagePlatformCluster, InstallExtension,
     RegisterSchemes, VerifyEnvironment, SetupFails
<1>2. CASE Cleanup
  BY <1>2 DEF Cleanup, GetObject, DeleteObject, ObserveDeleted, DeleteFails,
     ListRequests, ListFails, DestroyPlatformCluster, DestroyFails
<1>3. CASE LoopEnds \/ TestsEnd \/ Environment \/ UNCHANGED vars
  BY <1>3 DEF LoopEnds, TestsEnd, Environment, BecomeReady, LoseReady, Finalize,
     CreateRequest, GrantRequest, ReleaseCluster, TestDeletesRequest, vars
<1> QED
  BY <1>1, <1>2, <1>3 DEF Next, Program, Terminated

\* The steps of the setup come before the cleanup.
LEMMA SetupRank == ASSUME TypeOK, Setup PROVE Rank[phase] < Rank["Test"]
<1> USE Ranks
<1>1. Rank[phase] \in Nat
  BY RankRange DEF TypeOK
<1> QED
  BY <1>1 DEF Setup, CreatePlatformCluster, CreateNamespace, LoadImage, CreateObject,
     ImportConfigs, ObserveReady, ManagePlatformCluster, InstallExtension,
     RegisterSchemes, VerifyEnvironment, SetupFails, At, InstallPhases, InSetup

\* Once the tests are over nothing creates a component, and a deletion that has
\* finished has finished for good.
LEMMA DownStays ==
  ASSUME TypeOK, [Next]_vars, Rank[phase] > Rank["Test"], NEW x \in Components, Down(x)
  PROVE  Down(x)'
<1>1. obj \in [Names -> ObjectStates] /\ x \in Names
  BY ComponentNames DEF TypeOK
<1>2. ~Setup
  <2>1. Rank[phase] \in Nat /\ Rank["Test"] \in Nat
    BY Ranks, RankRange DEF TypeOK
  <2> QED
    BY <2>1, SetupRank
<1>3. CASE Cleanup
  <2>1. CASE DeleteObject
    BY <1>1, <2>1 DEF DeleteObject, Down, Exists, Awaited
  <2>2. CASE DeleteFails
    BY <1>1, <2>2 DEF DeleteFails, Down, Exists, Awaited
  <2>3. CASE UNCHANGED obj
    BY <2>3 DEF Down, Exists, Awaited
  <2> QED
    BY <1>3, <2>1, <2>2, <2>3 DEF Cleanup, GetObject, ObserveDeleted, ListRequests,
       ListFails, DestroyPlatformCluster, DestroyFails, api
<1>4. CASE Environment
  <2>1. CASE \E o \in Names : BecomeReady(o) \/ LoseReady(o) \/ Finalize(o)
    BY <1>1, <2>1 DEF BecomeReady, LoseReady, Finalize, Down, Exists, Awaited
  <2>2. CASE \E r \in Requests : CreateRequest(r) \/ GrantRequest(r) \/ TestDeletesRequest(r)
    BY <1>1, <2>2, ComponentNames, EnvironmentAssumption
       DEF CreateRequest, GrantRequest, TestDeletesRequest, Down, Exists, Awaited
  <2>3. CASE \E c \in Clusters : ReleaseCluster(c)
    BY <1>1, <2>3, ComponentNames DEF ReleaseCluster, Down, Exists, Awaited
  <2> QED
    BY <1>4, <2>1, <2>2, <2>3 DEF Environment
<1>5. CASE LoopEnds \/ TestsEnd \/ UNCHANGED vars
  BY <1>5 DEF LoopEnds, TestsEnd, vars, api, Down, Exists, Awaited
<1> QED
  BY <1>2, <1>3, <1>4, <1>5 DEF Next, Program, Terminated

\* A deletion the loop goes on from without an error is one that was started,
\* and awaited if it is to be.
LEMMA DeletedIsDown ==
  ASSUME TypeOK, GetObject \/ DeleteObject \/ ObserveDeleted,
         phase \in ComponentPhases, idx' # idx, Item \in Components
  PROVE  \A x \in Components : x = Item => Down(x)'
<1>0. obj \in [Names -> ObjectStates] /\ Item \in Names
  BY ComponentNames DEF TypeOK
<1>1. CASE GetObject
  BY <1>0, <1>1 DEF GetObject, DeleteReturns, Await, NextItem, Down, Exists, api, Awaited
<1>2. CASE DeleteObject
  BY <1>0, <1>2 DEF DeleteObject, DeleteReturns, Await, NextItem, Down, Exists, Awaited
<1>3. CASE ObserveDeleted
  BY <1>0, <1>3 DEF ObserveDeleted, DeleteReturns, Await, NextItem, Down, Exists, api, Awaited
<1> QED
  BY <1>1, <1>2, <1>3

\* Each loop of the cleanup keeps its part of LoopsInv.
LEMMA LoopDown ==
  ASSUME TypeOK, [Next]_vars, reported' = {},
         NEW p \in ComponentPhases, NEW s \in Seq(Components), NEW i \in 1..Len(s),
         phase = p => Todo = s,
         Past(p, s, i) => Down(s[i]),
         Rank[phase'] > Rank[p] \/ (phase' = p /\ i < idx')
  PROVE  Down(s[i])'
<1>0. /\ p \in Phases /\ p \in LoopPhases /\ s[i] \in Components
      /\ Rank[p] \in Nat /\ Rank[p] > Rank["Test"] /\ Rank[p] >= Rank["DeleteServiceProviders"]
      /\ Rank[phase] \in Nat /\ Rank[phase'] \in Nat /\ Rank["Test"] \in Nat
  <2>1. p \in Phases /\ p \in LoopPhases
    BY PhaseNames DEF ComponentPhases, LoopPhases, DeletePhases
  <2>2. Rank[p] > Rank["Test"] /\ Rank[p] >= Rank["DeleteServiceProviders"]
    BY Ranks DEF ComponentPhases
  <2>3. phase \in Phases /\ phase' \in Phases /\ "Test" \in Phases
    BY NextTypeOK, PhaseNames DEF TypeOK
  <2> QED
    BY <2>1, <2>2, <2>3, RankRange
<1>1. CASE Past(p, s, i)
  <2>1. Rank[phase] > Rank["Test"]
    BY <1>0, <1>1 DEF Past
  <2> QED
    BY <1>0, <1>1, <2>1, DownStays
<1>2. CASE ~Past(p, s, i)
  <2>1. ~SetupFails
    <3>1. SetupFails => phase' = "DeleteServiceProviders" /\ idx' = 1
      BY DEF SetupFails, Goto
    <3> QED
      BY <1>0, <3>1
  <2>2. phase = p /\ i = idx /\ phase' = phase /\ idx' = idx + 1 /\ MoreItems
    BY <1>0, <1>2, <2>1, GetsPast
  <2>3. idx' # idx /\ Item = s[i]
    BY <2>2 DEF Item, TypeOK
  <2>4. phase \in DeletePhases /\ phase \notin InstallPhases \cup {"LoadImages", "InstallExtensions"}
    BY <2>2 DEF ComponentPhases, DeletePhases, InstallPhases
  <2>5. GetObject \/ DeleteObject \/ ObserveDeleted \/ DeleteFails
    <3>1. ~(Environment \/ UNCHANGED vars)
      BY <2>3 DEF Environment, BecomeReady, LoseReady, Finalize, CreateRequest,
         GrantRequest, ReleaseCluster, TestDeletesRequest, vars, control
    <3>2. ~Setup
      BY <1>0, <2>2, SetupRank
    <3>3. ~LoopEnds
      BY <2>2 DEF LoopEnds
    <3>4. ~(TestsEnd \/ ListRequests \/ ListFails \/ DestroyPlatformCluster \/ DestroyFails)
      BY <2>2 DEF TestsEnd, ListRequests, ListFails, DestroyPlatformCluster, DestroyFails,
         ComponentPhases
    <3> QED
      BY <3>1, <3>2, <3>3, <3>4 DEF Next, Program, Cleanup, Terminated
  <2>6. ~DeleteFails
    BY DEF DeleteFails
  <2> QED
    BY <1>0, <2>2, <2>3, <2>5, <2>6, DeletedIsDown
<1> QED
  BY <1>1, <1>2

LEMMA SlicesOfComponents ==
  /\ ServiceProviders \in Seq(Components)
  /\ PlatformServices \in Seq(Components)
  /\ ClusterProviders \in Seq(Components)
BY SlicesAssumption

LEMMA InitClean == Init => CleanInv
BY Ranks DEF Init, CleanInv, LoopsInv, Past

\* CleanInv is preserved by every step of program and controllers.
LEMMA CleanInvStep == TypeOK /\ CleanInv /\ [Next]_vars => CleanInv'
<1> SUFFICES ASSUME TypeOK, CleanInv, [Next]_vars, reported' = {}
             PROVE  LoopsInv' /\ (phase' = "Done" => platform' = "gone")
  BY DEF CleanInv
<1>1. LoopsInv /\ (phase = "Done" => platform = "gone")
  BY ReportsStay DEF CleanInv
<1>2. LoopsInv'
  <2> USE <1>1, LoopDown, SlicesOfComponents DEF ComponentPhases, LoopsInv
  <2>1. \A i \in 1..Len(ServiceProviders) :
          Past("DeleteServiceProviders", ServiceProviders, i)' => Down(ServiceProviders[i])'
    BY DEF Past, Todo
  <2>2. \A i \in 1..Len(PlatformServices) :
          Past("DeletePlatformServices", PlatformServices, i)' => Down(PlatformServices[i])'
    BY DEF Past, Todo
  <2>3. \A i \in 1..Len(ClusterProviders) :
          Past("DeleteClusterProviders", ClusterProviders, i)' => Down(ClusterProviders[i])'
    BY DEF Past, Todo
  <2> QED
    BY <2>1, <2>2, <2>3
<1>3. ASSUME phase' = "Done" PROVE platform' = "gone"
  <2>0. phase \in Phases /\ Rank[phase] \in Nat
    BY RankRange DEF TypeOK
  <2>1. CASE phase = "Done"
    BY <1>1, <2>1, Ranks, <2>0, SetupRank
       DEF Next, Program, Cleanup, Terminated, Environment, LoopEnds, TestsEnd, GetObject,
       DeleteObject, ObserveDeleted, DeleteFails, ListRequests, ListFails,
       DestroyPlatformCluster, DestroyFails, BecomeReady, LoseReady, Finalize, CreateRequest,
       GrantRequest, ReleaseCluster, TestDeletesRequest, vars, api
  <2>2. CASE phase # "Done"
    <3>1. Rank[phase'] = Rank[phase] + 1 /\ (phase \in LoopPhases => ~MoreItems)
      BY <1>3, <2>2, ControlStep
    <3>2. phase = "DestroyCluster"
      <4>1. Rank[phase] = Rank["DestroyCluster"]
        BY <1>3, <2>0, <3>1, Ranks
      <4> QED
        BY <2>0, <4>1, RankInjective, PhaseNames
    <3>3. DestroyPlatformCluster \/ DestroyFails
      <4>1. ~Setup
        BY <2>0, <3>2, SetupRank, Ranks
      <4>2. ~(LoopEnds \/ TestsEnd)
        BY <3>2 DEF LoopEnds, TestsEnd, LoopPhases, InstallPhases, DeletePhases
      <4>3. ~(GetObject \/ DeleteObject \/ ObserveDeleted \/ DeleteFails)
        BY <3>2 DEF GetObject, DeleteObject, ObserveDeleted, DeleteFails, DeleteMayFail,
           At, DeletePhases
      <4>4. ~(ListRequests \/ ListFails)
        BY <3>2 DEF ListRequests, ListFails
      <4>5. ~(Environment \/ UNCHANGED vars)
        BY <1>3, <2>2 DEF Environment, BecomeReady, LoseReady, Finalize, CreateRequest,
           GrantRequest, ReleaseCluster, TestDeletesRequest, vars, control
      <4> QED
        BY <4>1, <4>2, <4>3, <4>4, <4>5, <2>2 DEF Next, Program, Cleanup, Terminated
    <3> QED
      BY <3>3 DEF DestroyPlatformCluster, DestroyFails
  <2> QED
    BY <2>1, <2>2
<1> QED
  BY <1>2, <1>3

\* What RequestsInv and CleanInv say when the cleanup is over.
LEMMA CleanWhenDone == TypeOK /\ RequestsInv /\ CleanInv => SilentMeansClean
<1> SUFFICES ASSUME TypeOK, RequestsInv, CleanInv, phase = "Done", reported = {}
             PROVE  /\ platform = "gone"
                    /\ \A x \in Components : Down(x)
                    /\ \A i \in 1..Len(listed) : listed[i] \in Owned \/ ~Exists(listed[i])
  BY DEF SilentMeansClean, Down
<1>1. platform = "gone" /\ LoopsInv
  BY DEF CleanInv
<1>2. \A x \in Components : Down(x)
  <2>1. \A i \in 1..Len(ServiceProviders) : Down(ServiceProviders[i])
    BY <1>1, Ranks DEF LoopsInv, Past
  <2>2. \A i \in 1..Len(PlatformServices) : Down(PlatformServices[i])
    BY <1>1, Ranks DEF LoopsInv, Past
  <2>3. \A i \in 1..Len(ClusterProviders) : Down(ClusterProviders[i])
    BY <1>1, Ranks DEF LoopsInv, Past
  <2>4. /\ DOMAIN ServiceProviders = 1..Len(ServiceProviders)
        /\ DOMAIN PlatformServices = 1..Len(PlatformServices)
        /\ DOMAIN ClusterProviders = 1..Len(ClusterProviders)
    BY SlicesOfComponents
  <2> QED
    BY <2>1, <2>2, <2>3, <2>4 DEF Components, ToSet
<1>3. \A i \in 1..Len(listed) : listed[i] \in Owned \/ ~Exists(listed[i])
  BY Ranks DEF RequestsInv, Settled
<1> QED
  BY <1>1, <1>2, <1>3

\* The cleanup (bootstrap.go:91-134) logs every deletion it has not carried out.
THEOREM SilentCleans == Spec => []SilentMeansClean
<1>1. Init => RequestsInv
  BY Ranks DEF Init, RequestsInv, Exists, Names
<1> QED
  BY <1>1, InitClean, TypeCorrect, RequestsInvStep, CleanInvStep, CleanWhenDone, PTL DEF Spec
=============================================================================
