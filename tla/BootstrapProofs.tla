---------------------------- MODULE BootstrapProofs ----------------------------
(***************************************************************************)
(* Theorems about Bootstrap, for every setup (the slices may be empty or   *)
(* of any length), every set of requests and every combination of faults.  *)
(***************************************************************************)
EXTENDS Bootstrap, FiniteSetTheorems, TLAPS

-----------------------------------------------------------------------------
(***************************************************************************)
(* The program counter.                                                    *)
(***************************************************************************)
\* The order in which the registered functions run (bootstrap.go:71-82).
LEMMA Ranks ==
  /\ Rank["CreateCluster"] = 1            /\ Rank["CreateNamespace"] = 2
  /\ Rank["LoadImages"] = 3               /\ Rank["InstallOperator"] = 4
  /\ Rank["InstallClusterProviders"] = 5  /\ Rank["ManagePlatformCluster"] = 6
  /\ Rank["InstallExtensions"] = 7        /\ Rank["VerifyEnvironment"] = 8
  /\ Rank["InstallPlatformServices"] = 9  /\ Rank["InstallServiceProviders"] = 10
  /\ Rank["Test"] = 11                    /\ Rank["DeleteServiceProviders"] = 12
  /\ Rank["DeletePlatformServices"] = 13  /\ Rank["ListRequests"] = 14
  /\ Rank["DeleteRequests"] = 15          /\ Rank["DeleteClusterProviders"] = 16
  /\ Rank["DestroyCluster"] = 17          /\ Rank["Done"] = 18
BY DEF Rank

\* The names of the registered functions.
LEMMA PhaseNames ==
  Phases = {"CreateCluster", "CreateNamespace", "LoadImages", "InstallOperator",
            "InstallClusterProviders", "ManagePlatformCluster", "InstallExtensions",
            "VerifyEnvironment", "InstallPlatformServices", "InstallServiceProviders",
            "Test", "DeleteServiceProviders", "DeletePlatformServices", "ListRequests",
            "DeleteRequests", "DeleteClusterProviders", "DestroyCluster", "Done"}
BY DEF Phases, Rank

\* The ranks are the numbers from 1 to 18.
LEMMA RankRange == \A p \in Phases : Rank[p] \in 1..18 /\ Rank[p] \in Nat
BY Ranks, PhaseNames

\* No two functions run at the same time.
LEMMA RankInjective == \A p, q \in Phases : Rank[p] = Rank[q] => p = q
<1> SUFFICES ASSUME NEW p \in Phases, NEW q \in Phases, p # q
             PROVE  Rank[p] # Rank[q]
  OBVIOUS
<1> QED
  BY Ranks, PhaseNames

Calls == {"call", "import", "wait", "register", "delete", "await", "confirm"}

\* Every control step of the program leads to a proper program counter.
LEMMA ControlType ==
  ASSUME phase \in Phases, idx \in Nat \ {0}, pc \in Calls,
         \/ Advance \/ NextItem
         \/ \E p \in Phases : Goto(p)
         \/ \E c \in Calls : Await(c)
         \/ UNCHANGED control
  PROVE  phase' \in Phases /\ idx' \in Nat \ {0} /\ pc' \in Calls
BY DEF Advance, NextItem, Goto, Await, control, Calls

\* The elements the loops of the functions go over.
LEMMA Items ==
  ASSUME TypeOK, MoreItems
  PROVE  /\ phase \in LoopPhases
         /\ phase = "LoadImages" => Item \in Components \cup {Operator}
         /\ phase = "InstallOperator" => Item = Operator
         /\ phase = "InstallClusterProviders" => Item \in ToSet(ClusterProviders)
         /\ phase = "InstallPlatformServices" => Item \in ToSet(PlatformServices)
         /\ phase = "InstallServiceProviders" => Item \in ToSet(ServiceProviders)
         /\ phase = "DeleteClusterProviders" => Item \in ToSet(ClusterProviders)
         /\ phase = "DeletePlatformServices" => Item \in ToSet(PlatformServices)
         /\ phase = "DeleteServiceProviders" => Item \in ToSet(ServiceProviders)
         /\ phase = "DeleteRequests" => Item \in Requests
<1>1. phase \in Phases /\ idx \in Nat \ {0} /\ listed \in Seq(Requests)
  BY DEF TypeOK
<1>2. phase \in LoopPhases
  BY <1>1, PhaseNames DEF Todo, MoreItems, LoopPhases, InstallPhases, DeletePhases
<1>3. phase = "LoadImages" => Item \in Components \cup {Operator}
  <2> HAVE phase = "LoadImages"
  <2>1. Todo = <<Operator>> \o ClusterProviders \o ServiceProviders \o PlatformServices
    BY DEF Todo, ImageSetups
  <2>2. /\ <<Operator>> \in Seq(Components \cup {Operator})
        /\ ClusterProviders \in Seq(Components \cup {Operator})
        /\ ServiceProviders \in Seq(Components \cup {Operator})
        /\ PlatformServices \in Seq(Components \cup {Operator})
    BY SlicesAssumption
  <2>3. Todo \in Seq(Components \cup {Operator})
    BY <2>1, <2>2
  <2> QED
    BY <1>1, <2>3 DEF MoreItems, Item
<1>4. phase = "InstallOperator" => Item = Operator
  BY <1>1 DEF Todo, MoreItems, Item
<1>5. phase \in {"InstallClusterProviders", "DeleteClusterProviders"}
        => Item \in ToSet(ClusterProviders)
  BY <1>1, SlicesAssumption DEF Todo, ToSet, MoreItems, Item
<1>6. phase \in {"InstallPlatformServices", "DeletePlatformServices"}
        => Item \in ToSet(PlatformServices)
  BY <1>1, SlicesAssumption DEF Todo, ToSet, MoreItems, Item
<1>7. phase \in {"InstallServiceProviders", "DeleteServiceProviders"}
        => Item \in ToSet(ServiceProviders)
  BY <1>1, SlicesAssumption DEF Todo, ToSet, MoreItems, Item
<1>8. phase = "DeleteRequests" => Item \in Requests
  BY <1>1 DEF Todo, MoreItems, Item
<1> QED
  BY <1>2, <1>3, <1>4, <1>5, <1>6, <1>7, <1>8

\* The element of a loop over anything but extensions is an API object.
LEMMA ItemNames ==
  ASSUME TypeOK, MoreItems, phase # "InstallExtensions"
  PROVE  Item \in Names
BY Items DEF LoopPhases, InstallPhases, DeletePhases, Names, Components

\* What the setup creates are components, the operator and the platform Cluster.
LEMMA CreatesNames ==
  ASSUME TypeOK, NEW o \in Creates
  PROVE  o \in Components \cup {Operator, PlatformCluster}
BY Items DEF Creates, At, InstallPhases, Components

-----------------------------------------------------------------------------
(***************************************************************************)
(* Type correctness.                                                       *)
(***************************************************************************)
\* What the API server returns as the list of all requests is a sequence.
LEMMA ListIsSequence ==
  \A S \in SUBSET Requests : \A s \in SetToSeqs(S) : s \in Seq(Requests)
<1> SUFFICES ASSUME NEW S \in SUBSET Requests, NEW s \in SetToSeqs(S)
             PROVE  s \in Seq(Requests)
  OBVIOUS
<1>1. Cardinality(S) \in Nat
  BY EnvironmentAssumption, FS_Subset, FS_CardinalityType
<1>2. s \in [1..Cardinality(S) -> S]
  BY DEF SetToSeqs
<1> QED
  BY <1>1, <1>2

\* Before the first setup function runs the variables have their types.
LEMMA InitTypeOK == Init => TypeOK
BY PhaseNames DEF Init, TypeOK, Names, ObjectStates

\* The setup functions keep the types.
LEMMA SetupTypeOK == ASSUME TypeOK, Setup PROVE TypeOK'
<1> USE DEF ObjectStates
<1>1. /\ phase \in Phases /\ idx \in Nat \ {0} /\ pc \in Calls
      /\ obj \in [Names -> ObjectStates] /\ loaded \in SUBSET Names
  BY DEF TypeOK, Calls
<1>2. PlatformCluster \in Names
  BY DEF Names
<1>3. "DeleteServiceProviders" \in Phases
  BY PhaseNames
<1>4. CASE CreatePlatformCluster
  BY <1>1, <1>4, ControlType DEF TypeOK, CreatePlatformCluster, Calls
<1>5. CASE CreateNamespace
  BY <1>1, <1>5, ControlType DEF TypeOK, CreateNamespace, Calls, api
<1>6. CASE LoadImage
  <2>1. MoreItems /\ phase = "LoadImages" /\ NextItem
    BY <1>6 DEF LoadImage, At
  <2>2. Item \in Names
    BY <2>1, ItemNames
  <2>3. phase' \in Phases /\ idx' \in Nat \ {0} /\ pc' \in Calls
    BY <1>1, <2>1, ControlType
  <2> QED
    BY <1>1, <1>6, <2>2, <2>3 DEF TypeOK, LoadImage, Calls, api
<1>7. CASE CreateObject
  <2>1. MoreItems /\ phase \in InstallPhases
    BY <1>7 DEF CreateObject, At
  <2>2. Item \in Names
    BY <2>1, ItemNames DEF InstallPhases
  <2>3. \E c \in Calls : Await(c)
    BY <1>7 DEF CreateObject, Calls
  <2>4. phase' \in Phases /\ idx' \in Nat \ {0} /\ pc' \in Calls
    BY <1>1, <2>3, ControlType
  <2> QED
    BY <1>1, <1>7, <2>2, <2>4 DEF TypeOK, CreateObject, Calls
<1>8. CASE ImportConfigs
  <2>1. \E c \in Calls : Await(c)
    BY <1>8 DEF ImportConfigs, Calls
  <2> QED
    BY <1>1, <1>8, <2>1, ControlType DEF TypeOK, ImportConfigs, Calls, api
<1>9. CASE ObserveReady
  BY <1>1, <1>9, ControlType DEF TypeOK, ObserveReady, Calls, api
<1>10. CASE ManagePlatformCluster
  BY <1>1, <1>2, <1>10, ControlType DEF TypeOK, ManagePlatformCluster, Calls
<1>11. CASE InstallExtension
  <2>1. \E c \in Calls : Await(c)
    BY <1>11 DEF InstallExtension, Calls
  <2> QED
    BY <1>1, <1>11, <2>1, ControlType DEF TypeOK, InstallExtension, Calls, api
<1>12. CASE RegisterSchemes
  BY <1>1, <1>12, ControlType DEF TypeOK, RegisterSchemes, Calls, api
<1>13. CASE VerifyEnvironment
  BY <1>1, <1>13, ControlType DEF TypeOK, VerifyEnvironment, Calls, api
<1>14. CASE SetupFails
  <2>1. phase' \in Phases /\ idx' \in Nat \ {0} /\ pc' \in Calls
    BY <1>1, <1>3, <1>14, ControlType DEF SetupFails
  <2>2. obj' \in [Names -> ObjectStates]
    BY <1>1, <1>14 DEF SetupFails
  <2> QED
    BY <1>14, <2>1, <2>2 DEF TypeOK, SetupFails, Calls
<1> QED
  BY <1>4, <1>5, <1>6, <1>7, <1>8, <1>9, <1>10, <1>11, <1>12, <1>13, <1>14
  DEF Setup

\* Where the program goes when DeleteObject returns.
LEMMA DeleteReturnsControl ==
  DeleteReturns => NextItem \/ \E c \in Calls : Await(c)
BY DEF DeleteReturns, Calls

\* The finish functions keep the types.
LEMMA CleanupTypeOK == ASSUME TypeOK, Cleanup PROVE TypeOK'
<1> USE DEF ObjectStates
<1>1. /\ phase \in Phases /\ idx \in Nat \ {0} /\ pc \in Calls
      /\ obj \in [Names -> ObjectStates]
  BY DEF TypeOK, Calls
<1>2. CASE GetObject
  <2>1. NextItem \/ \E c \in Calls : Await(c)
    BY <1>2, DeleteReturnsControl DEF GetObject, Calls
  <2> QED
    BY <1>1, <1>2, <2>1, ControlType DEF TypeOK, GetObject, Calls, api
<1>3. CASE DeleteObject
  <2>1. NextItem \/ \E c \in Calls : Await(c)
    BY <1>3, DeleteReturnsControl DEF DeleteObject, Calls
  <2>2. obj' \in [Names -> ObjectStates]
    BY <1>1, <1>3 DEF DeleteObject
  <2>3. phase' \in Phases /\ idx' \in Nat \ {0} /\ pc' \in Calls
    BY <1>1, <2>1, ControlType
  <2> QED
    BY <1>3, <2>2, <2>3 DEF TypeOK, DeleteObject, Calls
<1>4. CASE ObserveDeleted
  <2>1. NextItem \/ \E c \in Calls : Await(c)
    BY <1>4, DeleteReturnsControl DEF ObserveDeleted
  <2> QED
    BY <1>1, <1>4, <2>1, ControlType DEF TypeOK, ObserveDeleted, Calls, api
<1>5. CASE DeleteFails
  <2>1. NextItem \/ \E c \in Calls : Await(c)
    BY <1>5, DeleteReturnsControl DEF DeleteFails
  <2>2. obj' \in [Names -> ObjectStates]
    BY <1>1, <1>5 DEF DeleteFails
  <2>3. Item \in Names
    BY <1>5, ItemNames DEF DeleteFails, DeleteMayFail, DeletePhases
  <2>4. phase' \in Phases /\ idx' \in Nat \ {0} /\ pc' \in Calls
    BY <1>1, <2>1, ControlType
  <2> QED
    BY <1>5, <2>2, <2>3, <2>4 DEF TypeOK, DeleteFails, Calls
<1>6. CASE ListRequests
  <2>1. listed' \in Seq(Requests)
    BY <1>6, ListIsSequence DEF ListRequests
  <2> QED
    BY <1>1, <1>6, <2>1, ControlType DEF TypeOK, ListRequests, Calls, api
<1>7. CASE ListFails
  BY <1>1, <1>7, ControlType DEF TypeOK, ListFails, Calls, api
<1>8. CASE DestroyPlatformCluster
  BY <1>1, <1>8, ControlType DEF TypeOK, DestroyPlatformCluster, Calls
<1>9. CASE DestroyFails
  BY <1>1, <1>9, ControlType DEF TypeOK, DestroyFails, Calls, api
<1> QED
  BY <1>2, <1>3, <1>4, <1>5, <1>6, <1>7, <1>8, <1>9 DEF Cleanup

\* The controllers keep the types.
LEMMA EnvironmentTypeOK == ASSUME TypeOK, Environment PROVE TypeOK'
<1> USE DEF ObjectStates
<1>1. /\ obj \in [Names -> ObjectStates] /\ created \in SUBSET Requests
      /\ UNCHANGED <<platform, loaded, control, listed, reported>>
  BY DEF TypeOK, Environment, BecomeReady, LoseReady, Finalize, CreateRequest,
         GrantRequest, ReleaseCluster, TestDeletesRequest
<1>2. obj' \in [Names -> ObjectStates] /\ created' \in SUBSET Requests
  <2>1. \A r \in Requests : ClusterOf[r] \in Names
    BY EnvironmentAssumption DEF Names
  <2> QED
    BY <1>1, <2>1 DEF Environment, BecomeReady, LoseReady, Finalize, CreateRequest,
         GrantRequest, ReleaseCluster, TestDeletesRequest
<1> QED
  BY <1>1, <1>2 DEF TypeOK, control

\* Every step keeps the types.
LEMMA NextTypeOK == TypeOK /\ [Next]_vars => TypeOK'
<1> SUFFICES ASSUME TypeOK, [Next]_vars PROVE TypeOK'
  OBVIOUS
<1>1. CASE LoopEnds \/ TestsEnd
  BY <1>1, ControlType DEF TypeOK, LoopEnds, TestsEnd, Calls, api
<1>2. CASE UNCHANGED vars
  BY <1>2 DEF TypeOK, vars, api, control
<1> QED
  BY <1>1, <1>2, SetupTypeOK, CleanupTypeOK, EnvironmentTypeOK
  DEF Next, Program, Terminated

\* Every variable keeps its type, whatever the setup and the faults are.
THEOREM TypeCorrect == Spec => []TypeOK
BY InitTypeOK, NextTypeOK, PTL DEF Spec

-----------------------------------------------------------------------------
(***************************************************************************)
(* Cluster providers outlive the cluster requests.                         *)
(***************************************************************************)
\* Advance goes to the function that is registered next.
LEMMA AdvanceRank ==
  ASSUME TypeOK, Advance
  PROVE  phase' \in Phases /\ Rank[phase'] = Rank[phase] + 1 /\ idx' = 1 /\ pc' = "call"
BY DEF Advance, Goto, TypeOK

\* The names the setup works on are no requests.
LEMMA SetupNames ==
  /\ Disjoint(Components \cup {Operator, PlatformCluster}, Requests)
  /\ \A r \in Requests : ClusterOf[r] \in Clusters /\ ClusterOf[r] \notin Requests
BY NamesAssumption, EnvironmentAssumption DEF Disjoint

\* Only the operator creates requests, and only its left-over ones twice.
LEMMA RequestStep ==
  ASSUME TypeOK, [Next]_vars, NEW r \in Requests
  PROVE  /\ created \subseteq created' /\ reported \subseteq reported'
         /\ Exists(r)' => Exists(r) \/ (r \in created' /\ (r \in created => r \in Owned))
<1>1. obj \in [Names -> ObjectStates] /\ r \in Names
  BY DEF TypeOK, Names
<1>2. CASE Setup
  <2>1. CASE CreateObject
    <3>1. Item # r
      BY <2>1, Items, SetupNames DEF CreateObject, At, InstallPhases, Components, Disjoint
    <3> QED
      BY <1>1, <2>1, <3>1 DEF CreateObject, Exists
  <2>2. CASE SetupFails
    <3>1. \A o \in Creates : o # r
      BY CreatesNames, SetupNames DEF Disjoint
    <3> QED
      BY <1>1, <2>2, <3>1 DEF SetupFails, Exists
  <2>3. CASE ManagePlatformCluster
    <3>1. PlatformCluster # r
      BY SetupNames DEF Disjoint
    <3> QED
      BY <1>1, <2>3, <3>1 DEF ManagePlatformCluster, Exists
  <2> QED
    BY <1>2, <2>1, <2>2, <2>3 DEF Setup, Exists, api,
       CreatePlatformCluster, CreateNamespace, LoadImage, ImportConfigs, ObserveReady,
       InstallExtension, RegisterSchemes, VerifyEnvironment
<1>3. CASE Cleanup
  BY <1>1, <1>3 DEF Cleanup, Exists, api, GetObject, DeleteObject, ObserveDeleted,
     DeleteFails, ListRequests, ListFails, DestroyPlatformCluster, DestroyFails
<1>4. CASE Environment
  <2>1. CASE \E o \in Names : BecomeReady(o) \/ LoseReady(o) \/ Finalize(o)
    BY <1>1, <2>1 DEF BecomeReady, LoseReady, Finalize, Exists
  <2>2. CASE \E q \in Requests : CreateRequest(q)
    BY <1>1, <2>2 DEF CreateRequest, Exists
  <2>3. CASE \E q \in Requests : GrantRequest(q)
    BY <1>1, <2>3, SetupNames DEF GrantRequest, Exists
  <2>4. CASE \E q \in Requests : TestDeletesRequest(q)
    BY <1>1, <2>4 DEF TestDeletesRequest, Exists
  <2>5. CASE \E c \in Clusters : ReleaseCluster(c)
    BY <1>1, <2>5 DEF ReleaseCluster, Exists
  <2> QED
    BY <1>4, <2>1, <2>2, <2>3, <2>4, <2>5 DEF Environment
<1>5. CASE LoopEnds \/ TestsEnd \/ UNCHANGED vars
  BY <1>5 DEF LoopEnds, TestsEnd, vars, api, Exists
<1> QED
  BY <1>2, <1>3, <1>4, <1>5 DEF Next, Program, Terminated

\* A request that is settled stays settled: no controller brings it back.
LEMMA SettledStays ==
  ASSUME TypeOK, [Next]_vars, NEW r \in Requests, Settled(r)
  PROVE  Settled(r)'
BY RequestStep DEF Settled

\* Steps that leave the program counter and the list alone keep the invariant.
LEMMA RequestsInvOtherSteps ==
  ASSUME TypeOK, RequestsInv, [Next]_vars, listed' = listed,
         \/ UNCHANGED control
         \/ phase' \in Phases /\ phase # "DeleteRequests" /\ phase' # "DeleteRequests"
            /\ (Rank[phase'] > Rank["DeleteRequests"] => Rank[phase] > Rank["DeleteRequests"])
            /\ (Rank[phase'] <= Rank["ListRequests"] => Rank[phase] <= Rank["ListRequests"])
  PROVE  RequestsInv'
<1>1. \A r \in Requests : Exists(r)' => r \in created'
  BY RequestStep DEF RequestsInv
<1>2. \A i \in 1..Len(listed) : listed[i] \in Requests
  BY DEF TypeOK
<1>3. \A i \in 1..Len(listed) : listed[i] \in created'
  BY <1>2, RequestStep DEF RequestsInv
<1>4. \A i \in 1..Len(listed) : Settled(listed[i]) => Settled(listed[i])'
  BY <1>2, SettledStays DEF Settled
<1> QED
  BY <1>1, <1>3, <1>4, Ranks DEF RequestsInv, control

\* RequestsInv is preserved by every step of program and controllers.
LEMMA RequestsInvStep == TypeOK /\ RequestsInv /\ [Next]_vars => RequestsInv'
<1> SUFFICES ASSUME TypeOK, RequestsInv, [Next]_vars PROVE RequestsInv'
  OBVIOUS
<1> USE Ranks, RankRange
<1>1. \A r \in Requests : Exists(r)' => r \in created'
  BY RequestStep DEF RequestsInv
<1>2. \A i \in 1..Len(listed) : listed[i] \in Requests
  BY DEF TypeOK
<1>3. phase \in Phases /\ idx \in Nat \ {0} /\ phase' \in Phases
  BY NextTypeOK DEF TypeOK
<1>4. CASE Setup \/ TestsEnd
  <2>1. listed' = listed
    BY <1>4 DEF Setup, TestsEnd, CreatePlatformCluster, CreateNamespace, LoadImage,
       CreateObject, ImportConfigs, ObserveReady, ManagePlatformCluster,
       InstallExtension, RegisterSchemes, VerifyEnvironment, SetupFails
  <2>2. Rank[phase] < Rank["DeletePlatformServices"]
    BY <1>4, <1>3 DEF Setup, TestsEnd, CreatePlatformCluster, CreateNamespace, LoadImage,
       CreateObject, ImportConfigs, ObserveReady, ManagePlatformCluster,
       InstallExtension, RegisterSchemes, VerifyEnvironment, SetupFails, At,
       InstallPhases, InSetup
  <2>3. \/ Rank[phase'] = Rank[phase] + 1 \/ phase' = phase
        \/ phase' = "DeleteServiceProviders"
    BY <1>4, <1>3 DEF Setup, TestsEnd, CreatePlatformCluster, CreateNamespace, LoadImage,
       CreateObject, ImportConfigs, ObserveReady, ManagePlatformCluster,
       InstallExtension, RegisterSchemes, VerifyEnvironment, SetupFails,
       Advance, NextItem, Await, Goto
  <2>4. Rank[phase'] <= Rank["DeletePlatformServices"]
    BY <1>3, <2>2, <2>3
  <2> QED
    BY <1>3, <2>1, <2>2, <2>4, RequestsInvOtherSteps
<1>5. CASE LoopEnds
  <2>1. listed' = listed /\ Rank[phase'] = Rank[phase] + 1
    BY <1>5, AdvanceRank DEF LoopEnds
  <2>2. CASE phase = "DeleteRequests"
    <3>1. idx > Len(listed)
      BY <1>3, <1>5, <2>2 DEF LoopEnds, MoreItems, Todo, TypeOK
    <3>2. \A i \in 1..Len(listed) : Settled(listed[i])
      BY <1>3, <2>2, <3>1 DEF RequestsInv, TypeOK
    <3>3. \A i \in 1..Len(listed) : Settled(listed[i])'
      BY <1>2, <2>1, <3>2, SettledStays DEF Settled
    <3>4. \A i \in 1..Len(listed) : listed[i] \in created'
      BY <1>2, RequestStep DEF RequestsInv
    <3> QED
      BY <1>1, <1>3, <2>1, <2>2, <3>3, <3>4 DEF RequestsInv
  <2>3. CASE phase # "DeleteRequests"
    <3>1. phase' # "DeleteRequests"
      <4>1. phase # "ListRequests"
        BY <1>5 DEF LoopEnds, LoopPhases, InstallPhases, DeletePhases
      <4>2. Rank[phase] # Rank["ListRequests"]
        BY <1>3, <4>1, RankInjective, PhaseNames
      <4> QED
        BY <2>1, <4>2, <1>3
    <3>2. Rank[phase] # Rank["DeleteRequests"] /\ Rank[phase] # Rank["ListRequests"]
      BY <1>3, <2>3, <1>5, RankInjective, PhaseNames
         DEF LoopEnds, LoopPhases, InstallPhases, DeletePhases
    <3> QED
      BY <1>3, <2>1, <2>3, <3>1, <3>2, RequestsInvOtherSteps
  <2> QED
    BY <2>2, <2>3
<1>6. CASE GetObject \/ DeleteObject \/ ObserveDeleted \/ DeleteFails
  <2>1. /\ phase \in DeletePhases /\ MoreItems
        /\ listed' = listed /\ phase' = phase
    BY <1>6 DEF GetObject, DeleteObject, ObserveDeleted, DeleteFails, DeleteMayFail, At,
       DeleteReturns, NextItem, Await
  <2>2. CASE phase # "DeleteRequests"
    BY <1>3, <2>1, <2>2, RequestsInvOtherSteps DEF DeletePhases
  <2>3. CASE phase = "DeleteRequests"
    <3>1. idx \in 1..Len(listed) /\ Item = listed[idx] /\ Item \in Requests /\ Item \in created
      BY <1>2, <1>3, <2>1, <2>3 DEF MoreItems, Item, Todo, RequestsInv, TypeOK
    <3>2. \/ idx' = idx
          \/ idx' = idx + 1 /\ \A r \in Requests : r = listed[idx] => Settled(r)'
      <4>1. CASE GetObject \/ DeleteObject
        BY <4>1, <2>3 DEF GetObject, DeleteObject, DeleteReturns, Await
      <4>2. CASE ObserveDeleted
        BY <4>2, <2>3, <3>1 DEF ObserveDeleted, DeleteReturns, Await, NextItem, Settled,
           Exists, api
      <4>3. CASE DeleteFails
        BY <4>3, <2>3, <3>1 DEF DeleteFails, DeleteReturns, Await, NextItem, Settled
      <4> QED
        BY <1>6, <4>1, <4>2, <4>3
    <3>3. \A i \in 1..Len(listed) : Settled(listed[i]) => Settled(listed[i])'
      BY <1>2, <2>1, SettledStays DEF Settled
    <3>4. \A i \in 1..Len(listed) : listed[i] \in created'
      BY <1>2, RequestStep DEF RequestsInv
    <3>5. \A i \in 1..Len(listed) : i < idx' => Settled(listed[i])'
      <4> SUFFICES ASSUME NEW i \in 1..Len(listed), i < idx' PROVE Settled(listed[i])'
        OBVIOUS
      <4>1. CASE i < idx
        BY <4>1, <2>3, <3>3 DEF RequestsInv
      <4>2. CASE i = idx
        BY <4>2, <2>1, <3>1, <3>2, <1>3 DEF Settled
      <4> QED
        BY <3>2, <4>1, <4>2, <1>3
    <3> QED
      BY <1>1, <2>1, <2>3, <3>4, <3>5 DEF RequestsInv, Settled, Exists
  <2> QED
    BY <2>2, <2>3
<1>7. CASE ListRequests \/ ListFails
  <2>1. phase = "ListRequests" /\ Rank[phase'] = Rank[phase] + 1 /\ idx' = 1
    BY <1>7, AdvanceRank DEF ListRequests, ListFails
  <2>2. \A i \in 1..Len(listed') : listed'[i] \in created'
    <3>1. CASE ListFails
      BY <1>3, <2>1, <3>1, RequestStep DEF ListFails, RequestsInv
    <3>2. CASE ListRequests
      <4> DEFINE S == {r \in Requests : Exists(r)}
      <4>1. Cardinality(S) \in Nat
        BY EnvironmentAssumption, FS_Subset, FS_CardinalityType
      <4>2. listed' \in [1..Cardinality(S) -> S]
        BY <3>2 DEF ListRequests, SetToSeqs
      <4>3. \A i \in 1..Len(listed') : listed'[i] \in S
        BY <4>1, <4>2
      <4> QED
        BY <3>2, <4>3 DEF ListRequests, RequestsInv, api
    <3> QED
      BY <1>7, <3>1, <3>2
  <2>3. listed' \in Seq(Requests)
    BY NextTypeOK DEF TypeOK
  <2> QED
    BY <1>1, <2>1, <2>2, <2>3 DEF RequestsInv
<1>8. CASE DestroyPlatformCluster \/ DestroyFails
  <2>1. phase = "DestroyCluster" /\ listed' = listed /\ Rank[phase'] = Rank[phase] + 1
    BY <1>8, AdvanceRank DEF DestroyPlatformCluster, DestroyFails
  <2> QED
    BY <1>3, <2>1, RequestsInvOtherSteps
<1>9. CASE Environment \/ UNCHANGED vars
  <2>1. listed' = listed /\ UNCHANGED control
    BY <1>9 DEF Environment, BecomeReady, LoseReady, Finalize, CreateRequest,
         GrantRequest, ReleaseCluster, TestDeletesRequest, vars
  <2> QED
    BY <2>1, RequestsInvOtherSteps
<1> QED
  BY <1>4, <1>5, <1>6, <1>7, <1>8, <1>9 DEF Next, Program, Cleanup, Terminated

\* Cleanup deletes the cluster providers only when every request it found is
\* gone for good or reported (bootstrap.go:117-131).
THEOREM ProvidersOutlive == Spec => []ProvidersOutliveRequests
<1>1. Init => RequestsInv
  BY Ranks DEF Init, RequestsInv, Exists, Names
<1>2. TypeOK /\ RequestsInv => ProvidersOutliveRequests
  <2> SUFFICES ASSUME TypeOK, RequestsInv, Rank[phase] >= Rank["DeleteClusterProviders"],
                      NEW i \in 1..Len(listed)
               PROVE  listed[i] \in Owned \/ ~Exists(listed[i]) \/ listed[i] \in reported
    BY DEF ProvidersOutliveRequests
  <2>0. Rank[phase] \in Nat
    BY RankRange DEF TypeOK
  <2>1. Rank[phase] > Rank["DeleteRequests"]
    BY <2>0, Ranks
  <2> QED
    BY <2>1 DEF RequestsInv, Settled
<1> QED
  BY <1>1, <1>2, TypeCorrect, RequestsInvStep, PTL DEF Spec

-----------------------------------------------------------------------------
(***************************************************************************)
(* The tests see a ready environment, and setup works bottom up.           *)
(***************************************************************************)
\* What a step can do to the program counter: nothing, go on to the next
\* element, go on to the next function when the loop is at its end, or give up
\* the setup.
LEMMA ControlStep ==
  ASSUME TypeOK, [Next]_vars
  PROVE  \/ phase' = phase /\ idx' = idx
         \/ /\ phase' = phase /\ idx' = idx + 1 /\ MoreItems
            /\ ObserveReady \/ LoadImage \/ RegisterSchemes \/ phase \in DeletePhases
         \/ /\ Rank[phase'] = Rank[phase] + 1 /\ idx' = 1
            /\ phase \in LoopPhases => ~MoreItems
         \/ InSetup /\ phase' = "DeleteServiceProviders" /\ idx' = 1 /\ SetupFails
<1> USE DEF Await, NextItem, LoopPhases, InstallPhases, DeletePhases
<1>1. CASE ObserveReady
  BY <1>1 DEF ObserveReady, At
<1>2. CASE CreateObject \/ ImportConfigs \/ InstallExtension
  BY <1>2 DEF CreateObject, ImportConfigs, InstallExtension
<1>3. CASE LoadImage \/ RegisterSchemes
  BY <1>3 DEF LoadImage, RegisterSchemes, At
<1>4. CASE CreatePlatformCluster \/ CreateNamespace \/ ManagePlatformCluster
             \/ VerifyEnvironment \/ TestsEnd \/ ListRequests \/ ListFails
             \/ DestroyPlatformCluster \/ DestroyFails
  BY <1>4, AdvanceRank DEF CreatePlatformCluster, CreateNamespace,
     ManagePlatformCluster, VerifyEnvironment, TestsEnd, ListRequests, ListFails,
     DestroyPlatformCluster, DestroyFails
<1>5. CASE SetupFails
  BY <1>5 DEF SetupFails, Goto
<1>6. CASE LoopEnds
  BY <1>6, AdvanceRank DEF LoopEnds
<1>7. CASE GetObject \/ DeleteObject \/ ObserveDeleted \/ DeleteFails
  BY <1>7 DEF GetObject, DeleteObject, ObserveDeleted, DeleteFails, DeleteMayFail, At,
     DeleteReturns
<1>8. CASE Environment \/ UNCHANGED vars
  BY <1>8 DEF Environment, BecomeReady, LoseReady, Finalize, CreateRequest,
     GrantRequest, ReleaseCluster, TestDeletesRequest, vars, control
<1> QED
  BY <1>1, <1>2, <1>3, <1>4, <1>5, <1>6, <1>7, <1>8
  DEF Next, Program, Setup, Cleanup, Terminated

\* A failing call takes the setup to the cleanup.
LEMMA SetupFailsLeaves == SetupFails => phase' = "DeleteServiceProviders"
BY DEF SetupFails, Goto

\* A step that stays before the cleanup begins before it, and does not fail.
LEMMA StaysInSetup ==
  ASSUME TypeOK, [Next]_vars, Rank[phase'] <= Rank["Test"]
  PROVE  /\ ~SetupFails /\ Rank[phase] <= Rank["Test"]
         /\ Rank[phase'] = Rank[phase] \/ Rank[phase'] = Rank[phase] + 1
<1>1. Rank[phase] \in Nat /\ Rank[phase'] \in Nat
  BY NextTypeOK, RankRange DEF TypeOK
<1>2. ~SetupFails /\ phase' # "DeleteServiceProviders"
  BY SetupFailsLeaves, Ranks
<1>3. Rank[phase'] = Rank[phase] \/ Rank[phase'] = Rank[phase] + 1
  BY <1>2, ControlStep
<1> QED
  BY <1>1, <1>2, <1>3, Ranks

\* A loop never goes back.
LEMMA PastStays ==
  ASSUME TypeOK, [Next]_vars, NEW p \in Phases, NEW s, NEW i \in 1..Len(s), Past(p, s, i)
  PROVE  Rank[phase'] > Rank[p] \/ (phase' = p /\ i < idx')
<1>0. phase \in Phases /\ idx \in Nat /\ phase' \in Phases /\ idx' \in Nat
  BY NextTypeOK DEF TypeOK
<1>1. Rank[p] \in Nat /\ Rank[phase] \in Nat /\ Rank[phase'] \in Nat
  BY <1>0, RankRange
<1>2. InSetup => Rank[phase] < Rank["DeleteServiceProviders"]
  BY <1>1, Ranks DEF InSetup
<1>3. Rank[phase'] > Rank[phase] \/ (phase' = phase /\ idx' >= idx)
  BY <1>0, <1>1, <1>2, ControlStep
<1> QED
  BY <1>0, <1>1, <1>3 DEF Past

\* The only step that takes the loop of p past an element is one for it.
LEMMA GetsPast ==
  ASSUME TypeOK, [Next]_vars, NEW p \in LoopPhases, NEW s, NEW i \in 1..Len(s), Len(s) \in Nat,
         phase = p => Todo = s,
         ~Past(p, s, i), Rank[phase'] > Rank[p] \/ (phase' = p /\ i < idx'), ~SetupFails
  PROVE  /\ phase = p /\ i = idx /\ phase' = phase /\ idx' = idx + 1 /\ MoreItems
         /\ p \in InstallPhases => ObserveReady
         /\ p = "LoadImages" => LoadImage
<1>0. phase \in Phases /\ idx \in Nat \ {0} /\ phase' \in Phases /\ p \in Phases
  BY NextTypeOK, PhaseNames DEF TypeOK, LoopPhases, InstallPhases, DeletePhases
<1>1. /\ phase \in Phases /\ idx \in Nat \ {0} /\ phase' \in Phases /\ p \in Phases
      /\ Rank[p] \in Nat /\ Rank[phase] \in Nat /\ Rank[phase'] \in Nat
  BY <1>0, RankRange
<1>2. ~(phase' = phase /\ idx' = idx)
  BY <1>1 DEF Past
<1>3. ASSUME Rank[phase'] = Rank[phase] + 1, idx' = 1, phase \in LoopPhases => ~MoreItems
      PROVE  FALSE
  <2>1. Rank[phase] = Rank[p]
    BY <1>1, <1>3 DEF Past
  <2>2. phase = p /\ Todo = s
    BY <1>1, <2>1, RankInjective
  <2>3. idx > Len(s)
    BY <1>1, <1>3, <2>2 DEF MoreItems, LoopPhases
  <2> QED
    BY <1>1, <2>2, <2>3 DEF Past
<1>4. /\ phase' = phase /\ idx' = idx + 1 /\ MoreItems
      /\ ObserveReady \/ LoadImage \/ RegisterSchemes \/ phase \in DeletePhases
  BY <1>2, <1>3, ControlStep
<1>5. phase = p /\ i = idx
  BY <1>1, <1>4 DEF Past
<1>6. /\ p \in InstallPhases => ObserveReady
      /\ p = "LoadImages" => LoadImage
  BY <1>4, <1>5 DEF InstallPhases, DeletePhases, ObserveReady, LoadImage, RegisterSchemes, At
<1> QED
  BY <1>4, <1>5, <1>6

\* Until cleanup, what is ready stays ready and nothing is deleted.
LEMMA ReadyStays ==
  ASSUME TypeOK, [Next]_vars, StableObjects, Rank[phase] <= Rank["Test"],
         NEW x \in Components \cup {Operator, PlatformCluster}
  PROVE  /\ obj[x] = "ready" => obj'[x] = "ready"
         /\ obj[x] \in {"present", "ready"} => obj'[x] \in {"present", "ready"}
<1>1. /\ obj \in [Names -> ObjectStates] /\ x \in Names
      /\ phase \in Phases /\ Rank[phase] \in Nat
  BY RankRange DEF TypeOK, Names
<1>2. x \notin Requests /\ x \notin Clusters
  BY NamesAssumption DEF Disjoint
<1>3. CASE Setup
  BY <1>1, <1>3 DEF Setup, CreatePlatformCluster, CreateNamespace, LoadImage,
     CreateObject, ImportConfigs, ObserveReady, ManagePlatformCluster,
     InstallExtension, RegisterSchemes, VerifyEnvironment, SetupFails, api, Exists
<1>4. CASE LoopEnds \/ TestsEnd \/ UNCHANGED vars
  BY <1>4 DEF LoopEnds, TestsEnd, vars, api
<1>5. CASE Cleanup
  <2>1. phase \in DeletePhases \cup {"ListRequests", "DestroyCluster"}
    BY <1>5 DEF Cleanup, GetObject, DeleteObject, ObserveDeleted, DeleteFails,
       DeleteMayFail, At, ListRequests, ListFails, DestroyPlatformCluster, DestroyFails
  <2> QED
    BY <2>1, Ranks DEF DeletePhases
<1>6. CASE Environment
  <2>1. CASE \E o \in Names : BecomeReady(o) \/ LoseReady(o) \/ Finalize(o)
    BY <1>1, <2>1 DEF BecomeReady, LoseReady, Finalize, StableObjects
  <2>2. CASE \E r \in Requests : CreateRequest(r) \/ TestDeletesRequest(r)
    BY <1>1, <1>2, <2>2 DEF CreateRequest, TestDeletesRequest
  <2>3. CASE \E r \in Requests : GrantRequest(r)
    BY <1>1, <1>2, <2>3, SetupNames DEF GrantRequest
  <2>4. CASE \E c \in Clusters : ReleaseCluster(c)
    BY <1>1, <1>2, <2>4 DEF ReleaseCluster
  <2> QED
    BY <1>6, <2>1, <2>2, <2>3, <2>4 DEF Environment
<1> QED
  BY <1>3, <1>4, <1>5, <1>6 DEF Next, Program, Terminated

\* One loop of the setup: what it is past stays ready, and what it gets past
\* has just been seen ready.
LEMMA LoopReady ==
  ASSUME TypeOK, [Next]_vars, StableObjects, Rank[phase'] <= Rank["Test"],
         NEW p \in InstallPhases, NEW s \in Seq(Components \cup {Operator}),
         phase = p => Todo = s, NEW i \in 1..Len(s),
         Past(p, s, i) => obj[s[i]] = "ready",
         Rank[phase'] > Rank[p] \/ (phase' = p /\ i < idx')
  PROVE  obj'[s[i]] = "ready"
<1>1. phase \in Phases /\ phase' \in Phases
  BY NextTypeOK DEF TypeOK
<1>2. Rank[phase] \in Nat /\ Rank[phase'] \in Nat
  BY <1>1, RankRange
<1>3. ~SetupFails /\ Rank[phase] <= Rank["Test"]
  BY StaysInSetup
<1>4. CASE Past(p, s, i)
  BY <1>3, <1>4, ReadyStays
<1>5. CASE ~Past(p, s, i)
  <2>1. ObserveReady /\ phase = p /\ i = idx
    BY <1>3, <1>5, GetsPast DEF LoopPhases
  <2>2. Item = s[i]
    BY <2>1 DEF Item
  <2> QED
    BY <2>1, <2>2 DEF ObserveReady, api
<1> QED
  BY <1>4, <1>5

\* The managed platform cluster is there once the setup created it, and ready
\* once the setup verified it.
LEMMA PlatformClusterReady ==
  ASSUME TypeOK, ReadyInv, [Next]_vars, StableObjects, Rank[phase'] <= Rank["Test"],
         ManagesPlatformCluster
  PROVE  /\ Rank[phase'] > Rank["ManagePlatformCluster"]
              => obj'[PlatformCluster] \in {"present", "ready"}
         /\ Rank[phase'] > Rank["VerifyEnvironment"] => obj'[PlatformCluster] = "ready"
<1>1. phase \in Phases /\ phase' \in Phases /\ PlatformCluster \in Names
      /\ obj \in [Names -> ObjectStates]
  BY NextTypeOK DEF TypeOK, Names
<1>2. Rank[phase] \in Nat /\ Rank[phase'] \in Nat
  BY <1>1, RankRange
<1>3. /\ ~SetupFails /\ Rank[phase] <= Rank["Test"]
      /\ Rank[phase'] = Rank[phase] \/ Rank[phase'] = Rank[phase] + 1
  BY StaysInSetup
<1>4. /\ Rank[phase] > Rank["ManagePlatformCluster"]
           => obj[PlatformCluster] \in {"present", "ready"}
      /\ Rank[phase] > Rank["VerifyEnvironment"] => obj[PlatformCluster] = "ready"
  BY <1>3 DEF ReadyInv
<1>5. /\ obj[PlatformCluster] = "ready" => obj'[PlatformCluster] = "ready"
      /\ obj[PlatformCluster] \in {"present", "ready"}
           => obj'[PlatformCluster] \in {"present", "ready"}
  BY <1>3, ReadyStays
<1>6. Rank[phase'] > Rank["ManagePlatformCluster"]
        => obj'[PlatformCluster] \in {"present", "ready"}
  <2> HAVE Rank[phase'] > Rank["ManagePlatformCluster"]
  <2>1. CASE Rank[phase] > Rank["ManagePlatformCluster"]
    BY <2>1, <1>4, <1>5
  <2>2. CASE Rank[phase] = Rank["ManagePlatformCluster"]
    <3>1. phase = "ManagePlatformCluster" /\ phase' # phase
      BY <1>1, <1>2, <2>2, RankInjective, PhaseNames
    <3>2. ManagePlatformCluster
      BY <1>3, <3>1, Ranks
      DEF Next, Program, Setup, Cleanup, Environment, Terminated, vars, control,
        CreatePlatformCluster, CreateNamespace, LoadImage, CreateObject, ImportConfigs,
        ObserveReady, InstallExtension, RegisterSchemes, VerifyEnvironment, LoopEnds,
        TestsEnd, GetObject, DeleteObject, ObserveDeleted, DeleteFails, DeleteMayFail,
        ListRequests, ListFails, DestroyPlatformCluster, DestroyFails, BecomeReady,
        LoseReady, Finalize, CreateRequest, GrantRequest, ReleaseCluster,
        TestDeletesRequest, At, LoopPhases, InstallPhases, DeletePhases
    <3> QED
      BY <1>1, <3>2 DEF ManagePlatformCluster
  <2> QED
    BY <1>2, <1>3, <2>1, <2>2, Ranks
<1>7. Rank[phase'] > Rank["VerifyEnvironment"] => obj'[PlatformCluster] = "ready"
  <2> HAVE Rank[phase'] > Rank["VerifyEnvironment"]
  <2>1. CASE Rank[phase] > Rank["VerifyEnvironment"]
    BY <2>1, <1>4, <1>5
  <2>2. CASE Rank[phase] = Rank["VerifyEnvironment"]
    <3>1. phase = "VerifyEnvironment" /\ phase' # phase
      BY <1>1, <1>2, <2>2, RankInjective, PhaseNames
    <3>2. VerifyEnvironment
      BY <1>3, <3>1, Ranks
      DEF Next, Program, Setup, Cleanup, Environment, Terminated, vars, control,
        CreatePlatformCluster, CreateNamespace, LoadImage, CreateObject, ImportConfigs,
        ObserveReady, ManagePlatformCluster, InstallExtension, RegisterSchemes, LoopEnds,
        TestsEnd, GetObject, DeleteObject, ObserveDeleted, DeleteFails, DeleteMayFail,
        ListRequests, ListFails, DestroyPlatformCluster, DestroyFails, BecomeReady,
        LoseReady, Finalize, CreateRequest, GrantRequest, ReleaseCluster,
        TestDeletesRequest, At, LoopPhases, InstallPhases, DeletePhases
    <3>3. obj[PlatformCluster] # "absent"
      BY <1>4, <3>1, Ranks
    <3> QED
      BY <3>2, <3>3 DEF VerifyEnvironment, Exists, api
  <2> QED
    BY <1>2, <1>3, <2>1, <2>2, Ranks
<1> QED
  BY <1>6, <1>7

\* ReadyInv is preserved by every step of program and controllers.
LEMMA ReadyInvStep == TypeOK /\ ReadyInv /\ [Next]_vars => ReadyInv'
<1> SUFFICES ASSUME TypeOK, ReadyInv, [Next]_vars, StableObjects', Rank[phase'] <= Rank["Test"]
             PROVE  ReadyInv'
  BY DEF ReadyInv
<1> USE DEF InstallPhases
<1>1. StableObjects
  BY DEF StableObjects
<1>2. phase \in Phases /\ phase' \in Phases
  BY NextTypeOK DEF TypeOK
<1>3. Rank[phase] <= Rank["Test"]
  <2>1. Rank[phase] \in Nat /\ Rank[phase'] \in Nat
    BY <1>2, RankRange
  <2> QED
    BY <2>1, ControlStep, Ranks DEF InSetup
<1>4. Past("InstallOperator", <<Operator>>, 1)' => obj'[Operator] = "ready"
  <2> DEFINE s == <<Operator>>
  <2>1. s \in Seq(Components \cup {Operator}) /\ 1 \in 1..Len(s) /\ s[1] = Operator
    OBVIOUS
  <2>2. Past("InstallOperator", s, 1) => obj[s[1]] = "ready"
    BY <1>1, <1>3, <2>1 DEF ReadyInv
  <2>3. phase = "InstallOperator" => Todo = s
    BY DEF Todo
  <2> QED
    BY <1>1, <2>1, <2>2, <2>3, LoopReady DEF Past
<1>5. \A i \in 1..Len(ClusterProviders) :
        Past("InstallClusterProviders", ClusterProviders, i)'
          => obj'[ClusterProviders[i]] = "ready"
  <2>1. ClusterProviders \in Seq(Components \cup {Operator})
    BY SlicesAssumption
  <2>2. phase = "InstallClusterProviders" => Todo = ClusterProviders
    BY DEF Todo
  <2> QED
    BY <1>1, <1>3, <2>1, <2>2, LoopReady DEF Past, ReadyInv
<1>6. \A i \in 1..Len(PlatformServices) :
        Past("InstallPlatformServices", PlatformServices, i)'
          => obj'[PlatformServices[i]] = "ready"
  <2>1. PlatformServices \in Seq(Components \cup {Operator})
    BY SlicesAssumption
  <2>2. phase = "InstallPlatformServices" => Todo = PlatformServices
    BY DEF Todo
  <2> QED
    BY <1>1, <1>3, <2>1, <2>2, LoopReady DEF Past, ReadyInv
<1>7. \A i \in 1..Len(ServiceProviders) :
        Past("InstallServiceProviders", ServiceProviders, i)'
          => obj'[ServiceProviders[i]] = "ready"
  <2>1. ServiceProviders \in Seq(Components \cup {Operator})
    BY SlicesAssumption
  <2>2. phase = "InstallServiceProviders" => Todo = ServiceProviders
    BY DEF Todo
  <2> QED
    BY <1>1, <1>3, <2>1, <2>2, LoopReady DEF Past, ReadyInv
<1>8. ManagesPlatformCluster =>
        /\ Rank[phase'] > Rank["ManagePlatformCluster"]
             => obj'[PlatformCluster] \in {"present", "ready"}
        /\ Rank[phase'] > Rank["VerifyEnvironment"] => obj'[PlatformCluster] = "ready"
  BY <1>1, PlatformClusterReady
<1> QED
  BY <1>4, <1>5, <1>6, <1>7, <1>8 DEF ReadyInv, ManagesPlatformCluster

\* Nothing is ready yet, and nothing has been waited for.
LEMMA InitReadyInv == Init => ReadyInv
BY Ranks DEF Init, ReadyInv, Past

\* When the function that installs a kind of component is over, all of them
\* are ready.
LEMMA AllReady ==
  ASSUME TypeOK, ReadyInv, StableObjects, Rank[phase] <= Rank["Test"]
  PROVE  /\ Rank[phase] > Rank["InstallOperator"] => obj[Operator] = "ready"
         /\ Rank[phase] > Rank["InstallClusterProviders"]
              => \A x \in ToSet(ClusterProviders) : obj[x] = "ready"
         /\ Rank[phase] > Rank["InstallPlatformServices"]
              => \A x \in ToSet(PlatformServices) : obj[x] = "ready"
         /\ Rank[phase] > Rank["InstallServiceProviders"]
              => \A x \in ToSet(ServiceProviders) : obj[x] = "ready"
<1>1. Rank[phase] > Rank["InstallOperator"] => obj[Operator] = "ready"
  BY DEF ReadyInv, Past
<1>2. ASSUME NEW s \in Seq(Components), NEW x \in ToSet(s)
      PROVE  \E i \in 1..Len(s) : x = s[i]
  BY DEF ToSet
<1>3. Rank[phase] > Rank["InstallClusterProviders"]
        => \A x \in ToSet(ClusterProviders) : obj[x] = "ready"
  BY <1>2, SlicesAssumption DEF ReadyInv, Past
<1>4. Rank[phase] > Rank["InstallPlatformServices"]
        => \A x \in ToSet(PlatformServices) : obj[x] = "ready"
  BY <1>2, SlicesAssumption DEF ReadyInv, Past
<1>5. Rank[phase] > Rank["InstallServiceProviders"]
        => \A x \in ToSet(ServiceProviders) : obj[x] = "ready"
  BY <1>2, SlicesAssumption DEF ReadyInv, Past
<1> QED
  BY <1>1, <1>3, <1>4, <1>5

\* The tests run in a complete environment: no setup function skips a
\* component, forgets to wait for it or swallows an error (bootstrap.go:71-80).
THEOREM TestsReady == Spec => []TestsSeeReadyEnvironment
<1>1. TypeOK /\ ReadyInv => TestsSeeReadyEnvironment
  <2> SUFFICES ASSUME TypeOK, ReadyInv, StableObjects, phase = "Test"
               PROVE  /\ \A x \in Components \cup {Operator} : obj[x] = "ready"
                      /\ ManagesPlatformCluster => obj[PlatformCluster] = "ready"
    BY DEF TestsSeeReadyEnvironment
  <2>1. \A x \in Components \cup {Operator} : obj[x] = "ready"
    BY AllReady, Ranks DEF Components
  <2>2. ManagesPlatformCluster => obj[PlatformCluster] = "ready"
    BY Ranks DEF ReadyInv
  <2> QED
    BY <2>1, <2>2
<1> QED
  BY <1>1, InitReadyInv, ReadyInvStep, TypeCorrect, PTL DEF Spec

\* A component appears only in the function that installs it.
LEMMA Appears ==
  ASSUME TypeOK, [Next]_vars, NEW x \in Components \cup {Operator},
         obj[x] = "absent", obj'[x] # "absent"
  PROVE  At(InstallPhases, "call") /\ Item = x
<1>1. obj \in [Names -> ObjectStates] /\ x \in Names
  BY DEF TypeOK, Names
<1>2. x \notin Requests /\ x \notin Clusters /\ x # PlatformCluster
  BY NamesAssumption DEF Disjoint
<1>3. CASE Setup
  <2>1. CASE CreateObject
    BY <1>1, <2>1 DEF CreateObject
  <2>2. CASE SetupFails
    <3>1. x \in Creates
      BY <1>1, <2>2 DEF SetupFails
    <3> QED
      BY <1>2, <3>1 DEF Creates
  <2>3. CASE ManagePlatformCluster
    BY <1>1, <1>2, <2>3 DEF ManagePlatformCluster
  <2> QED
    BY <1>3, <2>1, <2>2, <2>3 DEF Setup, api,
       CreatePlatformCluster, CreateNamespace, LoadImage, ImportConfigs, ObserveReady,
       InstallExtension, RegisterSchemes, VerifyEnvironment
<1>4. CASE Cleanup
  BY <1>1, <1>4 DEF Cleanup, Exists, api, GetObject, DeleteObject, ObserveDeleted,
     DeleteFails, ListRequests, ListFails, DestroyPlatformCluster, DestroyFails
<1>5. CASE Environment
  <2>1. CASE \E o \in Names : BecomeReady(o) \/ LoseReady(o) \/ Finalize(o)
    BY <1>1, <2>1 DEF BecomeReady, LoseReady, Finalize
  <2>2. CASE \E r \in Requests : CreateRequest(r) \/ TestDeletesRequest(r)
    BY <1>1, <1>2, <2>2 DEF CreateRequest, TestDeletesRequest
  <2>3. CASE \E r \in Requests : GrantRequest(r)
    BY <1>1, <1>2, <2>3, SetupNames DEF GrantRequest
  <2>4. CASE \E c \in Clusters : ReleaseCluster(c)
    BY <1>1, <1>2, <2>4 DEF ReleaseCluster
  <2> QED
    BY <1>5, <2>1, <2>2, <2>3, <2>4 DEF Environment
<1>6. CASE LoopEnds \/ TestsEnd \/ UNCHANGED vars
  BY <1>6 DEF LoopEnds, TestsEnd, vars, api
<1> QED
  BY <1>3, <1>4, <1>5, <1>6 DEF Next, Program, Terminated

\* Each kind of component is installed on top of what earlier setup functions
\* installed and waited for (bootstrap.go:74-80).
THEOREM BottomUp == Spec => InstallsBottomUp
<1> DEFINE Below(x) ==
      /\ obj[Operator] = "ready"
      /\ x \notin ToSet(ClusterProviders) =>
           \A y \in ToSet(ClusterProviders) : obj[y] = "ready"
      /\ x \in ToSet(ServiceProviders) =>
           \A y \in ToSet(PlatformServices) : obj[y] = "ready"
<1>1. ASSUME TypeOK, ReadyInv, [Next]_vars, StableObjects, NEW x \in Components,
             obj[x] = "absent", obj'[x] # "absent"
      PROVE  Below(x)
  <2>1. At(InstallPhases, "call") /\ Item = x
    BY <1>1, Appears
  <2>2. phase \in {"InstallClusterProviders", "InstallPlatformServices",
                   "InstallServiceProviders"}
    <3>1. phase = "InstallOperator" => x = Operator
      BY <1>1, <2>1, Items DEF At
    <3>2. x # Operator
      BY NamesAssumption DEF Disjoint
    <3> QED
      BY <2>1, <3>1, <3>2 DEF At, InstallPhases
  <2>3. /\ phase = "InstallClusterProviders" => x \in ToSet(ClusterProviders)
        /\ phase = "InstallPlatformServices" => x \in ToSet(PlatformServices)
    BY <1>1, <2>1, Items DEF At
  <2>4. x \in ToSet(ServiceProviders) => phase = "InstallServiceProviders"
    BY <2>2, <2>3, NamesAssumption DEF Disjoint
  <2>5. /\ Rank[phase] <= Rank["Test"]
        /\ Rank[phase] > Rank["InstallOperator"]
        /\ phase # "InstallClusterProviders" => Rank[phase] > Rank["InstallClusterProviders"]
    BY <2>2, Ranks
  <2>6. phase = "InstallServiceProviders" => Rank[phase] > Rank["InstallPlatformServices"]
    BY Ranks
  <2> QED
    BY <1>1, <2>3, <2>4, <2>5, <2>6, AllReady
<1>2. TypeOK /\ ReadyInv /\ [Next]_vars =>
        [StableObjects => \A x \in Components :
           obj[x] = "absent" /\ obj'[x] # "absent" => Below(x)]_vars
  BY <1>1
<1> QED
  BY <1>2, InitReadyInv, ReadyInvStep, TypeCorrect, PTL DEF Spec, InstallsBottomUp

-----------------------------------------------------------------------------
(***************************************************************************)
(* Images are loaded before they are needed.                               *)
(***************************************************************************)
\* loadImagesToCluster visits the operator and every component.
LEMMA ImageSetupsComplete ==
  /\ ImageSetups \in Seq(Components \cup {Operator})
  /\ \A x \in Components \cup {Operator} : \E i \in 1..Len(ImageSetups) : ImageSetups[i] = x
<1> DEFINE O == <<Operator>>
           A == O \o ClusterProviders
           B == A \o ServiceProviders
<1> USE SlicesAssumption
<1>1. /\ O \in Seq(Components \cup {Operator})
      /\ ClusterProviders \in Seq(Components \cup {Operator})
      /\ ServiceProviders \in Seq(Components \cup {Operator})
      /\ PlatformServices \in Seq(Components \cup {Operator})
  OBVIOUS
<1>2. \A s, t \in Seq(Components \cup {Operator}) :
        /\ s \o t \in Seq(Components \cup {Operator})
        /\ \A i \in 1..Len(s) : i \in 1..Len(s \o t) /\ (s \o t)[i] = s[i]
        /\ \A i \in 1..Len(t) :
             Len(s) + i \in 1..Len(s \o t) /\ (s \o t)[Len(s) + i] = t[i]
  OBVIOUS
<1> DEFINE Has(s, x) == \E i \in 1..Len(s) : s[i] = x
<1>3. \A s, t \in Seq(Components \cup {Operator}) : \A x :
        Has(s, x) \/ Has(t, x) => Has(s \o t, x)
  <2> TAKE s, t \in Seq(Components \cup {Operator})
  <2> TAKE x
  <2>1. ASSUME NEW i \in 1..Len(s), s[i] = x PROVE Has(s \o t, x)
    BY <1>2, <2>1
  <2>2. ASSUME NEW i \in 1..Len(t), t[i] = x PROVE Has(s \o t, x)
    <3>1. Len(s) + i \in 1..Len(s \o t) /\ (s \o t)[Len(s) + i] = x
      BY <1>2, <2>2
    <3> QED
      BY <3>1
  <2> QED
    BY <2>1, <2>2
<1>4. A \in Seq(Components \cup {Operator})
  BY <1>1, <1>2
<1>5. B \in Seq(Components \cup {Operator})
  BY <1>1, <1>2, <1>4
<1>6. ImageSetups = B \o PlatformServices
  BY DEF ImageSetups
<1>7. ImageSetups \in Seq(Components \cup {Operator})
  BY <1>1, <1>2, <1>5, <1>6
<1>8. ASSUME NEW x \in Components \cup {Operator}
      PROVE  Has(ImageSetups, x)
  <2>1. Has(O, x) \/ Has(ClusterProviders, x) \/ Has(ServiceProviders, x)
          \/ Has(PlatformServices, x)
    <3>1. O[1] = Operator /\ 1 \in 1..Len(O)
      OBVIOUS
    <3>2. \A s \in Seq(Components) : x \in ToSet(s) => Has(s, x)
      <4> SUFFICES ASSUME NEW s \in Seq(Components), x \in ToSet(s) PROVE Has(s, x)
        OBVIOUS
      <4>1. PICK i \in DOMAIN s : x = s[i]
        BY DEF ToSet
      <4>2. i \in 1..Len(s)
        BY <4>1
      <4> QED
        BY <4>1, <4>2
    <3> QED
      BY <1>8, <3>1, <3>2 DEF Components
  <2> HIDE DEF Has, O
  <2>2. Has(O, x) \/ Has(ClusterProviders, x) => Has(A, x)
    BY <1>1, <1>3
  <2> HIDE DEF A
  <2>3. Has(A, x) \/ Has(ServiceProviders, x) => Has(B, x)
    BY <1>1, <1>3, <1>4
  <2> HIDE DEF B
  <2>4. Has(B, x) \/ Has(PlatformServices, x) => Has(ImageSetups, x)
    BY <1>1, <1>3, <1>5, <1>6
  <2> QED
    BY <2>1, <2>2, <2>3, <2>4
<1> QED
  BY <1>7, <1>8

\* ImagesInv is preserved by every step of program and controllers.
LEMMA ImagesInvStep == TypeOK /\ ImagesInv /\ [Next]_vars => ImagesInv'
<1> SUFFICES ASSUME TypeOK, ImagesInv, [Next]_vars PROVE ImagesInv'
  OBVIOUS
<1> USE Ranks
<1>1. phase \in Phases /\ phase' \in Phases /\ idx \in Nat \ {0} /\ idx' \in Nat \ {0}
  BY NextTypeOK DEF TypeOK
<1>2. Rank[phase] \in Nat /\ Rank[phase'] \in Nat
  BY <1>1, RankRange
<1>3. loaded \subseteq loaded'
  BY DEF Next, Program, Setup, Cleanup, Environment, Terminated, vars,
     CreatePlatformCluster, CreateNamespace, LoadImage, CreateObject, ImportConfigs,
     ObserveReady, ManagePlatformCluster, InstallExtension, RegisterSchemes,
     VerifyEnvironment, SetupFails, LoopEnds, TestsEnd, GetObject, DeleteObject,
     ObserveDeleted, DeleteFails, ListRequests, ListFails, DestroyPlatformCluster,
     DestroyFails, BecomeReady, LoseReady, Finalize, CreateRequest, GrantRequest,
     ReleaseCluster, TestDeletesRequest
<1>4. ASSUME NEW x \in LocalImages \cap (Components \cup {Operator}), Exists(x)'
      PROVE  x \in loaded'
  <2>1. CASE Exists(x)
    BY <1>3, <1>4, <2>1 DEF ImagesInv, ImagesBeforeObjects
  <2>2. CASE ~Exists(x)
    <3>1. Rank[phase] > Rank["LoadImages"] /\ Rank[phase] <= Rank["Test"]
      BY <1>4, <2>2, Appears DEF Exists, At, InstallPhases
    <3>2. PICK i \in 1..Len(ImageSetups) : ImageSetups[i] = x
      BY <1>4, ImageSetupsComplete
    <3>3. Past("LoadImages", ImageSetups, i)
      BY <3>1 DEF Past
    <3> QED
      BY <1>3, <1>4, <3>1, <3>2, <3>3 DEF ImagesInv
  <2> QED
    BY <2>1, <2>2
<1>5. ASSUME Rank[phase'] <= Rank["Test"],
             NEW i \in 1..Len(ImageSetups), Past("LoadImages", ImageSetups, i)',
             ImageSetups[i] \in LocalImages
      PROVE  ImageSetups[i] \in loaded'
  <2>1. ~SetupFails /\ Rank[phase] <= Rank["Test"]
    BY <1>5, StaysInSetup
  <2>2. CASE Past("LoadImages", ImageSetups, i)
    BY <1>3, <1>5, <2>1, <2>2 DEF ImagesInv
  <2>3. CASE ~Past("LoadImages", ImageSetups, i)
    <3>1. /\ phase = "LoadImages" => Todo = ImageSetups
          /\ Rank[phase'] > Rank["LoadImages"] \/ (phase' = "LoadImages" /\ i < idx')
          /\ Len(ImageSetups) \in Nat /\ "LoadImages" \in LoopPhases
      BY <1>5, ImageSetupsComplete DEF Todo, Past, LoopPhases
    <3>2. LoadImage /\ phase = "LoadImages" /\ i = idx
      BY <2>1, <2>3, <3>1, GetsPast
    <3>3. Item = ImageSetups[i]
      BY <3>2 DEF Item, Todo
    <3> QED
      BY <1>5, <3>2, <3>3 DEF LoadImage
  <2> QED
    BY <2>2, <2>3
<1> QED
  BY <1>4, <1>5 DEF ImagesInv, ImagesBeforeObjects

\* No object is created whose local image is still missing in the kind cluster
\* (bootstrap.go:73-80, 283-304).
THEOREM ImagesLoaded == Spec => []ImagesBeforeObjects
<1>1. Init => ImagesInv
  BY Ranks DEF Init, ImagesInv, ImagesBeforeObjects, Past, Exists, Names
<1>2. ImagesInv => ImagesBeforeObjects
  BY DEF ImagesInv
<1> QED
  BY <1>1, <1>2, ImagesInvStep, TypeCorrect, PTL DEF Spec
=============================================================================
