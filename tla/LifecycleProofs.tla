---------------------------- MODULE LifecycleProofs ----------------------------
(***************************************************************************)
(* Every behaviour of Bootstrap is one of Lifecycle, for every setup: the  *)
(* initial state maps to the initial state, and every step to a step of    *)
(* Lifecycle or to a stuttering step.                                      *)
(***************************************************************************)
EXTENDS BootstrapProofs

-----------------------------------------------------------------------------
(***************************************************************************)
(* The elements a loop has finished with.                                  *)
(***************************************************************************)
\* A loop that has ended has finished with every element.
LEMMA FinishedAll ==
  ASSUME NEW p, NEW s \in Seq(Components), Rank[phase] > Rank[p]
  PROVE  Finished(p, s) = ToSet(s)
<1>1. \A j \in 1..Len(s) : Past(p, s, j)
  BY DEF Past
<1>2. DOMAIN s = 1..Len(s)
  OBVIOUS
<1> QED
  BY <1>1, <1>2 DEF Finished, ToSet

\* The same after a step.
LEMMA FinishedAllNext ==
  ASSUME NEW p, NEW s \in Seq(Components), Rank[phase'] > Rank[p]
  PROVE  Finished(p, s)' = ToSet(s)
<1>1. \A j \in 1..Len(s) : Past(p, s, j)'
  BY DEF Past
<1>2. DOMAIN s = 1..Len(s)
  OBVIOUS
<1>3. Finished(p, s)' = {s[j] : j \in {k \in 1..Len(s) : Past(p, s, k)'}}
  BY DEF Finished, Past
<1> QED
  BY <1>1, <1>2, <1>3 DEF ToSet

\* A loop that has not begun has finished with no element.
LEMMA FinishedNone ==
  ASSUME TypeOK, NEW p \in Phases, NEW s \in Seq(Components),
         Rank[phase] < Rank[p] \/ (phase = p /\ idx = 1)
  PROVE  Finished(p, s) = {}
<1>1. phase \in Phases
  BY DEF TypeOK
<1>2. Rank[phase] \in Nat /\ Rank[p] \in Nat
  BY <1>1, RankRange
<1>3. \A j \in 1..Len(s) : ~Past(p, s, j)
  BY <1>2 DEF Past
<1> QED
  BY <1>3 DEF Finished

\* An iteration of a loop finishes with one more element.
LEMMA FinishedOneMore ==
  ASSUME TypeOK, NEW p \in Phases, NEW s \in Seq(Components), IsInjective(s),
         phase = p, phase' = p, idx' = idx + 1, idx <= Len(s)
  PROVE  /\ Finished(p, s)' = Finished(p, s) \cup {s[idx]}
         /\ s[idx] \notin Finished(p, s) /\ s[idx] \in ToSet(s)
         /\ Finished(p, s) \subseteq ToSet(s)
<1>1. idx \in 1..Len(s) /\ DOMAIN s = 1..Len(s)
  BY DEF TypeOK
<1>2. Rank[p] \in Nat
  BY RankRange
<1>3. \A j \in 1..Len(s) : (Past(p, s, j) <=> j < idx) /\ (Past(p, s, j)' <=> j < idx + 1)
  BY <1>1, <1>2 DEF Past
<1>4. Finished(p, s)' = {s[j] : j \in {k \in 1..Len(s) : Past(p, s, k)'}}
  BY DEF Finished, Past
<1>5. Finished(p, s)' = Finished(p, s) \cup {s[idx]}
  BY <1>1, <1>3, <1>4 DEF Finished
<1>6. s[idx] \notin Finished(p, s)
  BY <1>1, <1>3 DEF Finished, IsInjective
<1>7. s[idx] \in ToSet(s) /\ Finished(p, s) \subseteq ToSet(s)
  BY <1>1 DEF Finished, ToSet
<1> QED
  BY <1>5, <1>6, <1>7

\* A function that comes to its end has finished with all elements already.
LEMMA FinishedUnchanged ==
  ASSUME TypeOK, TypeOK', NEW p \in LoopPhases, NEW s \in Seq(Components),
         phase = p => Todo = s,
         Rank[phase'] = Rank[phase] + 1, idx' = 1, phase \in LoopPhases => ~MoreItems
  PROVE  Finished(p, s)' = Finished(p, s)
<1>1. phase \in Phases /\ phase' \in Phases /\ p \in Phases /\ idx \in Nat \ {0}
  BY PhaseNames DEF TypeOK, LoopPhases, InstallPhases, DeletePhases
<1>2. Rank[phase] \in Nat /\ Rank[phase'] \in Nat /\ Rank[p] \in Nat
  BY <1>1, RankRange
<1>3. ASSUME NEW j \in 1..Len(s) PROVE Past(p, s, j)' <=> Past(p, s, j)
  <2>1. CASE phase = p
    BY <1>1, <1>2, <2>1 DEF Past, MoreItems
  <2>2. CASE phase # p
    <3>1. Rank[phase] # Rank[p]
      BY <1>1, <2>2, RankInjective
    <3> QED
      BY <1>2, <2>2, <3>1 DEF Past
  <2> QED
    BY <2>1, <2>2
<1>4. Finished(p, s)' = {s[j] : j \in {k \in 1..Len(s) : Past(p, s, k)'}}
  BY DEF Finished, Past
<1> QED
  BY <1>3, <1>4 DEF Finished

-----------------------------------------------------------------------------
(***************************************************************************)
(* The state of Lifecycle, phase by phase.                                 *)
(***************************************************************************)
CPs == ToSet(ClusterProviders)
PSs == ToSet(PlatformServices)
SPs == ToSet(ServiceProviders)

\* The three kinds of components are disjoint and have the tiers 1, 2 and 3.
LEMMA Tiers ==
  /\ Components = CPs \cup PSs \cup SPs
  /\ CPs \cap PSs = {} /\ CPs \cap SPs = {} /\ PSs \cap SPs = {}
  /\ \A c \in Components : /\ c \in CPs => Tier[c] = 1
                           /\ c \in PSs => Tier[c] = 2
                           /\ c \in SPs => Tier[c] = 3
<1>1. /\ Components = CPs \cup PSs \cup SPs
      /\ CPs \cap PSs = {} /\ CPs \cap SPs = {} /\ PSs \cap SPs = {}
  BY NamesAssumption DEF CPs, PSs, SPs, Components, Disjoint
<1>2. ASSUME NEW c \in Components
      PROVE  Tier[c] = IF c \in CPs THEN 1 ELSE IF c \in PSs THEN 2 ELSE 3
  <2>1. Tier[c] = CASE c \in CPs -> 1 [] c \in PSs -> 2 [] OTHER -> 3
    BY DEF Tier, CPs, PSs
  <2> QED
    BY <1>1, <2>1
<1> QED
  BY <1>1, <1>2

\* The names of the functions that install and delete components.
LEMMA LoopNames ==
  /\ "InstallClusterProviders" \in Phases \cap LoopPhases
  /\ "InstallPlatformServices" \in Phases \cap LoopPhases
  /\ "InstallServiceProviders" \in Phases \cap LoopPhases
  /\ "DeleteClusterProviders" \in Phases \cap LoopPhases
  /\ "DeletePlatformServices" \in Phases \cap LoopPhases
  /\ "DeleteServiceProviders" \in Phases \cap LoopPhases
  /\ ClusterProviders \in Seq(Components) /\ IsInjective(ClusterProviders)
  /\ PlatformServices \in Seq(Components) /\ IsInjective(PlatformServices)
  /\ ServiceProviders \in Seq(Components) /\ IsInjective(ServiceProviders)
BY PhaseNames, SlicesAssumption DEF LoopPhases, InstallPhases, DeletePhases

Up(F(_, _)) == F("InstallClusterProviders", ClusterProviders)
                 \cup F("InstallPlatformServices", PlatformServices)
                 \cup F("InstallServiceProviders", ServiceProviders)

Down(F(_, _)) == F("DeleteServiceProviders", ServiceProviders)
                   \cup F("DeletePlatformServices", PlatformServices)
                   \cup F("DeleteClusterProviders", ClusterProviders)

\* The abstract state while the setup functions run.
LEMMA SetupBar ==
  ASSUME Rank[phase] < Rank["Test"]
  PROVE  stageBar = "setup" /\ handledBar = Up(Finished)
BY Ranks DEF stageBar, handledBar, InSetup, InCleanup, Up

\* The abstract state while the finish functions run.
LEMMA CleanupBar ==
  ASSUME Rank[phase] \in Rank["DeleteServiceProviders"] .. Rank["DestroyCluster"],
         phase # "Test"
  PROVE  stageBar = "cleanup" /\ handledBar = Down(Finished)
BY Ranks DEF stageBar, handledBar, InSetup, InCleanup, Down

\* The abstract state during and after the rest of the run.
LEMMA OtherBar ==
  /\ phase = "Test" => stageBar = "test" /\ handledBar = {}
  /\ phase = "Done" => stageBar = "over" /\ handledBar = {}
BY Ranks DEF stageBar, handledBar, InSetup, InCleanup

\* The components of all loops but that of function p stay as they are while p
\* goes on to its next element.
LEMMA FinishedOthers ==
  ASSUME phase' = phase, NEW p, p # phase, NEW s \in Seq(Components)
  PROVE  Finished(p, s)' = Finished(p, s)
BY DEF Finished, Past

\* The loop of an installing function goes on to its next element.
LEMMA ElementUp ==
  ASSUME TypeOK, phase \in {"InstallClusterProviders", "InstallPlatformServices",
                            "InstallServiceProviders"},
         phase' = phase, idx' = idx + 1, MoreItems
  PROVE  Item \in Components /\ L!BringUp(Item)
<1> DEFINE F1 == Finished("InstallClusterProviders", ClusterProviders)
           F2 == Finished("InstallPlatformServices", PlatformServices)
           F3 == Finished("InstallServiceProviders", ServiceProviders)
<1>1. /\ stageBar = "setup" /\ handledBar = F1 \cup F2 \cup F3
      /\ stageBar' = "setup" /\ handledBar' = F1' \cup F2' \cup F3'
  <2>1. Rank[phase] < Rank["Test"]
    BY Ranks
  <2>2. stageBar = "setup" /\ handledBar = F1 \cup F2 \cup F3
    BY <2>1, SetupBar DEF Up
  <2>3. stageBar' = "setup" /\ handledBar' = F1' \cup F2' \cup F3'
    BY <2>1, Ranks DEF stageBar, handledBar, InSetup, InCleanup
  <2> QED
    BY <2>2, <2>3
<1>2. CASE phase = "InstallClusterProviders"
  <2>1. Todo = ClusterProviders /\ idx <= Len(ClusterProviders)
    BY <1>2 DEF Todo, MoreItems
  <2>2. F1' = F1 \cup {Item} /\ Item \notin F1 /\ Item \in CPs
    BY <1>2, <2>1, FinishedOneMore, LoopNames DEF Item, CPs
  <2>3. F2 = {} /\ F3 = {}
    <3>1. /\ Rank[phase] < Rank["InstallPlatformServices"]
          /\ Rank[phase] < Rank["InstallServiceProviders"]
      BY <1>2, Ranks
    <3> QED
      BY <3>1, FinishedNone, LoopNames
  <2>4. F2' = F2 /\ F3' = F3
    BY <1>2, FinishedOthers, LoopNames
  <2> HIDE DEF F1, F2, F3
  <2>5. Item \notin handledBar /\ handledBar' = handledBar \cup {Item}
    BY <1>1, <2>2, <2>3, <2>4
  <2> QED
    BY <1>1, <2>2, <2>5, Tiers DEF L!BringUp
<1>3. CASE phase = "InstallPlatformServices"
  <2>1. Todo = PlatformServices /\ idx <= Len(PlatformServices)
    BY <1>3 DEF Todo, MoreItems
  <2>2. F2' = F2 \cup {Item} /\ Item \notin F2 /\ Item \in PSs
    BY <1>3, <2>1, FinishedOneMore, LoopNames DEF Item, PSs
  <2>3. F1 = CPs /\ F3 = {}
    <3>1. /\ Rank[phase] > Rank["InstallClusterProviders"]
          /\ Rank[phase] < Rank["InstallServiceProviders"]
      BY <1>3, Ranks
    <3>2. F1 = CPs
      BY <3>1, FinishedAll, LoopNames DEF CPs
    <3>3. F3 = {}
      BY <3>1, FinishedNone, LoopNames
    <3> QED
      BY <3>2, <3>3
  <2>4. F1' = F1 /\ F3' = F3
    BY <1>3, FinishedOthers, LoopNames
  <2> HIDE DEF F1, F2, F3
  <2>5. Item \notin handledBar /\ handledBar' = handledBar \cup {Item} /\ CPs \subseteq handledBar
    BY <1>1, <2>2, <2>3, <2>4, Tiers
  <2> QED
    BY <1>1, <2>2, <2>5, Tiers DEF L!BringUp
<1>4. CASE phase = "InstallServiceProviders"
  <2>1. Todo = ServiceProviders /\ idx <= Len(ServiceProviders)
    BY <1>4 DEF Todo, MoreItems
  <2>2. F3' = F3 \cup {Item} /\ Item \notin F3 /\ Item \in SPs
    BY <1>4, <2>1, FinishedOneMore, LoopNames DEF Item, SPs
  <2>3. F1 = CPs /\ F2 = PSs
    <3>1. /\ Rank[phase] > Rank["InstallClusterProviders"]
          /\ Rank[phase] > Rank["InstallPlatformServices"]
      BY <1>4, Ranks
    <3>2. F1 = CPs
      BY <3>1, FinishedAll, LoopNames DEF CPs
    <3>3. F2 = PSs
      BY <3>1, FinishedAll, LoopNames DEF PSs
    <3> QED
      BY <3>2, <3>3
  <2>4. F1' = F1 /\ F2' = F2
    BY <1>4, FinishedOthers, LoopNames
  <2> HIDE DEF F1, F2, F3
  <2>5. /\ Item \notin handledBar /\ handledBar' = handledBar \cup {Item}
        /\ CPs \cup PSs \subseteq handledBar
    BY <1>1, <2>2, <2>3, <2>4, Tiers
  <2> QED
    BY <1>1, <2>2, <2>5, Tiers DEF L!BringUp
<1> QED
  BY <1>2, <1>3, <1>4

\* The loop of a deleting function goes on to its next element.
LEMMA ElementDown ==
  ASSUME TypeOK, phase \in {"DeleteServiceProviders", "DeletePlatformServices",
                            "DeleteClusterProviders"},
         phase' = phase, idx' = idx + 1, MoreItems
  PROVE  Item \in Components /\ L!TakeDown(Item)
<1> DEFINE F1 == Finished("DeleteClusterProviders", ClusterProviders)
           F2 == Finished("DeletePlatformServices", PlatformServices)
           F3 == Finished("DeleteServiceProviders", ServiceProviders)
<1>1. /\ stageBar = "cleanup" /\ handledBar = F3 \cup F2 \cup F1
      /\ stageBar' = "cleanup" /\ handledBar' = F3' \cup F2' \cup F1'
  <2>1. Rank[phase] \in Rank["DeleteServiceProviders"] .. Rank["DestroyCluster"]
    BY Ranks
  <2>2. stageBar = "cleanup" /\ handledBar = F3 \cup F2 \cup F1
    BY <2>1, CleanupBar DEF Down
  <2>3. stageBar' = "cleanup" /\ handledBar' = F3' \cup F2' \cup F1'
    BY <2>1, Ranks DEF stageBar, handledBar, InSetup, InCleanup
  <2> QED
    BY <2>2, <2>3
<1>2. CASE phase = "DeleteServiceProviders"
  <2>1. Todo = ServiceProviders /\ idx <= Len(ServiceProviders)
    BY <1>2 DEF Todo, MoreItems
  <2>2. F3' = F3 \cup {Item} /\ Item \notin F3 /\ Item \in SPs
    BY <1>2, <2>1, FinishedOneMore, LoopNames DEF Item, SPs
  <2>3. F1 = {} /\ F2 = {}
    <3>1. /\ Rank[phase] < Rank["DeletePlatformServices"]
          /\ Rank[phase] < Rank["DeleteClusterProviders"]
      BY <1>2, Ranks
    <3> QED
      BY <3>1, FinishedNone, LoopNames
  <2>4. F1' = F1 /\ F2' = F2
    BY <1>2, FinishedOthers, LoopNames
  <2> HIDE DEF F1, F2, F3
  <2>5. Item \notin handledBar /\ handledBar' = handledBar \cup {Item}
    BY <1>1, <2>2, <2>3, <2>4
  <2> QED
    BY <1>1, <2>2, <2>5, Tiers DEF L!TakeDown
<1>3. CASE phase = "DeletePlatformServices"
  <2>1. Todo = PlatformServices /\ idx <= Len(PlatformServices)
    BY <1>3 DEF Todo, MoreItems
  <2>2. F2' = F2 \cup {Item} /\ Item \notin F2 /\ Item \in PSs
    BY <1>3, <2>1, FinishedOneMore, LoopNames DEF Item, PSs
  <2>3. F3 = SPs /\ F1 = {}
    <3>1. /\ Rank[phase] > Rank["DeleteServiceProviders"]
          /\ Rank[phase] < Rank["DeleteClusterProviders"]
      BY <1>3, Ranks
    <3> QED
      BY <3>1, FinishedAll, FinishedNone, LoopNames DEF SPs
  <2>4. F1' = F1 /\ F3' = F3
    BY <1>3, FinishedOthers, LoopNames
  <2> HIDE DEF F1, F2, F3
  <2>5. Item \notin handledBar /\ handledBar' = handledBar \cup {Item} /\ SPs \subseteq handledBar
    BY <1>1, <2>2, <2>3, <2>4, Tiers
  <2> QED
    BY <1>1, <2>2, <2>5, Tiers DEF L!TakeDown
<1>4. CASE phase = "DeleteClusterProviders"
  <2>1. Todo = ClusterProviders /\ idx <= Len(ClusterProviders)
    BY <1>4 DEF Todo, MoreItems
  <2>2. F1' = F1 \cup {Item} /\ Item \notin F1 /\ Item \in CPs
    BY <1>4, <2>1, FinishedOneMore, LoopNames DEF Item, CPs
  <2>3. F3 = SPs /\ F2 = PSs
    <3>1. /\ Rank[phase] > Rank["DeleteServiceProviders"]
          /\ Rank[phase] > Rank["DeletePlatformServices"]
      BY <1>4, Ranks
    <3>2. F3 = SPs
      BY <3>1, FinishedAll, LoopNames DEF SPs
    <3>3. F2 = PSs
      BY <3>1, FinishedAll, LoopNames DEF PSs
    <3> QED
      BY <3>2, <3>3
  <2>4. F2' = F2 /\ F3' = F3
    BY <1>4, FinishedOthers, LoopNames
  <2> HIDE DEF F1, F2, F3
  <2>5. /\ Item \notin handledBar /\ handledBar' = handledBar \cup {Item}
        /\ SPs \cup PSs \subseteq handledBar
    BY <1>1, <2>2, <2>3, <2>4, Tiers
  <2> QED
    BY <1>1, <2>2, <2>5, Tiers DEF L!TakeDown
<1> QED
  BY <1>2, <1>3, <1>4

-----------------------------------------------------------------------------
(***************************************************************************)
(* The refinement.                                                         *)
(***************************************************************************)
\* The start of the cleanup: nothing has been taken down yet.
LEMMA CleanupStarts ==
  ASSUME TypeOK, TypeOK', phase' = "DeleteServiceProviders", idx' = 1
  PROVE  stageBar' = "cleanup" /\ handledBar' = {}
<1>1. ASSUME NEW p \in {"DeleteClusterProviders", "DeletePlatformServices",
                        "DeleteServiceProviders"},
             NEW s \in Seq(Components), NEW j \in 1..Len(s)
      PROVE  ~Past(p, s, j)'
  BY Ranks DEF Past
<1>2. handledBar' = {}
  BY <1>1, LoopNames, Ranks DEF handledBar, Finished, InSetup, InCleanup
<1> QED
  BY <1>2, Ranks DEF stageBar, InSetup, InCleanup

\* A function ends, and the next one starts.
LEMMA FunctionEnds ==
  ASSUME TypeOK, TypeOK', Rank[phase'] = Rank[phase] + 1, idx' = 1,
         phase \in LoopPhases => ~MoreItems
  PROVE  L!StartTests \/ L!StartCleanup \/ L!Finish \/ UNCHANGED <<stageBar, handledBar>>
<1>1. /\ phase \in Phases /\ phase' \in Phases
      /\ Rank[phase] \in 1..18 /\ Rank[phase'] \in 1..18
  BY RankRange DEF TypeOK
<1>2. \A p \in LoopPhases : \A s \in Seq(Components) :
        (phase = p => Todo = s) => Finished(p, s)' = Finished(p, s)
  BY FinishedUnchanged
<1>3. /\ Finished("InstallClusterProviders", ClusterProviders)'
           = Finished("InstallClusterProviders", ClusterProviders)
      /\ Finished("InstallPlatformServices", PlatformServices)'
           = Finished("InstallPlatformServices", PlatformServices)
      /\ Finished("InstallServiceProviders", ServiceProviders)'
           = Finished("InstallServiceProviders", ServiceProviders)
      /\ Finished("DeleteClusterProviders", ClusterProviders)'
           = Finished("DeleteClusterProviders", ClusterProviders)
      /\ Finished("DeletePlatformServices", PlatformServices)'
           = Finished("DeletePlatformServices", PlatformServices)
      /\ Finished("DeleteServiceProviders", ServiceProviders)'
           = Finished("DeleteServiceProviders", ServiceProviders)
  BY <1>2, LoopNames DEF Todo
<1>4. CASE Rank[phase'] < Rank["Test"]
  <2>1. Rank[phase] < Rank["Test"]
    BY <1>1, <1>4, Ranks
  <2> QED
    <3>1. stageBar = "setup" /\ handledBar = Up(Finished)
      BY <2>1, SetupBar
    <3>2. InSetup'
      BY <1>4 DEF InSetup
    <3>3. ~InCleanup'
      BY <1>4, Ranks DEF InCleanup
    <3>4. /\ stageBar' = "setup"
          /\ handledBar' = Finished("InstallClusterProviders", ClusterProviders)'
                      \cup Finished("InstallPlatformServices", PlatformServices)'
                      \cup Finished("InstallServiceProviders", ServiceProviders)'
      BY <1>4, <3>2, <3>3, Ranks DEF stageBar, handledBar
    <3> QED
      BY <1>3, <3>1, <3>4 DEF Up
<1>5. CASE Rank[phase'] = Rank["Test"]
  <2>1. phase' = "Test" /\ phase = "InstallServiceProviders"
    BY <1>1, <1>5, RankInjective, PhaseNames, Ranks
  <2>2. stageBar' = "test" /\ handledBar' = {}
    BY <2>1, Ranks DEF stageBar, handledBar, InSetup, InCleanup
  <2>3. stageBar = "setup" /\ handledBar = Up(Finished)
    BY <2>1, SetupBar, Ranks
  <2>4. /\ Finished("InstallClusterProviders", ClusterProviders)' = CPs
        /\ Finished("InstallPlatformServices", PlatformServices)' = PSs
        /\ Finished("InstallServiceProviders", ServiceProviders)' = SPs
    <3>1. /\ Rank[phase'] > Rank["InstallClusterProviders"]
          /\ Rank[phase'] > Rank["InstallPlatformServices"]
          /\ Rank[phase'] > Rank["InstallServiceProviders"]
      BY <2>1, Ranks
    <3>2. Finished("InstallClusterProviders", ClusterProviders)' = CPs
      BY <3>1, FinishedAllNext, LoopNames DEF CPs
    <3>3. Finished("InstallPlatformServices", PlatformServices)' = PSs
      BY <3>1, FinishedAllNext, LoopNames DEF PSs
    <3>4. Finished("InstallServiceProviders", ServiceProviders)' = SPs
      BY <3>1, FinishedAllNext, LoopNames DEF SPs
    <3> QED
      BY <3>2, <3>3, <3>4
  <2>5. handledBar = Components
    BY <1>3, <2>3, <2>4, Tiers DEF Up
  <2> QED
    BY <2>2, <2>3, <2>5 DEF L!StartTests
<1>6. CASE Rank[phase'] = Rank["DeleteServiceProviders"]
  <2>1. phase' = "DeleteServiceProviders" /\ phase = "Test"
    BY <1>1, <1>6, RankInjective, PhaseNames, Ranks
  <2> QED
    BY <2>1, CleanupStarts, OtherBar DEF L!StartCleanup
<1>7. CASE Rank[phase'] \in 13..17
  <2>1. Rank[phase] \in 12..16
    BY <1>1, <1>7
  <2> QED
    BY <1>3, <1>7, <2>1, Ranks DEF stageBar, handledBar, InSetup, InCleanup
<1>8. CASE Rank[phase'] = Rank["Done"]
  <2>1. phase' = "Done" /\ phase = "DestroyCluster"
    BY <1>1, <1>8, RankInjective, PhaseNames, Ranks
  <2>2. stageBar' = "over" /\ handledBar' = {}
    BY <2>1, Ranks DEF stageBar, handledBar, InSetup, InCleanup
  <2>3. stageBar = "cleanup" /\ handledBar = Down(Finished)
    BY <2>1, CleanupBar, Ranks
  <2>4. /\ Finished("DeleteClusterProviders", ClusterProviders) = CPs
        /\ Finished("DeletePlatformServices", PlatformServices) = PSs
        /\ Finished("DeleteServiceProviders", ServiceProviders) = SPs
    <3>1. /\ Rank[phase] > Rank["DeleteClusterProviders"]
          /\ Rank[phase] > Rank["DeletePlatformServices"]
          /\ Rank[phase] > Rank["DeleteServiceProviders"]
      BY <2>1, Ranks
    <3>2. Finished("DeleteClusterProviders", ClusterProviders) = CPs
      BY <3>1, FinishedAll, LoopNames DEF CPs
    <3>3. Finished("DeletePlatformServices", PlatformServices) = PSs
      BY <3>1, FinishedAll, LoopNames DEF PSs
    <3>4. Finished("DeleteServiceProviders", ServiceProviders) = SPs
      BY <3>1, FinishedAll, LoopNames DEF SPs
    <3> QED
      BY <3>2, <3>3, <3>4
  <2>5. handledBar = Components
    BY <2>3, <2>4, Tiers DEF Down
  <2> QED
    BY <2>2, <2>3, <2>5 DEF L!Finish
<1> QED
  BY <1>1, <1>4, <1>5, <1>6, <1>7, <1>8, Ranks

\* An element of a loop that is about no component.
LEMMA OtherElement ==
  ASSUME TypeOK, phase' = phase, idx' = idx + 1,
         phase \in {"LoadImages", "InstallOperator", "InstallExtensions", "DeleteRequests"}
  PROVE  UNCHANGED <<stageBar, handledBar>>
<1>1. /\ Finished("InstallClusterProviders", ClusterProviders)'
           = Finished("InstallClusterProviders", ClusterProviders)
      /\ Finished("InstallPlatformServices", PlatformServices)'
           = Finished("InstallPlatformServices", PlatformServices)
      /\ Finished("InstallServiceProviders", ServiceProviders)'
           = Finished("InstallServiceProviders", ServiceProviders)
      /\ Finished("DeleteClusterProviders", ClusterProviders)'
           = Finished("DeleteClusterProviders", ClusterProviders)
      /\ Finished("DeletePlatformServices", PlatformServices)'
           = Finished("DeletePlatformServices", PlatformServices)
      /\ Finished("DeleteServiceProviders", ServiceProviders)'
           = Finished("DeleteServiceProviders", ServiceProviders)
  BY FinishedOthers, LoopNames
<1> QED
  BY <1>1, Ranks DEF stageBar, handledBar, InSetup, InCleanup

\* Every step of Bootstrap is a step of Lifecycle or a stuttering step.
LEMMA StepSimulation ==
  ASSUME TypeOK, [Next]_vars
  PROVE  [L!Next]_<<stageBar, handledBar>>
<1>1. TypeOK'
  BY NextTypeOK
<1>2. CASE phase' = phase /\ idx' = idx
  BY <1>2 DEF stageBar, handledBar, InSetup, InCleanup, Finished, Past
<1>3. CASE phase' = phase /\ idx' = idx + 1 /\ MoreItems
  <2>1. phase \in LoopPhases
    BY <1>3, Items
  <2>2. \/ phase \in {"LoadImages", "InstallOperator", "InstallExtensions", "DeleteRequests"}
        \/ phase \in {"InstallClusterProviders", "InstallPlatformServices",
                       "InstallServiceProviders"}
        \/ phase \in {"DeleteServiceProviders", "DeletePlatformServices",
                       "DeleteClusterProviders"}
    BY <2>1 DEF LoopPhases, InstallPhases, DeletePhases
  <2> QED
    BY <1>3, <2>2, OtherElement, ElementUp, ElementDown DEF L!Next
<1>4. CASE Rank[phase'] = Rank[phase] + 1 /\ idx' = 1 /\ (phase \in LoopPhases => ~MoreItems)
  BY <1>1, <1>4, FunctionEnds DEF L!Next
<1>5. CASE InSetup /\ phase' = "DeleteServiceProviders" /\ idx' = 1
  <2>1. stageBar = "setup"
    BY <1>5, SetupBar DEF InSetup
  <2> QED
    BY <1>1, <1>5, <2>1, CleanupStarts DEF L!Next, L!StartCleanup
<1> QED
  BY <1>2, <1>3, <1>4, <1>5, ControlStep

\* ImplementsLifecycle: Bootstrap keeps the promises of Lifecycle: components come up tier by tier,
\* the tests start when all are up, and whatever failed the cleanup takes all of
\* them down tier by tier before the platform cluster is destroyed
\* (bootstrap.go:71-82, 91-134).
THEOREM BootstrapImplementsLifecycle == Spec => ImplementsLifecycle
<1>1. Init => L!Init
  <2> SUFFICES ASSUME Init PROVE stageBar = "setup" /\ handledBar = {}
    BY DEF L!Init
  <2>1. TypeOK
    BY InitTypeOK
  <2>2. /\ Rank[phase] < Rank["InstallClusterProviders"]
        /\ Rank[phase] < Rank["InstallPlatformServices"]
        /\ Rank[phase] < Rank["InstallServiceProviders"]
        /\ Rank[phase] < Rank["Test"]
    BY Ranks DEF Init
  <2>3. /\ Finished("InstallClusterProviders", ClusterProviders) = {}
        /\ Finished("InstallPlatformServices", PlatformServices) = {}
        /\ Finished("InstallServiceProviders", ServiceProviders) = {}
    BY <2>1, <2>2, FinishedNone, LoopNames
  <2> QED
    BY <2>2, <2>3, SetupBar DEF Up
<1> QED
  BY <1>1, StepSimulation, TypeCorrect, PTL DEF Spec, ImplementsLifecycle, L!Spec, L!vars
=============================================================================
