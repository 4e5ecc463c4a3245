------------------------ MODULE ApiServerUpdaterProofs ------------------------
(***************************************************************************)
(* Proofs about ApiServerUpdater for any set of calls and values.          *)
(*                                                                         *)
(* The argument: calls do not overlap, so what a call has read is still in *)
(* the file when it writes (EditInv).  And as long as neither the docker   *)
(* CLI fails nor the kubelet is slow, it has caught up whenever no call is *)
(* past its write, and a restart during a call is one for that call's file *)
(* (RestartInv); without any faults there is one exactly if the call has    *)
(* changed the file (ChangeInv).                                           *)
(***************************************************************************)
EXTENDS ApiServerUpdater, TLAPS

-----------------------------------------------------------------------------
(* What an edit does to a manifest. *)

\* An edit of a manifest is a manifest (AddHostAlias, AddNameserver).
LEMMA PatchedManifest ==
  ASSUME NEW m \in Manifest, NEW c \in Calls
  PROVE  Patched(m, c) \in Manifest
<1>1. ValueOf[c] \in Values
  BY DEF Values
<1>2. CASE c \in AliasCalls
  <2>1. Append(m.hostAliases, ValueOf[c]) \in Seq(Values)
    BY <1>1 DEF Manifest
  <2>. QED  BY <1>2, <2>1 DEF Patched, Manifest
<1>3. CASE c \notin AliasCalls
  BY <1>1, <1>3 DEF Patched, Manifest
<1>. QED  BY <1>2, <1>3

\* After its edit a manifest holds what the call adds.
LEMMA PatchedHolds ==
  ASSUME NEW m \in Manifest, NEW c \in Calls
  PROVE  Holds(Patched(m, c), c)
<1>1. ValueOf[c] \in Values
  BY DEF Values
<1>2. CASE c \in AliasCalls
  <2>. DEFINE s == m.hostAliases
  <2>1. s \in Seq(Values)
    BY DEF Manifest
  <2>2. Patched(m, c).hostAliases = Append(s, ValueOf[c])
    BY <1>2 DEF Patched, Manifest
  <2>3. Len(Append(s, ValueOf[c])) = Len(s) + 1 /\ Append(s, ValueOf[c])[Len(s) + 1] = ValueOf[c]
    BY <2>1, <1>1
  <2>4. Len(s) + 1 \in 1..(Len(s) + 1)
    BY <2>1
  <2>. QED  BY <1>2, <2>2, <2>3, <2>4 DEF Holds
<1>3. CASE c \notin AliasCalls
  BY <1>3 DEF Patched, Holds, Manifest
<1>. QED  BY <1>2, <1>3

\* An edit removes no host alias.
LEMMA PatchedKeepsAliases ==
  ASSUME NEW m \in Manifest, NEW c \in Calls, NEW d \in AliasCalls, d \in Calls,
         Holds(m, d)
  PROVE  Holds(Patched(m, c), d)
<1>1. ValueOf[c] \in Values
  BY DEF Values
<1>2. CASE c \in AliasCalls
  <2>. DEFINE s == m.hostAliases
  <2>1. s \in Seq(Values)
    BY DEF Manifest
  <2>2. Patched(m, c).hostAliases = Append(s, ValueOf[c])
    BY <1>2 DEF Patched, Manifest
  <2>3. PICK i \in 1..Len(s) : s[i] = ValueOf[d]
    BY DEF Holds
  <2>4. i \in 1..Len(Append(s, ValueOf[c])) /\ Append(s, ValueOf[c])[i] = ValueOf[d]
    BY <2>1, <2>3, <1>1
  <2>. QED  BY <2>2, <2>4 DEF Holds
<1>3. CASE c \notin AliasCalls
  BY <1>3 DEF Patched, Holds, Manifest
<1>. QED  BY <1>2, <1>3

-----------------------------------------------------------------------------
(* Types. *)

\* The manifest of a new cluster.
LEMMA InitialIsManifest == InitialManifest \in Manifest
BY DEF InitialManifest, Manifest

\* Every step of the updater and of the kubelet keeps the types.
LEMMA TypeOKStep == TypeOK /\ [Next]_vars => TypeOK'
<1>. SUFFICES ASSUME TypeOK, [Next]_vars PROVE TypeOK'
  OBVIOUS
<1>. USE DEF TypeOK, To
<1>1. ASSUME NEW c \in Calls, Call(c) PROVE TypeOK'
  <2>0. pod[c] \in Manifest /\ Patched(pod[c], c) \in Manifest
    BY PatchedManifest
  <2>1. CASE GetStaticPod(c)
    BY <2>1 DEF GetStaticPod, kubelet
  <2>2. CASE GetStaticPodFails(c)
    BY <2>2 DEF GetStaticPodFails, kubelet
  <2>3. CASE WriteToContainerFS(c)
    BY <2>3, <2>0 DEF WriteToContainerFS, kubelet
  <2>4. CASE WriteFails(c)
    BY <2>4, <2>0 DEF WriteFails, kubelet
  <2>5. CASE SeesServerDown(c)
    BY <2>5 DEF SeesServerDown, kubelet
  <2>6. CASE SeesServerUp(c)
    BY <2>6 DEF SeesServerUp, kubelet
  <2>7. CASE TimesOut(c)
    BY <2>7 DEF TimesOut, kubelet
  <2>8. CASE ProbeFails(c)
    BY <2>8 DEF ProbeFails, kubelet
  <2>. QED  BY <1>1, <2>1, <2>2, <2>3, <2>4, <2>5, <2>6, <2>7, <2>8 DEF Call
<1>2. CASE Kubelet
  BY <1>2 DEF Kubelet, KubeletReads, KubeletStops, KubeletStarts
<1>3. CASE Finished \/ UNCHANGED vars
  BY <1>3 DEF Finished, vars, kubelet
<1>. QED  BY <1>1, <1>2, <1>3 DEF Next

\* The state of a new cluster and of calls that have not begun.
LEMMA InitTypeOK == Init => TypeOK
BY InitialIsManifest DEF Init, TypeOK

\* Variables keep their types: the manifest stays a list of aliases and a
\* nameserver, for AddHostAlias and AddNameserver in any order.
THEOREM TypeCorrect == Spec => []TypeOK
BY InitTypeOK, TypeOKStep, PTL DEF Spec

-----------------------------------------------------------------------------
(* Edits. *)

\* Calls do not overlap; a call about to write has read what is in the file.
EditInv ==
  /\ \A c, d \in Calls : Active(c) /\ Active(d) => c = d
  /\ \A c \in Calls : pc[c] = "write" => pod[c] = manifest
  /\ \A c \in Calls : pc[c] \in {"idle", "write"} => c \notin written

\* EditInv is preserved: only the one active call changes the file.
LEMMA EditInvStep == TypeOK /\ EditInv /\ [Next]_vars => EditInv'
<1>. SUFFICES ASSUME TypeOK, EditInv, [Next]_vars PROVE EditInv'
  OBVIOUS
<1>. USE DEF TypeOK, EditInv, To, Active
<1>1. ASSUME NEW c \in Calls, Call(c) PROVE EditInv'
  <2>1. CASE GetStaticPod(c)
    BY <2>1 DEF GetStaticPod, MayStart
  <2>2. CASE GetStaticPodFails(c)
    BY <2>2 DEF GetStaticPodFails, MayStart
  <2>3. CASE WriteToContainerFS(c)
    BY <2>3 DEF WriteToContainerFS
  <2>4. CASE WriteFails(c)
    BY <2>4 DEF WriteFails
  <2>5. CASE SeesServerDown(c)
    BY <2>5 DEF SeesServerDown
  <2>6. CASE SeesServerUp(c)
    BY <2>6 DEF SeesServerUp
  <2>7. CASE TimesOut(c)
    BY <2>7 DEF TimesOut
  <2>8. CASE ProbeFails(c)
    BY <2>8 DEF ProbeFails
  <2>. QED  BY <1>1, <2>1, <2>2, <2>3, <2>4, <2>5, <2>6, <2>7, <2>8 DEF Call
<1>2. CASE Kubelet
  BY <1>2 DEF Kubelet, KubeletReads, KubeletStops, KubeletStarts
<1>3. CASE Finished \/ UNCHANGED vars
  BY <1>3 DEF Finished, vars
<1>. QED  BY <1>1, <1>2, <1>3 DEF Next

\* No call has begun.
LEMMA InitEditInv == Init => EditInv
BY DEF Init, EditInv, Active

\* EditInv holds in every state.
LEMMA EditInvHolds == Spec => [](TypeOK /\ EditInv)
BY InitTypeOK, TypeOKStep, InitEditInv, EditInvStep, PTL DEF Spec

\* A step of the updater is an edit of the manifest by one call, or no edit.
LEMMA EditsStep == TypeOK /\ EditInv /\ [Next]_vars => [Edits!Next]_(Edits!vars)
<1>. SUFFICES ASSUME TypeOK, EditInv, [Next]_vars
              PROVE  Edits!Next \/ UNCHANGED <<manifest, written>>
  BY DEF Edits!vars
<1>1. ASSUME NEW c \in Calls, Call(c)
      PROVE  Edits!Next \/ UNCHANGED <<manifest, written>>
  <2>1. CASE WriteToContainerFS(c)
    BY <2>1 DEF WriteToContainerFS, EditInv, Edits!Next, Edits!Edit, Edits!Patched, Patched
  <2>2. CASE WriteFails(c)
    BY <2>2 DEF WriteFails, EditInv, Edits!Next, Edits!Edit, Edits!Patched, Patched
  <2>3. CASE ~WriteToContainerFS(c) /\ ~WriteFails(c)
    BY <1>1, <2>3 DEF Call, GetStaticPod, GetStaticPodFails, SeesServerDown,
                      SeesServerUp, TimesOut, ProbeFails
  <2>. QED  BY <2>1, <2>2, <2>3
<1>2. CASE Kubelet
  BY <1>2 DEF Kubelet, KubeletReads, KubeletStops, KubeletStarts
<1>3. CASE Finished \/ UNCHANGED vars
  BY <1>3 DEF Finished, vars
<1>. QED  BY <1>1, <1>2, <1>3 DEF Next

\* Reading the file out of the container and copying it back, with whatever
\* docker does to the two commands, implements an atomic edit of the file.
THEOREM UpdaterImplementsEdits == Spec => ImplementsManifestEdits
<1>1. Init => Edits!Init
  BY DEF Init, Edits!Init, Edits!InitialManifest, InitialManifest
<1>. QED  BY <1>1, EditInvHolds, EditsStep, PTL DEF Spec, ImplementsManifestEdits, Edits!Spec

\* Edits keep the aliases that have been written.
LEMMA NoAliasLostStep ==
  TypeOK /\ EditInv /\ NoAliasLost /\ [Next]_vars => NoAliasLost'
<1>. SUFFICES ASSUME TypeOK, EditInv, NoAliasLost, [Next]_vars PROVE NoAliasLost'
  OBVIOUS
<1>1. CASE UNCHANGED <<manifest, written>>
  BY <1>1 DEF NoAliasLost, Holds
<1>2. ASSUME NEW c \in Calls, Edits!Edit(c) PROVE NoAliasLost'
  <2>1. manifest \in Manifest /\ manifest' = Patched(manifest, c) /\ written' = written \cup {c}
    BY <1>2 DEF Edits!Edit, Edits!Patched, Patched, TypeOK
  <2>2. ASSUME NEW d \in written' \cap AliasCalls PROVE Holds(manifest', d)
    <3>1. CASE d = c
      BY <2>1, <3>1, PatchedHolds
    <3>2. CASE d # c
      <4>1. d \in written \cap AliasCalls /\ d \in Calls
        BY <2>1, <2>2, <3>2 DEF TypeOK
      <4>2. Holds(manifest, d)
        BY <4>1 DEF NoAliasLost
      <4>. QED  BY <2>1, <4>1, <4>2, PatchedKeepsAliases
    <3>. QED  BY <3>1, <3>2
  <2>. QED  BY <2>2 DEF NoAliasLost, Holds
<1>. QED  BY <1>1, <1>2, EditsStep DEF Edits!Next, Edits!vars

\* No host alias that was written is ever lost again, whatever fails or times
\* out in the calls in between.
THEOREM AliasesStay == Spec => []NoAliasLost
<1>1. Init => NoAliasLost
  BY DEF Init, NoAliasLost
<1>. QED  BY <1>1, EditInvHolds, NoAliasLostStep, PTL DEF Spec

-----------------------------------------------------------------------------
(* Restarts. *)

\* Where the kubelet is while a call runs, if it is faster than the timeout
\* and the docker CLI works: it has caught up before a call writes, and it
\* restarts the API server with the file of the call that waits for it.
RestartInv ==
  /\ \A c \in Calls :
       /\ pc[c] \in {"goDown", "comeBack"} => Holds(manifest, c)
       /\ pc[c] = "goDown" /\ (server = "down" \/ running # target) => target = manifest
       /\ pc[c] = "comeBack" => target = manifest /\ (server = "up" => running = target)
  /\ (\A c \in Calls : pc[c] \notin {"goDown", "comeBack"}) => Settled

\* A behaviour keeps its faults.
LEMMA FaultsStay == [Next]_vars => faults' = faults
BY DEF Next, Call, GetStaticPod, GetStaticPodFails, WriteToContainerFS, WriteFails,
       SeesServerDown, ProbeFails, SeesServerUp, TimesOut,
       Kubelet, KubeletReads, KubeletStops, KubeletStarts, Finished, vars

\* Nothing leaves a restart behind: the kubelet is fast, probes work, and the docker
\* CLI works, too, or at least no call has failed so far.
NoFailures  == faults \subseteq {"docker", "missed"} /\ \A c \in Calls : pc[c] # "failed"
Undisturbed == faults \subseteq {"missed"} \/ NoFailures

\* A call that has failed does not run again, and one that has started is not idle.
LEMMA CallsGoOn ==
  ASSUME TypeOK, [Next]_vars, NEW c \in Calls
  PROVE  /\ pc[c] = "failed" => pc'[c] = "failed"
         /\ pc'[c] = "idle" => pc[c] = "idle"
BY DEF TypeOK, To, Next, Call, GetStaticPod, GetStaticPodFails, WriteToContainerFS, WriteFails,
       SeesServerDown, ProbeFails, SeesServerUp, TimesOut, MayStart,
       Kubelet, KubeletReads, KubeletStops, KubeletStarts, Finished, vars

LEMMA UndisturbedBefore ==
  TypeOK /\ [Next]_vars => (NoFailures' => NoFailures) /\ (Undisturbed' => Undisturbed)
BY CallsGoOn, FaultsStay DEF NoFailures, Undisturbed

\* RestartInv is preserved.
LEMMA RestartInvStep ==
  ASSUME Undisturbed'
  PROVE  TypeOK /\ EditInv /\ RestartInv /\ [Next]_vars => RestartInv'
<1>. SUFFICES ASSUME TypeOK, EditInv, RestartInv, [Next]_vars PROVE RestartInv'
  OBVIOUS
<1>0. /\ faults \subseteq {"docker", "missed"}
      /\ "docker" \in faults => \A c \in Calls : pc'[c] # "failed"
  BY FaultsStay DEF Undisturbed, NoFailures
<1>. USE DEF TypeOK, RestartInv, To, Settled, kubelet
<1>1. ASSUME NEW c \in Calls, Call(c) PROVE RestartInv'
  <2>. USE DEF EditInv, Active
  <2>1. CASE GetStaticPod(c)
    BY <2>1 DEF GetStaticPod, MayStart, Holds
  <2>2. CASE GetStaticPodFails(c)
    BY <1>0, <2>2 DEF GetStaticPodFails
  <2>3. CASE WriteToContainerFS(c)
    <3>1. Settled /\ \A d \in Calls : d # c => pc[d] \notin {"goDown", "comeBack"}
      BY <2>3 DEF WriteToContainerFS
    <3>2. Holds(manifest', c)
      BY <2>3, PatchedHolds DEF WriteToContainerFS
    <3>3. Holds(manifest, c)'
      BY <3>2 DEF Holds
    <3>. QED  BY <2>3, <3>1, <3>3 DEF WriteToContainerFS
  <2>4. CASE WriteFails(c)
    BY <1>0, <2>4 DEF WriteFails
  <2>5. CASE SeesServerDown(c)
    BY <2>5 DEF SeesServerDown, Holds
  <2>6. CASE SeesServerUp(c)
    BY <2>6 DEF SeesServerUp, Holds
  <2>7. CASE TimesOut(c)
    BY <1>0, <2>7 DEF TimesOut, Holds
  <2>8. CASE ProbeFails(c)
    BY <1>0, <2>8 DEF ProbeFails, Holds
  <2>. QED  BY <1>1, <2>1, <2>2, <2>3, <2>4, <2>5, <2>6, <2>7, <2>8 DEF Call
<1>2. CASE KubeletReads
  BY <1>2 DEF KubeletReads, Holds
<1>3. CASE KubeletStops
  BY <1>3 DEF KubeletStops, Holds
<1>4. CASE KubeletStarts
  BY <1>4 DEF KubeletStarts, Holds
<1>5. CASE Finished \/ UNCHANGED vars
  BY <1>5 DEF Finished, vars, Holds
<1>. QED  BY <1>1, <1>2, <1>3, <1>4, <1>5 DEF Next, Kubelet

\* RestartInv holds as long as nothing leaves a restart behind.
RestartsInTime == Undisturbed => RestartInv

\* It holds initially and is preserved.
LEMMA RestartsInTimeHolds == Spec => [](TypeOK /\ EditInv /\ RestartsInTime)
<1>1. Init => RestartsInTime
  BY DEF Init, RestartsInTime, RestartInv, Settled
<1>2. TypeOK /\ EditInv /\ RestartsInTime /\ [Next]_vars => RestartsInTime'
  BY RestartInvStep, UndisturbedBefore DEF RestartsInTime
<1>. QED  BY <1>1, <1>2, EditInvHolds, PTL DEF Spec

\* A call that returns without error has seen the server up: in time, with its file.
LEMMA ServedStep ==
  ASSUME TypeOK, RestartsInTime, [Next]_vars, faults \subseteq {"missed"}, NEW c \in Calls
  PROVE  Served(c)
<1>. SUFFICES ASSUME pc[c] # "ok", pc'[c] = "ok" PROVE Holds(running, c)
  BY DEF Served
<1>1. SeesServerUp(c)
  <2>1. ASSUME NEW d \in Calls, Call(d) PROVE SeesServerUp(c)
    BY <2>1 DEF TypeOK, Call, GetStaticPod, GetStaticPodFails, WriteToContainerFS,
                WriteFails, SeesServerDown, SeesServerUp, TimesOut, ProbeFails, To
  <2>2. ASSUME UNCHANGED pc PROVE FALSE
    BY <2>2
  <2>. QED  BY <2>1, <2>2 DEF Next, Kubelet, KubeletReads, KubeletStops,
                              KubeletStarts, Finished, vars
<1>2. running = manifest /\ Holds(manifest, c)
  BY <1>1 DEF SeesServerUp, RestartsInTime, Undisturbed, RestartInv
<1>. QED  BY <1>2

\* When the docker CLI works and the kubelet is faster than the timeout, a call
\* that returns without error has seen the API server restart with its change.
\* Neither condition can be dropped: a failing probe counts as an outage, and the
\* restart for a call that has timed out as that for the next one.
THEOREM SuccessServed == Spec => SuccessMeansServed
<1>. DEFINE AllServed == faults \subseteq {"missed"} => \A c \in Calls : Served(c)
<1>1. TypeOK /\ RestartsInTime /\ [Next]_vars => AllServed
  BY ServedStep
<1>. QED  BY <1>1, RestartsInTimeHolds, PTL DEF Spec, SuccessMeansServed

-----------------------------------------------------------------------------
(* Changes. *)

\* Without faults the server runs with what the waiting call has read until that
\* call sees it down, and it only goes down if the call has changed the file.
Changes(c) == Patched(pod[c], c) # pod[c]

ChangeInv ==
  \A c \in Calls :
    /\ pc[c] = "goDown" =>
         /\ manifest = Patched(pod[c], c) /\ running = pod[c]
         /\ server = "down" => running # manifest
    /\ pc[c] = "comeBack" => Changes(c)
    /\ Over(c) => (pc[c] = "ok" <=> Changes(c))

\* ChangeInv is preserved, first by the call that changes its own part of it ...
LEMMA ChangeInvCall ==
  ASSUME faults = {}, TypeOK, EditInv, RestartInv, ChangeInv,
         NEW c \in Calls, Call(c)
  PROVE  ChangeInv'
<1>. DEFINE Part(d) ==
       /\ pc[d] = "goDown" =>
            /\ manifest = Patched(pod[d], d) /\ running = pod[d]
            /\ server = "down" => running # manifest
       /\ pc[d] = "comeBack" => Changes(d)
       /\ Over(d) => (pc[d] = "ok" <=> Changes(d))
<1>. USE DEF TypeOK, To, kubelet, Over
<1>1. ASSUME NEW d \in Calls, d # c PROVE Part(d)'
  <2>1. Part(d) /\ pc'[d] = pc[d] /\ pod'[d] = pod[d]
    BY <1>1 DEF ChangeInv, Call, GetStaticPod, GetStaticPodFails, WriteToContainerFS,
                WriteFails, SeesServerDown, ProbeFails, SeesServerUp, TimesOut
  <2>2. pc[d] = "goDown" => manifest' = manifest
    BY <1>1 DEF EditInv, Active, Call, GetStaticPod, GetStaticPodFails, WriteToContainerFS,
                WriteFails, SeesServerDown, ProbeFails, SeesServerUp, TimesOut
  <2>3. UNCHANGED <<running, server>>
    BY DEF Call, GetStaticPod, GetStaticPodFails, WriteToContainerFS,
           WriteFails, SeesServerDown, ProbeFails, SeesServerUp, TimesOut
  <2>. QED  BY <2>1, <2>2, <2>3 DEF Changes, Patched
<1>2. Part(c)'
  <2>. USE DEF Changes, Patched
  <2>0. Part(c)
    BY DEF ChangeInv
  <2>1. CASE GetStaticPod(c)
    BY <2>1 DEF GetStaticPod
  <2>2. CASE WriteToContainerFS(c)
    <3>1. Settled /\ pod[c] = manifest
      BY <2>2 DEF WriteToContainerFS, EditInv, Active, RestartInv
    <3>. QED  BY <2>2, <3>1 DEF WriteToContainerFS, Settled
  <2>3. CASE SeesServerDown(c)
    BY <2>0, <2>3 DEF SeesServerDown
  <2>4. CASE SeesServerUp(c)
    BY <2>0, <2>4 DEF SeesServerUp
  <2>5. CASE TimesOut(c)
    BY <2>0, <2>5 DEF TimesOut, Settled
  <2>6. CASE GetStaticPodFails(c) \/ WriteFails(c) \/ ProbeFails(c)
    BY <2>6 DEF GetStaticPodFails, WriteFails, ProbeFails
  <2>. QED  BY <2>1, <2>2, <2>3, <2>4, <2>5, <2>6 DEF Call
<1>. QED  BY <1>1, <1>2 DEF ChangeInv

\* ... and by the kubelet, which has nothing to do for an unchanged file.
LEMMA ChangeInvStep ==
  ASSUME faults = {}, TypeOK, EditInv, RestartInv, ChangeInv, [Next]_vars
  PROVE  ChangeInv'
<1>. USE DEF TypeOK, RestartInv, ChangeInv, Over, Changes, Patched
<1>1. CASE KubeletReads
  BY <1>1 DEF KubeletReads
<1>2. CASE KubeletStops
  BY <1>2 DEF KubeletStops
<1>3. CASE KubeletStarts
  BY <1>3 DEF KubeletStarts
<1>4. CASE Finished \/ UNCHANGED vars
  BY <1>4 DEF Finished, vars, kubelet
<1>5. ASSUME NEW c \in Calls, Call(c) PROVE ChangeInv'
  BY <1>5, ChangeInvCall
<1>. QED  BY <1>1, <1>2, <1>3, <1>4, <1>5 DEF Next, Kubelet

\* Without faults a call of AddHostAlias or AddNameserver succeeds exactly if it
\* changes the manifest: waitForRestart neither takes another restart for that of
\* its call nor misses it, and without a change it ends with its timeout.
THEOREM SuccessIffChanged == Spec => []SucceedsIffChanged
<1>. DEFINE Inv == faults = {} => ChangeInv
<1>1. Init => Inv
  BY DEF Init, ChangeInv, Over
<1>2. TypeOK /\ EditInv /\ RestartsInTime /\ Inv /\ [Next]_vars => Inv'
  BY ChangeInvStep, FaultsStay DEF RestartsInTime, Undisturbed
<1>3. Inv => SucceedsIffChanged
  BY DEF ChangeInv, SucceedsIffChanged, Changes
<1>. QED  BY <1>1, <1>2, <1>3, RestartsInTimeHolds, PTL DEF Spec
-----------------------------------------------------------------------------
(* What stays known. *)

\* No call that has started replaces what call c has added.
Stays(c) == \A d \in Calls \ AliasCalls : d # c /\ c \notin AliasCalls => pc[d] = "idle"

\* What a call has been served with is in the file, with the kubelet, and in the API
\* server, until another nameserver replaces it.
KnownInv ==
  NoFailures =>
    \A c \in Calls : pc[c] = "ok" /\ Stays(c) =>
      Holds(manifest, c) /\ Holds(target, c) /\ Holds(running, c)

\* An edit keeps what it does not replace.
LEMMA PatchedKeeps ==
  ASSUME NEW m \in Manifest, NEW c \in Calls, NEW d \in Calls,
         c \in AliasCalls \/ d \in AliasCalls, Holds(m, d)
  PROVE  Holds(Patched(m, c), d)
<1>1. CASE d \in AliasCalls
  BY <1>1, PatchedKeepsAliases
<1>2. CASE d \notin AliasCalls
  BY <1>2 DEF Holds, Patched, Manifest
<1>. QED  BY <1>1, <1>2

\* KnownInv is preserved, first by the calls ...
LEMMA KnownInvCall ==
  ASSUME TypeOK, EditInv, RestartsInTime, KnownInv, NoFailures, NoFailures',
         NEW c \in Calls, Call(c), NEW d \in Calls, pc'[d] = "ok", Stays(d)'
  PROVE  Holds(manifest', d) /\ Holds(target', d) /\ Holds(running', d)
<1>. USE DEF TypeOK, To, kubelet
<1>0. RestartInv /\ "probe" \notin faults /\ "slow" \notin faults /\ pc'[c] # "failed"
  BY DEF RestartsInTime, Undisturbed, NoFailures
<1>1. target' = target /\ running' = running
  BY DEF Call, GetStaticPod, GetStaticPodFails, WriteToContainerFS, WriteFails,
         SeesServerDown, ProbeFails, SeesServerUp, TimesOut
<1>2. CASE d = c
  <2>1. SeesServerUp(c)
    BY <1>2 DEF Call, GetStaticPod, GetStaticPodFails, WriteToContainerFS, WriteFails,
                SeesServerDown, ProbeFails, SeesServerUp, TimesOut
  <2>2. Holds(manifest, c) /\ target = manifest /\ running = target
    BY <1>0, <2>1 DEF SeesServerUp, RestartInv
  <2>. QED  BY <1>2, <2>1, <2>2 DEF SeesServerUp
<1>3. CASE d # c
  <2>1. pc[d] = "ok" /\ pc[c] # "ok" /\ pc'[c] # "idle"
    BY <1>3 DEF Call, GetStaticPod, GetStaticPodFails, WriteToContainerFS, WriteFails,
                SeesServerDown, ProbeFails, SeesServerUp, TimesOut, MayStart
  <2>2. c \in AliasCalls \/ d \in AliasCalls
    BY <1>3, <2>1 DEF Stays
  <2>3. Stays(d)
    BY CallsGoOn DEF Stays, Next
  <2>4. Holds(manifest, d) /\ Holds(target, d) /\ Holds(running, d)
    BY <2>1, <2>3 DEF KnownInv
  <2>5. manifest' = manifest \/ (pod[c] = manifest /\ manifest' = Patched(manifest, c))
    BY DEF Call, EditInv, GetStaticPod, GetStaticPodFails, WriteToContainerFS, WriteFails,
           SeesServerDown, ProbeFails, SeesServerUp, TimesOut
  <2>. QED  BY <1>1, <2>2, <2>4, <2>5, PatchedKeeps
<1>. QED  BY <1>2, <1>3

\* ... and by the kubelet, which only passes on what is in the file.
LEMMA KnownInvStep ==
  ASSUME TypeOK, EditInv, RestartsInTime, KnownInv, [Next]_vars
  PROVE  KnownInv'
<1>. SUFFICES ASSUME NoFailures', NEW d \in Calls, pc'[d] = "ok", Stays(d)'
              PROVE  Holds(manifest', d) /\ Holds(target', d) /\ Holds(running', d)
  BY DEF KnownInv, Holds
<1>0. NoFailures
  BY UndisturbedBefore
<1>1. ASSUME NEW c \in Calls, Call(c)
      PROVE  Holds(manifest', d) /\ Holds(target', d) /\ Holds(running', d)
  BY <1>0, <1>1, KnownInvCall
<1>2. CASE Kubelet \/ Finished \/ UNCHANGED vars
  <2>1. pc' = pc /\ manifest' = manifest
        /\ target' \in {target, manifest} /\ running' \in {running, target}
    BY <1>2 DEF Kubelet, KubeletReads, KubeletStops, KubeletStarts, Finished, vars, kubelet
  <2>2. Stays(d)
    BY <2>1 DEF Stays
  <2>3. Holds(manifest, d) /\ Holds(target, d) /\ Holds(running, d)
    BY <1>0, <2>1, <2>2 DEF KnownInv
  <2>. QED  BY <2>1, <2>3
<1>. QED  BY <1>1, <1>2 DEF Next

(* All of it, for the specifications that use the updater. *)

UpdaterInv ==
  TypeOK /\ EditInv /\ RestartsInTime /\ (faults = {} => ChangeInv) /\ KnownInv

LEMMA InitUpdaterInv == Init => UpdaterInv
<1>. SUFFICES ASSUME Init PROVE UpdaterInv
  OBVIOUS
<1>1. \A c \in Calls : pc[c] = "idle"
  BY DEF Init
<1>2. RestartsInTime
  BY DEF Init, RestartsInTime, RestartInv, Settled
<1>3. ChangeInv /\ KnownInv
  BY <1>1 DEF ChangeInv, Over, KnownInv
<1>. QED  BY <1>2, <1>3, InitTypeOK, InitEditInv DEF UpdaterInv

LEMMA UpdaterInvStep == UpdaterInv /\ [Next]_vars => UpdaterInv'
<1>. SUFFICES ASSUME UpdaterInv, [Next]_vars PROVE UpdaterInv'
  OBVIOUS
<1>1. TypeOK' /\ EditInv'
  BY TypeOKStep, EditInvStep DEF UpdaterInv
<1>2. RestartsInTime'
  BY RestartInvStep, UndisturbedBefore DEF UpdaterInv, RestartsInTime
<1>3. faults' = {} => ChangeInv'
  BY ChangeInvStep, FaultsStay DEF UpdaterInv, RestartsInTime, Undisturbed
<1>4. KnownInv'
  BY KnownInvStep DEF UpdaterInv
<1>. QED  BY <1>1, <1>2, <1>3, <1>4 DEF UpdaterInv

\* Without faults a call that changes the file does not wait in vain.
LEMMA ChangeRestarts ==
  ASSUME UpdaterInv, faults = {}, NEW c \in Calls, Changes(c), pc[c] = "goDown"
  PROVE  ~Settled
BY DEF UpdaterInv, ChangeInv, Changes, Settled
=============================================================================
