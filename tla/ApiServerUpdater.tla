--------------------------- MODULE ApiServerUpdater ---------------------------
(***************************************************************************)
(* The Updater of the kube-apiserver's static pod manifest in a kind       *)
(* control plane container.  A call reads the manifest out of the          *)
(* container, changes it, copies it back, and polls /livez until the API   *)
(* server has been down and is up again.  Meanwhile the kubelet notices    *)
(* the changed file and restarts the API server with it.                   *)
(*                                                                         *)
(* A call runs once; a retry is another call with the same value.          *)
(***************************************************************************)
EXTENDS Manifests

CONSTANTS
  Faults  \* "docker": the docker CLI fails, "probe": it fails while polling,
          \* "missed": the server is back before a poll sees it down,
          \* "slow": the kubelet needs longer than the timeout

ASSUME FaultsAssumption == Faults \subseteq {"docker", "probe", "missed", "slow"}

VARIABLES
  faults,    \* the faults of this behaviour
  manifest,  \* the manifest file in the container
  target,    \* the manifest the kubelet has read last
  running,   \* the manifest the API server was started with
  server,    \* "up" or "down"
  pc,        \* where each call is
  pod,       \* the manifest each call has read
  written    \* the calls that have replaced the file

kubelet == <<target, running, server>>
vars    == <<faults, manifest, kubelet, pc, pod, written>>

Active(c) == pc[c] \in {"write", "goDown", "comeBack"}
Over(c)   == pc[c] \in {"ok", "failed"}

\* The kubelet has nothing left to do.
Settled == server = "up" /\ running = target /\ target = manifest

-----------------------------------------------------------------------------
Init ==
  /\ faults \in SUBSET Faults
  /\ manifest = InitialManifest
  /\ target = InitialManifest
  /\ running = InitialManifest
  /\ server = "up"
  /\ pc = [c \in Calls |-> "idle"]
  /\ pod = [c \in Calls |-> InitialManifest]
  /\ written = {}

To(c, p) == pc' = [pc EXCEPT ![c] = p]

\* The calls are synchronous: one starts when no other one runs.
MayStart(c) == pc[c] = "idle" /\ \A d \in Calls : ~Active(d)

GetStaticPod(c) ==
  /\ MayStart(c)
  /\ pod' = [pod EXCEPT ![c] = manifest]
  /\ To(c, "write")
  /\ UNCHANGED <<faults, manifest, kubelet, written>>

\* Variant with a bug: the error is dropped and the empty pod is used.
UsesEmptyPod(c) ==
  /\ "docker" \in faults /\ MayStart(c)
  /\ pod' = [pod EXCEPT ![c] = NoValue]
  /\ To(c, "write")
  /\ UNCHANGED <<faults, manifest, kubelet, written>>

GetStaticPodFails(c) ==
  /\ "docker" \in faults /\ MayStart(c)
  /\ To(c, "failed")
  /\ UNCHANGED <<faults, manifest, kubelet, pod, written>>

\* Variants with a bug: the pod is built from the manifest a new cluster has;
\* it is written back as it was read.
WriteFreshPod(c) ==
  /\ pc[c] = "write"
  /\ manifest' = Patched(InitialManifest, c)
  /\ written' = written \cup {c}
  /\ To(c, "goDown")
  /\ UNCHANGED <<faults, kubelet, pod>>

WriteUnchangedPod(c) ==
  /\ pc[c] = "write"
  /\ manifest' = pod[c]
  /\ written' = written \cup {c}
  /\ To(c, "goDown")
  /\ UNCHANGED <<faults, kubelet, pod>>

WriteToContainerFS(c) ==
  /\ pc[c] = "write"
  /\ manifest' = Patched(pod[c], c)
  /\ written' = written \cup {c}
  /\ To(c, "goDown")
  /\ UNCHANGED <<faults, kubelet, pod>>

\* docker cp reports a failure, before or after it replaced the file.
WriteFails(c) ==
  /\ "docker" \in faults /\ pc[c] = "write"
  /\ \/ UNCHANGED <<manifest, written>>
     \/ /\ manifest' = Patched(pod[c], c)
        /\ written' = written \cup {c}
  /\ To(c, "failed")
  /\ UNCHANGED <<faults, kubelet, pod>>

\* Variant with a bug: the first loop does not wait for the server to go down.
SeesAnything(c) ==
  /\ pc[c] = "goDown"
  /\ To(c, "comeBack")
  /\ UNCHANGED <<faults, manifest, kubelet, pod, written>>

\* The first loop of waitForRestart.
SeesServerDown(c) ==
  /\ pc[c] = "goDown"
  /\ server = "down"
  /\ To(c, "comeBack")
  /\ UNCHANGED <<faults, manifest, kubelet, pod, written>>

\* A probe that fails although the server is up counts as "down".
ProbeFails(c) ==
  /\ "probe" \in faults /\ pc[c] = "goDown" /\ server = "up"
  /\ To(c, "comeBack")
  /\ UNCHANGED <<faults, manifest, kubelet, pod, written>>

\* The second loop.
SeesServerUp(c) ==
  /\ pc[c] = "comeBack"
  /\ server = "up"
  /\ To(c, "ok")
  /\ UNCHANGED <<faults, manifest, kubelet, pod, written>>

\* Variant with a bug: only the second loop looks at the clock.
SecondLoopTimesOut(c) ==
  /\ pc[c] = "comeBack"
  /\ "slow" \in faults
  /\ To(c, "failed")
  /\ UNCHANGED <<faults, manifest, kubelet, pod, written>>

\* The deadline both loops share passes: the kubelet is slow, the probes of the
\* second loop fail, or the kubelet has nothing (more) to do and the server will
\* not go down.
TimesOut(c) ==
  /\ \/ pc[c] \in {"goDown", "comeBack"} /\ "slow" \in faults
     \/ pc[c] = "comeBack" /\ "probe" \in faults
     \/ pc[c] = "goDown" /\ Settled
  /\ To(c, "failed")
  /\ UNCHANGED <<faults, manifest, kubelet, pod, written>>

(***************************************************************************)
(* The kubelet (not part of this repository).                              *)
(***************************************************************************)
KubeletReads ==
  /\ target # manifest
  /\ target' = manifest
  /\ UNCHANGED <<faults, manifest, running, server, pc, pod, written>>

KubeletStops ==
  /\ server = "up" /\ running # target
  /\ server' = "down"
  /\ UNCHANGED <<faults, manifest, target, running, pc, pod, written>>

\* A start takes longer than a poll interval, unless outages are missed.
KubeletStarts ==
  /\ server = "down"
  /\ "missed" \in faults \/ \A c \in Calls : pc[c] # "goDown"
  /\ server' = "up" /\ running' = target
  /\ UNCHANGED <<faults, manifest, target, pc, pod, written>>

-----------------------------------------------------------------------------
Call(c) ==
  \/ GetStaticPod(c) \/ GetStaticPodFails(c)
  \/ WriteToContainerFS(c) \/ WriteFails(c)
  \/ SeesServerDown(c) \/ ProbeFails(c) \/ SeesServerUp(c) \/ TimesOut(c)

Kubelet == KubeletReads \/ KubeletStops \/ KubeletStarts

Finished == (\A c \in Calls : Over(c)) /\ Settled /\ UNCHANGED vars

Next == (\E c \in Calls : Call(c)) \/ Kubelet \/ Finished

\* Every call that was started goes on polling, whether or not a probe fails, and
\* the kubelet runs.
Spec ==
  /\ Init /\ [][Next]_vars
  /\ \A c \in Calls : WF_vars(Call(c) /\ ~ProbeFails(c))
  /\ WF_vars(Kubelet)

-----------------------------------------------------------------------------
TypeOK ==
  /\ faults \subseteq Faults
  /\ manifest \in Manifest /\ target \in Manifest /\ running \in Manifest
  /\ server \in {"up", "down"}
  /\ pc \in [Calls -> {"idle", "write", "goDown", "comeBack", "ok", "failed"}]
  /\ pod \in [Calls -> Manifest]
  /\ written \in SUBSET Calls

\* Calls one after the other lose nothing: every host alias that was written
\* is still in the file, whatever failed or timed out in between.
NoAliasLost == \A c \in written \cap AliasCalls : Holds(manifest, c)

\* Call c returns without error only when the API server has been started with
\* a manifest that holds the addition.
Served(c) == pc[c] # "ok" /\ pc'[c] = "ok" => Holds(running, c)

\* The call that returns without error has recognised its own restart, if docker
\* and the probes work and the kubelet is faster than the timeout; it may miss
\* that restart, but not take another one for it.
SuccessMeansServed == [][faults \subseteq {"missed"} => \A c \in Calls : Served(c)]_vars

\* Without faults a call succeeds if and only if it adds something new: each one
\* recognises its own restart, and one that repeats the nameserver in the file
\* waits in vain for a restart.
SucceedsIffChanged ==
  faults = {} => \A c \in Calls : Over(c) => (pc[c] = "ok" <=> Patched(pod[c], c) # pod[c])

\* Every call returns, with success or an error: the deadline ends a wait for
\* an outage that has been missed or never comes.
CallsReturn == \A c \in Calls : <>Over(c)

Edits == INSTANCE ManifestEdits WITH edited <- written

\* Reading the file and copying it back amounts to one atomic edit.
ImplementsManifestEdits == Edits!Spec

(***************************************************************************)
(* A statement of the source that the code does not keep.                  *)
(***************************************************************************)
\* updater.go:76-77: a call "adds the given hostname -> ip mapping [...] to the
\* kube-apiserver manifest [...] and waits for the kubelet to restart the API
\* server".
SuccessMeansRestarted == [][\A c \in Calls : Served(c)]_vars
=============================================================================
