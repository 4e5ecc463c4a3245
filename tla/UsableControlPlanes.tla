-------------------------- MODULE UsableControlPlanes --------------------------
(***************************************************************************)
(* What a test may rely on when it works with control planes, without      *)
(* saying how: a control plane that it has got has a cluster of its own,   *)
(* keeps that one until the test gives one of the two up, and is what an   *)
(* import that names it ends up in.                                        *)
(***************************************************************************)
CONSTANTS MCPs, Clusters, NoCluster

VARIABLES
  home,     \* the cluster of each MCP the test has got
  imported  \* where the last call has imported objects to, for such an MCP

vars == <<home, imported>>

Init == home = [m \in {} |-> NoCluster] /\ imported = NoCluster

\* A call that is about no MCP the test has got.
Call == imported' = NoCluster /\ UNCHANGED home

\* The test gets an MCP, with a cluster that no other one has.
Obtain(m, k) ==
  /\ m \notin DOMAIN home
  /\ \A n \in DOMAIN home : home[n] # k
  /\ home' = [n \in DOMAIN home \cup {m} |-> IF n = m THEN k ELSE home[n]]
  /\ UNCHANGED imported

Import(m) ==
  /\ imported' = home[m]
  /\ UNCHANGED home

\* The test asks for the deletion of the MCP or of its cluster.  Never more than
\* one is lost.
GiveUp(m) ==
  /\ home' = [n \in DOMAIN home \ {m} |-> home[n]]
  /\ imported' = NoCluster

Next ==
  \/ Call
  \/ \E m \in MCPs, k \in Clusters : Obtain(m, k)
  \/ \E m \in DOMAIN home : Import(m) \/ GiveUp(m)

Spec == Init /\ [][Next]_vars
=============================================================================
