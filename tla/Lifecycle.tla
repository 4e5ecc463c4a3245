------------------------------ MODULE Lifecycle ------------------------------
(***************************************************************************)
(* What Bootstrap promises a test suite, without saying how: components    *)
(* are brought up tier by tier from the bottom, the tests start only when  *)
(* every component has been brought up, whatever went wrong before the     *)
(* end every component is taken down (or given up on) tier by tier from    *)
(* the top, and only then is the environment over.  (That it comes to this *)
(* is a promise of its own: CleanupAlwaysEnds of Bootstrap.)               *)
(***************************************************************************)
EXTENDS Naturals

CONSTANTS
  Components,
  Tier         \* a number for each component

VARIABLES
  stage,   \* "setup", "test", "cleanup" or "over"
  handled  \* the components this stage has finished with

vars == <<stage, handled>>

TypeOK ==
  /\ stage \in {"setup", "test", "cleanup", "over"}
  /\ handled \in SUBSET Components

Init == stage = "setup" /\ handled = {}

\* Bring up a component when everything in the tiers below it is up.
BringUp(c) ==
  /\ stage = "setup"
  /\ c \notin handled
  /\ \A d \in Components : Tier[d] < Tier[c] => d \in handled
  /\ handled' = handled \cup {c}
  /\ UNCHANGED stage

StartTests ==
  /\ stage = "setup"
  /\ handled = Components
  /\ stage' = "test"
  /\ handled' = {}

\* A setup that fails and a test run that ends both lead to the cleanup.
StartCleanup ==
  /\ stage \in {"setup", "test"}
  /\ stage' = "cleanup"
  /\ handled' = {}

\* Take a component down when everything in the tiers above it was taken down.
TakeDown(c) ==
  /\ stage = "cleanup"
  /\ c \notin handled
  /\ \A d \in Components : Tier[d] > Tier[c] => d \in handled
  /\ handled' = handled \cup {c}
  /\ UNCHANGED stage

Finish ==
  /\ stage = "cleanup"
  /\ handled = Components
  /\ stage' = "over"
  /\ handled' = {}

Next ==
  \/ \E c \in Components : BringUp(c) \/ TakeDown(c)
  \/ StartTests
  \/ StartCleanup
  \/ Finish

Spec == Init /\ [][Next]_vars
=============================================================================
