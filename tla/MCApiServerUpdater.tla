-------------------------- MODULE MCApiServerUpdater --------------------------
(***************************************************************************)
(* Instances of ApiServerUpdater for TLC: two host aliases and one or two  *)
(* nameservers.                                                            *)
(***************************************************************************)
EXTENDS ApiServerUpdater, TLC

CONSTANTS alias1, alias2, nameserver1, nameserver2, host1, host2, ip1

\* The second alias and the second nameserver repeat the first.
MCRetries == (alias1 :> host1) @@ (alias2 :> host1)
               @@ (nameserver1 :> ip1) @@ (nameserver2 :> ip1)

MCTwoAliases == (alias1 :> host1) @@ (alias2 :> host2)
=============================================================================
