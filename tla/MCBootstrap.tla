----------------------------- MODULE MCBootstrap -----------------------------
(***************************************************************************)
(* Instances of Bootstrap for TLC: the slices of a setup and the cluster   *)
(* requests of the onboarding cluster and of an MCP, which get a cluster   *)
(* each or share one.                                                      *)
(***************************************************************************)
EXTENDS Bootstrap, TLC

CONSTANTS kind, gardener, gateway, dns, crossplane, flux, onboarding, mcp, oc, mc

MCKindOnly == <<kind>>
MCKindSecond == <<gardener, kind>>
MCOneService == <<gateway>>
MCNoService == << >>
MCTwoServices == <<gateway, dns>>
MCServiceProviders == <<crossplane>>
MCExtensions == <<flux>>
MCOwnClusters == (onboarding :> oc) @@ (mcp :> mc)
MCSharedCluster == (onboarding :> oc) @@ (mcp :> oc)
=============================================================================
