---------------------------- MODULE MCControlPlanes ----------------------------
(***************************************************************************)
(* Instances of ControlPlanes for TLC.  The name of cluster c11 starts     *)
(* with that of c1; kind lists clusters in alphabetical order.             *)
(***************************************************************************)
EXTENDS ControlPlanes, TLC

CONSTANTS c1, c11, c2

MCListing == <<c1, c11, c2>>
MCStartsWith == (c1 :> {c1, c11}) @@ (c11 :> {c11}) @@ (c2 :> {c2})
=============================================================================
