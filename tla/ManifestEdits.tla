----------------------------- MODULE ManifestEdits -----------------------------
(***************************************************************************)
(* What the Updater promises about the manifest, without saying how: each  *)
(* call edits it in one step, at most once, and nothing else touches it.   *)
(***************************************************************************)
EXTENDS Manifests

VARIABLES
  manifest,  \* the manifest
  edited     \* the calls whose edit has been made

vars == <<manifest, edited>>

Init == manifest = InitialManifest /\ edited = {}

Edit(c) ==
  /\ c \notin edited
  /\ manifest' = Patched(manifest, c)
  /\ edited' = edited \cup {c}

Next == \E c \in Calls : Edit(c)

Spec == Init /\ [][Next]_vars
=============================================================================
