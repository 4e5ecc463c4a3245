------------------------------- MODULE Manifests -------------------------------
(***************************************************************************)
(* The part of the kube-apiserver's static pod manifest that the Updater   *)
(* edits, and what one call does to it.                                    *)
(***************************************************************************)
EXTENDS Naturals, Sequences

CONSTANTS
  Calls,       \* the calls of AddHostAlias and AddNameserver
  AliasCalls,  \* those of AddHostAlias
  ValueOf,     \* the mapping or the nameserver a call adds
  NoValue      \* the cluster's own DNS policy

Values == {ValueOf[c] : c \in Calls}

ASSUME CallsAssumption ==
  /\ AliasCalls \subseteq Calls
  /\ ValueOf \in [Calls -> Values]

Manifest == [hostAliases : Seq(Values), nameserver : Values \cup {NoValue}]

InitialManifest == [hostAliases |-> << >>, nameserver |-> NoValue]

\* A host alias is appended to the list, the nameserver replaces the old one.
Patched(m, c) ==
  IF c \in AliasCalls
  THEN [m EXCEPT !.hostAliases = Append(@, ValueOf[c])]
  ELSE [m EXCEPT !.nameserver = ValueOf[c]]

\* Manifest m holds what call c adds.
Holds(m, c) ==
  IF c \in AliasCalls
  THEN \E i \in 1..Len(m.hostAliases) : m.hostAliases[i] = ValueOf[c]
  ELSE m.nameserver = ValueOf[c]
=============================================================================
