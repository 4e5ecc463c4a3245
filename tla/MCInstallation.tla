---------------------------- MODULE MCInstallation ----------------------------
(***************************************************************************)
(* Instances of Installation for TLC: three documents, the second one of a *)
(* type that is defined by the service, and reports in which Ready comes   *)
(* late, first, last, twice, without a status, or not at all.              *)
(***************************************************************************)
EXTENDS Installation

CONSTANTS d1, d2, d3

MCDocuments == <<d1, d2, d3>>

Is(type, status) == [type |-> type, status |-> status]

MCHistories ==
  { << <<Is("Synced", "True"), Is("Ready", "False")>>,
       <<Is("Synced", "False"), Is("Ready", "True")>> >>,
    << << >>, <<Is("Ready", "True"), Is("Synced", "False")>> >>,
    << <<Is("Ready", "True"), Is("Ready", "False")>>,
       <<Is("Ready", "False"), Is("Ready", "True")>> >>,
    << <<Is("Synced", NoStatus)>>, <<Is("Synced", "True"), Is("Ready", NoStatus)>>,
       <<Is("Ready", "True")>> >>,
    << << >> >> }
=============================================================================
