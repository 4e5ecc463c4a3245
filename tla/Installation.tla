----------------------------- MODULE Installation -----------------------------
(***************************************************************************)
(* The calls that install a list of documents, and what they wait for:     *)
(*   - InstallPlatformService creates the service's object, imports the    *)
(*     documents of its directory, if it has one, again and again until an *)
(*     attempt succeeds, and waits for the condition Ready of the object;  *)
(*     without documents it is InstallServiceProvider;                     *)
(*   - ImportServiceProviderAPIs imports documents into the onboarding     *)
(*     cluster, once;                                                      *)
(*   - Install of the FluxCD extension creates the documents of Flux, once *)
(*     each, and RegisterSchemes follows.                                  *)
(* An attempt stops at the first document that cannot be created; those    *)
(* that exist are passed over.  Meanwhile the service's controller defines *)
(* the types of some documents and reports conditions.                     *)
(***************************************************************************)
EXTENDS Conditions

CONSTANTS
  Documents,   \* the documents of a directory or of Flux, in their order
  Unknown,     \* those whose types the API server has to discover first
  Histories,   \* what a controller reports of the service, one report after another
  MaxErrors,   \* bound: calls that fail for a passing reason
  Faults       \* "api": calls fail, "lost": the answer to a creation gets lost,
               \* "timeout": waits expire

ASSUME DocumentsAssumption ==
  /\ Documents \in Seq(ToSet(Documents)) \ {<< >>}
  /\ IsInjective(Documents) /\ Unknown \subseteq ToSet(Documents)
ASSUME HistoriesAssumption == \A h \in Histories : h \in Seq(Report) /\ h # << >>
ASSUME FaultsAssumption == Faults \subseteq {"api", "lost", "timeout"} /\ MaxErrors \in Nat

VARIABLES
  faults, waitOpts, caller, order,  \* of this behaviour; order: the documents
  step, doc,   \* the next step of the call; in "create" the document it is at
  errors,      \* calls that have failed so far
  service,     \* the object of the service exists
  present,     \* the documents whose objects exist
  discovered,  \* the types in Unknown are known
  history      \* the report on the service and the ones to come

given == <<faults, waitOpts, caller, order>>
vars  == <<given, step, doc, errors, service, present, discovered, history>>

Callers == {"InstallPlatformService", "ImportServiceProviderAPIs", "FluxCD"}

\* Where a call begins, and where it is after its import.
First == CASE caller = "InstallPlatformService"    -> "createService"
           [] caller = "ImportServiceProviderAPIs" -> "findCluster"
           [] caller = "FluxCD"                    -> "create"

Imported == CASE caller = "InstallPlatformService"    -> "match"
              [] caller = "ImportServiceProviderAPIs" -> "done"
              [] caller = "FluxCD"                    -> "registerSchemes"

\* The step that follows another one.  Without options an import does not wait for
\* its objects.
Follows ==
  [createService |-> IF order = << >> THEN Imported ELSE "create",
   findCluster |-> "create",
   create |-> IF waitOpts /\ caller # "FluxCD" THEN "await" ELSE Imported,
   await |-> Imported, match |-> "done", registerSchemes |-> "done"]

Over == step \in {"done", "failed", "panic"}

\* The call goes on from step s to the next one.
After(s) ==
  /\ step = s /\ step' = Follows[s]
  /\ doc' = 1

\* A call fails, with "api" or "lost", for a reason that will pass.
Fault(f) == f \in faults /\ errors < MaxErrors /\ errors' = errors + 1

\* The import ends with an error, which is retried or returned.
AttemptFails ==
  IF caller = "InstallPlatformService" THEN step' = "create" /\ doc' = 1
  ELSE step' = "failed" /\ UNCHANGED doc

-----------------------------------------------------------------------------
Init ==
  /\ faults \in SUBSET Faults /\ waitOpts \in BOOLEAN
  /\ \/ caller = "InstallPlatformService" /\ order \in {<< >>, Documents}
     \/ caller \in Callers \ {"InstallPlatformService"} /\ order = Documents
  /\ step = First /\ doc = 1 /\ errors = 0
  /\ service \in BOOLEAN
  /\ present \in SUBSET (ToSet(order) \ Unknown)
  /\ discovered = FALSE /\ history \in Histories

\* CreateObjectFromTemplate; an object that exists is an error.
CreateService ==
  /\ \/ ~service /\ After("createService") /\ service' = TRUE /\ UNCHANGED errors
     \/ service /\ step = "createService" /\ step' = "failed" /\ UNCHANGED <<doc, service, errors>>
     \/ /\ Fault("lost") /\ step = "createService"
        /\ step' = "failed" /\ service' = TRUE /\ UNCHANGED doc
  /\ UNCHANGED <<given, present, discovered, history>>

FindCluster ==
  /\ After("findCluster")
  /\ UNCHANGED <<given, errors, service, present, discovered, history>>

\* The types of Flux's documents are those of every API server.
Known(d) == d \in Unknown => discovered \/ caller = "FluxCD"

\* Variant with a bug: the end of the list is overrun.
OverrunDocuments ==
  IF doc <= Len(order) THEN doc' = doc + 1 /\ UNCHANGED step ELSE After("create")

NextDocument ==
  IF doc < Len(order) THEN doc' = doc + 1 /\ UNCHANGED step ELSE After("create")

\* Variant with a bug: an object that exists is an error.
CreateNewDocument ==
  /\ step = "create" /\ Known(order[doc])
  /\ IF order[doc] \in present THEN AttemptFails ELSE NextDocument
  /\ present' = present \cup {order[doc]}
  /\ UNCHANGED <<given, errors, service, discovered, history>>

\* CreateIgnoreAlreadyExists: an object that exists stays as it is.
CreateDocument ==
  /\ step = "create" /\ Known(order[doc])
  /\ present' = present \cup {order[doc]}
  /\ NextDocument
  /\ UNCHANGED <<given, errors, service, discovered, history>>

\* The object has been created, but the answer is an error.
LoseAnswer ==
  /\ step = "create" /\ Known(order[doc]) /\ order[doc] \notin present /\ Fault("lost")
  /\ present' = present \cup {order[doc]}
  /\ AttemptFails
  /\ UNCHANGED <<given, service, discovered, history>>

\* Variant with a bug: the document is skipped.
SkipDocument ==
  /\ step = "create"
  /\ \/ ~Known(order[doc]) /\ UNCHANGED errors
     \/ Fault("api")
  /\ NextDocument
  /\ UNCHANGED <<given, service, present, discovered, history>>

DocumentFails ==
  /\ step = "create"
  /\ \/ ~Known(order[doc]) /\ UNCHANGED errors
     \/ Fault("api")
  /\ AttemptFails
  /\ UNCHANGED <<given, service, present, discovered, history>>

\* The wait of an import for all of its objects, which fails with any error.
AwaitObjects ==
  /\ \/ After("await") /\ ToSet(order) \subseteq present /\ UNCHANGED errors
     \/ step = "await" /\ Fault("api") /\ AttemptFails
  /\ UNCHANGED <<given, service, present, discovered, history>>

\* A poll for the condition Ready that ends the wait.
Ready == CheckCondition(Head(history), "Ready", "True")

MatchReady ==
  /\ \/ Ready = "match" /\ After("match")
     \/ Ready = "panic" /\ step = "match" /\ step' = "panic" /\ UNCHANGED doc
  /\ UNCHANGED <<given, errors, service, present, discovered, history>>

RegisterSchemes ==
  /\ After("registerSchemes")
  /\ UNCHANGED <<given, errors, service, present, discovered, history>>

\* Any other call, or the poll for Ready, fails: that is not retried.
CallFails ==
  /\ step \in {"createService", "findCluster", "match", "registerSchemes"} /\ Fault("api")
  /\ step' = "failed"
  /\ UNCHANGED <<given, doc, service, present, discovered, history>>

\* Variant with a bug: an import is retried without a timeout.
MatchTimesOut ==
  /\ \/ step \in {"await", "match"} /\ "timeout" \in faults
     \/ step = "match" /\ Len(history) = 1 /\ Ready = "noMatch"
  /\ step' = "failed"
  /\ UNCHANGED <<given, doc, errors, service, present, discovered, history>>

\* The wait around the retries, that of an attempt or the one for Ready expires; the
\* last one also if the controller has nothing more to report.
TimesOut ==
  /\ \/ step = "create" /\ caller = "InstallPlatformService" /\ "timeout" \in faults
     \/ step \in {"await", "match"} /\ "timeout" \in faults
     \/ step = "match" /\ Len(history) = 1 /\ Ready = "noMatch"
  /\ step' = "failed"
  /\ UNCHANGED <<given, doc, errors, service, present, discovered, history>>

(***************************************************************************)
(* The service and its controller (not part of this repository).           *)
(***************************************************************************)
\* A platform service defines its types after it has been installed.
Discover ==
  /\ ~discovered
  /\ caller = "InstallPlatformService" => service
  /\ discovered' = TRUE
  /\ UNCHANGED <<given, step, doc, errors, service, present, history>>

ReportConditions ==
  /\ service /\ Len(history) > 1
  /\ history' = Tail(history)
  /\ UNCHANGED <<given, step, doc, errors, service, present, discovered>>

-----------------------------------------------------------------------------
Step ==
  \/ CreateService \/ FindCluster
  \/ CreateDocument \/ LoseAnswer \/ DocumentFails \/ AwaitObjects
  \/ MatchReady \/ RegisterSchemes \/ CallFails \/ TimesOut

Returned == Over /\ UNCHANGED vars

Next == Step \/ Discover \/ ReportConditions \/ Returned

\* The call goes on and its waits expire in the end, however often an attempt
\* fails.  The controller does its work, except where waits may expire.
Spec ==
  /\ Init /\ [][Next]_vars
  /\ WF_vars(Step) /\ WF_vars(TimesOut)
  /\ WF_vars("timeout" \notin faults /\ (Discover \/ ReportConditions))

-----------------------------------------------------------------------------
TypeOK ==
  /\ faults \subseteq Faults /\ waitOpts \in BOOLEAN /\ caller \in Callers
  /\ order \in {<< >>, Documents}
  /\ step \in {First} \cup Range(Follows) \cup {"failed", "panic"}
  /\ doc \in 1..Len(Documents) /\ errors \in 0..MaxErrors
  /\ {service, discovered} \subseteq BOOLEAN
  /\ present \subseteq ToSet(order)
  /\ history \in Seq(Report)

\* The wait for Ready ends as a reader of the conditions would have it: without
\* error only if the last condition Ready says so, whatever else is in the list and
\* was reported before, and with a panic only if a condition Ready has no status.
ReadyMeansReady ==
  [][step = "match" /\ step' # "match" =>
       /\ step' = "done" => /\ LastHas(Head(history), "Ready", "True")
                            /\ ~Incomplete(Head(history), "Ready")
       /\ step' = "panic" => Incomplete(Head(history), "Ready")]_vars

\* The retries of a platform service's import succeed once its types are known,
\* although earlier attempts have created some of the objects, knowingly or not,
\* and others existed before.
RetriesSucceed ==
  (step = "create" /\ caller = "InstallPlatformService" /\ "timeout" \notin faults)
    ~> step = "match"

\* Every call returns; retries of an import that cannot succeed end as well.
InstallReturns == <>Over

P == INSTANCE Provisioning WITH finished <- (step = "done")

\* Each call installs its documents in their order, and without error all of them.
ImplementsProvisioning == P!Spec
=============================================================================
