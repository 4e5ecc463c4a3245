-------------------------- MODULE InstallationProofs --------------------------
(***************************************************************************)
(* Theorems about Installation, for any documents, histories and faults:   *)
(* type correctness, and that it implements Provisioning.  The invariant   *)
(* behind the latter says how far the installation is: the documents up to *)
(* the one it is at exist, and past the import all of them do.             *)
(***************************************************************************)
EXTENDS Installation, WellFoundedInduction, TLAPS

-----------------------------------------------------------------------------
\* What the lists of documents are: none, or the documents, which there are.
LEMMA OrderType ==
  ASSUME NEW o \in {<< >>, Documents}
  PROVE  /\ Len(o) \in Nat /\ ToSet(o) = {o[i] : i \in 1..Len(o)}
         /\ o # << >> => o = Documents /\ Len(o) > 0
<1>1. CASE o = << >>
  <2>1. Len(<< >>) = 0 /\ DOMAIN << >> = 1..0
    OBVIOUS
  <2>. QED  BY <1>1, <2>1 DEF ToSet
<1>2. CASE o # << >>
  <2>1. o = Documents /\ o \in Seq(ToSet(o))
    BY <1>2, DocumentsAssumption
  <2>2. ASSUME NEW S, NEW s \in Seq(S), s # << >>
        PROVE  Len(s) \in Nat /\ DOMAIN s = 1..Len(s) /\ Len(s) > 0
    BY <2>2
  <2>3. Len(o) \in Nat /\ DOMAIN o = 1..Len(o) /\ Len(o) > 0
    BY <1>2, <2>1, <2>2
  <2>. QED  BY <2>1, <2>3 DEF ToSet
<1>. QED  BY <1>1, <1>2

\* There are documents.
LEMMA DocumentsType == Len(Documents) \in Nat /\ Len(Documents) > 0
  BY OrderType, DocumentsAssumption

\* The steps a call can be at; those at which it goes on, with After.
StepSet == {First} \cup Range(Follows) \cup {"failed", "panic"}
Steps == {"createService", "findCluster", "create", "await", "match", "registerSchemes"}

LEMMA StepsType ==
  /\ \A s \in Steps : After(s) => step' \in StepSet
  /\ {First, "failed", "panic"} \subseteq StepSet
<1>1. DOMAIN Follows = Steps
  BY DEF Follows, Steps
<1>2. \A s \in Steps : Follows[s] \in StepSet
  BY <1>1 DEF StepSet, Range
<1>. QED  BY <1>2 DEF After, StepSet

\* They are the same as long as the call is the same.
LEMMA StepSetStays == UNCHANGED given => StepSet' = StepSet
<1>. SUFFICES ASSUME UNCHANGED given PROVE StepSet' = StepSet
  OBVIOUS
<1>1. caller' = caller /\ order' = order /\ waitOpts' = waitOpts
  BY DEF given
<1>2. First' = First /\ Imported' = Imported
  BY <1>1, Zenon DEF First, Imported
<1>3. Follows' = Follows
  BY <1>1, <1>2, Zenon DEF Follows
<1>. QED  BY <1>2, <1>3, Zenon DEF StepSet, Range

\* After its import a call waits for Ready, registers schemes or is done.
LEMMA ImportedType ==
  caller \in Callers => Imported \in {"match", "done", "registerSchemes"}
<1>1. caller = "InstallPlatformService" => Imported = "match"
  BY DEF Imported
<1>2. caller = "ImportServiceProviderAPIs" => Imported = "done"
  BY DEF Imported
<1>3. caller = "FluxCD" => Imported = "registerSchemes"
  BY DEF Imported
<1>. QED  BY <1>1, <1>2, <1>3 DEF Callers

\* An import that can be retried has its first document.
LEMMA CreateInSteps ==
  caller = "InstallPlatformService" /\ order # << >> => "create" \in StepSet
<1>1. caller = "InstallPlatformService" /\ order # << >>
        => Follows["createService"] = "create" /\ "createService" \in DOMAIN Follows
  BY DEF Follows
<1>. QED  BY <1>1 DEF StepSet, Range

-----------------------------------------------------------------------------
(* Type correctness. *)

\* The document a call is at exists, so that a step of the import stays in range.
DocType ==
  /\ step \in {"findCluster", "create", "await"} => order # << >>
  /\ step = "create" => doc \in 1..Len(order)
  /\ doc \in 1..Len(Documents)

TypeInv == TypeOK /\ DocType

LEMMA InitType == Init => TypeInv
<1>. SUFFICES ASSUME Init PROVE TypeInv
  OBVIOUS
<1>2. caller \in Callers /\ order \in {<< >>, Documents}
  BY DEF Init, Callers
<1>3. step \in {"findCluster", "create", "await"} => order = Documents
  BY DEF Init, First, Callers
<1>4. history \in Seq(Report)
  BY HistoriesAssumption DEF Init
<1>5. present \subseteq ToSet(order)
  BY DEF Init
<1>6. step \in StepSet
  BY StepsType DEF Init
<1>7. {service, discovered} \subseteq BOOLEAN /\ waitOpts \in BOOLEAN
  BY Zenon DEF Init
<1>8. faults \subseteq Faults /\ errors \in 0..MaxErrors /\ doc = 1
  BY FaultsAssumption DEF Init
<1>9. DocType
  BY <1>3, <1>8, DocumentsType, DocumentsAssumption DEF DocType
<1>. QED
  BY <1>2, <1>4, <1>5, <1>6, <1>7, <1>8, <1>9 DEF TypeInv, TypeOK, StepSet, DocType

\* What a call that goes on, and an attempt that fails, do to step and doc.
LEMMA AfterType ==
  ASSUME TypeInv, NEW s \in Steps, After(s), UNCHANGED given
  PROVE  step' \in StepSet' /\ DocType'
<1>1. step' \in StepSet' /\ StepSet' = StepSet
  BY StepsType, StepSetStays
<1>2. order' = order /\ doc' = 1 /\ step = s /\ step' = Follows[s]
  BY DEF After, given
<1>. Imported \in {"match", "done", "registerSchemes"}
  BY ImportedType DEF TypeInv, TypeOK
<1>3. Follows[s] # "findCluster"
  BY DEF Follows, Steps
<1>4. order = << >> => Follows[s] \notin {"create", "await"} \/ s \in {"findCluster", "create"}
  BY DEF Follows, Steps
<1>5. step' \in {"create", "await"} => order # << >>
  BY <1>2, <1>4 DEF TypeInv, DocType
<1>6. order # << >> => 1 \in 1..Len(order)
  BY OrderType DEF TypeInv, TypeOK
<1>. QED  BY <1>1, <1>2, <1>3, <1>5, <1>6, DocumentsType DEF DocType

LEMMA AttemptType ==
  ASSUME TypeInv, step \in {"create", "await"}, AttemptFails, UNCHANGED given
  PROVE  step' \in StepSet' /\ DocType'
<1>1. StepSet' = StepSet /\ order' = order
  BY StepSetStays DEF given
<1>2. order # << >> /\ 1 \in 1..Len(order)
  BY OrderType DEF TypeInv, TypeOK, DocType
<1>3. CASE caller = "InstallPlatformService"
  BY <1>1, <1>2, <1>3, CreateInSteps, DocumentsType DEF AttemptFails, DocType
<1>4. CASE caller # "InstallPlatformService"
  BY <1>1, <1>4, StepsType DEF AttemptFails, DocType, TypeInv
<1>. QED  BY <1>3, <1>4

\* What a step does to step and doc, action by action.
LEMMA StepType ==
  ASSUME TypeInv, Step
  PROVE  step' \in StepSet' /\ DocType' /\ UNCHANGED given
<1>1. UNCHANGED given
  BY DEF Step, CreateService, FindCluster, CreateDocument, LoseAnswer, DocumentFails,
         AwaitObjects, MatchReady, RegisterSchemes, CallFails, TimesOut
<1>. StepSet' = StepSet /\ order' = order
  BY <1>1, StepSetStays DEF given
<1>. Steps = {"createService", "findCluster", "create", "await", "match", "registerSchemes"}
  BY DEF Steps
<1>2. ASSUME step' \in {"failed", "panic"}, doc' = doc
      PROVE  step' \in StepSet' /\ DocType'
  BY <1>2, StepsType DEF DocType, TypeInv
<1>3. ASSUME NextDocument, step = "create"
      PROVE  step' \in StepSet' /\ DocType'
  <2>1. CASE doc < Len(order)
    <3>1. doc \in 1..Len(order) /\ order = Documents
      BY <1>3, OrderType DEF TypeInv, TypeOK, DocType
    <3>2. step' = step /\ doc' = doc + 1
      BY <1>3, <2>1 DEF NextDocument
    <3>. QED  BY <2>1, <3>1, <3>2, DocumentsType DEF TypeInv, TypeOK, DocType, StepSet
  <2>2. CASE ~(doc < Len(order))
    BY <1>1, <1>3, <2>2, AfterType DEF NextDocument
  <2>. QED  BY <2>1, <2>2
<1>4. CASE CreateService
  BY <1>1, <1>2, <1>4, AfterType DEF CreateService
<1>5. CASE FindCluster \/ RegisterSchemes
  BY <1>1, <1>5, AfterType DEF FindCluster, RegisterSchemes
<1>6. CASE CreateDocument
  BY <1>3, <1>6 DEF CreateDocument
<1>7. CASE LoseAnswer \/ DocumentFails
  BY <1>1, <1>7, AttemptType DEF LoseAnswer, DocumentFails
<1>8. CASE AwaitObjects
  BY <1>1, <1>8, AfterType, AttemptType DEF AwaitObjects
<1>9. CASE MatchReady
  BY <1>1, <1>2, <1>9, AfterType DEF MatchReady
<1>10. CASE CallFails \/ TimesOut
  BY <1>2, <1>10 DEF CallFails, TimesOut
<1>. QED  BY <1>1, <1>4, <1>5, <1>6, <1>7, <1>8, <1>9, <1>10 DEF Step

LEMMA NextType == TypeInv /\ [Next]_vars => TypeInv'
<1>. SUFFICES ASSUME TypeInv, [Next]_vars PROVE TypeInv'
  OBVIOUS
<1>1. step' \in StepSet' /\ DocType' /\ UNCHANGED given
  <2>1. CASE Step
    BY <2>1, StepType
  <2>2. CASE UNCHANGED <<given, step, doc>>
    BY <2>2, StepSetStays DEF given, TypeInv, TypeOK, DocType, StepSet
  <2>. QED
    BY <2>1, <2>2 DEF Next, Discover, ReportConditions, Returned, vars
<1>2. errors' \in 0..MaxErrors
  BY FaultsAssumption
  DEF TypeInv, TypeOK, Next, Step, CreateService, FindCluster, CreateDocument, LoseAnswer,
      DocumentFails, AwaitObjects, MatchReady, RegisterSchemes, CallFails, TimesOut,
      Discover, ReportConditions, Returned, vars, Fault
<1>3. service' \in {service, TRUE} /\ discovered' \in {discovered, TRUE}
  BY DEF Next, Step, CreateService, FindCluster, CreateDocument, LoseAnswer,
         DocumentFails, AwaitObjects, MatchReady, RegisterSchemes, CallFails, TimesOut,
         Discover, ReportConditions, Returned, vars
<1>4. present' \subseteq ToSet(order)
  <2>1. present' \in {present, present \cup {order[doc]}}
    BY DEF Next, Step, CreateService, FindCluster, CreateDocument, LoseAnswer,
           DocumentFails, AwaitObjects, MatchReady, RegisterSchemes, CallFails, TimesOut,
           Discover, ReportConditions, Returned, vars
  <2>2. step = "create" => order[doc] \in ToSet(order)
    BY OrderType DEF TypeInv, TypeOK, DocType
  <2>3. step # "create" => present' = present
    BY DEF Next, Step, CreateService, FindCluster, CreateDocument, LoseAnswer,
           DocumentFails, AwaitObjects, MatchReady, RegisterSchemes, CallFails, TimesOut,
           Discover, ReportConditions, Returned, vars
  <2>. QED  BY <2>1, <2>2, <2>3 DEF TypeInv, TypeOK
<1>5. history' \in Seq(Report)
  <2>1. history' = history \/ (Len(history) > 1 /\ history' = Tail(history))
    BY DEF Next, Step, CreateService, FindCluster, CreateDocument, LoseAnswer,
           DocumentFails, AwaitObjects, MatchReady, RegisterSchemes, CallFails, TimesOut,
           Discover, ReportConditions, Returned, vars
  <2>2. history \in Seq(Report)
    BY DEF TypeInv, TypeOK
  <2>. QED  BY <2>1, <2>2
<1>6. {service', discovered'} \subseteq BOOLEAN
  <2>1. {service, discovered} \subseteq BOOLEAN
    BY DEF TypeInv, TypeOK
  <2>. QED  BY <1>3, <2>1
<1>7. /\ faults' \subseteq Faults /\ waitOpts' \in BOOLEAN /\ caller' \in Callers
      /\ order' \in {<< >>, Documents} /\ order' = order
  BY <1>1, Zenon DEF TypeInv, TypeOK, given
<1>. QED
  BY <1>1, <1>2, <1>4, <1>5, <1>6, <1>7 DEF TypeInv, TypeOK, StepSet, DocType

\* TypeOK: the variables keep their types; in particular no call gets past the end
\* of its documents.
THEOREM TypeCorrect == Spec => []TypeOK
<1>1. Spec => []TypeInv
  BY InitType, NextType, PTL DEF Spec
<1>. QED  BY <1>1, PTL DEF TypeInv

-----------------------------------------------------------------------------
(* Refinement of Provisioning. *)

\* The documents before the one the call is at exist, and all of them once the
\* call is past its import.
AllPresent == ToSet(order) \subseteq present

DocumentsInv ==
  /\ step = "create" => \A j \in 1..(doc - 1) : order[j] \in present
  /\ step \in {"await", "match", "registerSchemes", "done"} => AllPresent

LEMMA InitDocuments == Init => DocumentsInv
<1>. SUFFICES ASSUME Init PROVE DocumentsInv
  OBVIOUS
<1>1. doc = 1 /\ step \in {"createService", "findCluster", "create"}
  BY DEF Init, First, Callers
<1>. QED  BY <1>1 DEF DocumentsInv

\* Objects are not removed, and the documents are the same.
LEMMA PresentGrows ==
  [Next]_vars => present \subseteq present' /\ order' = order
  BY DEF Next, Step, CreateService, FindCluster, CreateDocument, LoseAnswer,
         DocumentFails, AwaitObjects, MatchReady, RegisterSchemes, CallFails, TimesOut,
         Discover, ReportConditions, Returned, vars, given

\* The document that was created is the last one, or the call goes on with the next.
LEMMA CreateStep ==
  ASSUME TypeInv, DocumentsInv, CreateDocument
  PROVE  DocumentsInv'
<1>1. /\ order = Documents /\ order' = order /\ order # << >>
      /\ doc \in 1..Len(order) /\ Len(order) \in Nat
      /\ ToSet(order) = {order[i] : i \in 1..Len(order)}
  BY OrderType DEF CreateDocument, TypeInv, TypeOK, DocType, given
<1>2. \A j \in 1..doc : order[j] \in present'
  BY <1>1 DEF CreateDocument, DocumentsInv
<1>3. CASE doc < Len(order)
  BY <1>1, <1>2, <1>3 DEF CreateDocument, NextDocument, DocumentsInv
<1>4. CASE ~(doc < Len(order))
  <2>1. AllPresent'
    BY <1>1, <1>2, <1>4 DEF AllPresent
  <2>2. step' # "create"
    <3>1. step' = Follows["create"]
      BY <1>4 DEF CreateDocument, NextDocument, After
    <3>. QED  BY <3>1, ImportedType DEF Follows, TypeInv, TypeOK
  <2>. QED  BY <2>1, <2>2 DEF DocumentsInv
<1>. QED  BY <1>3, <1>4

LEMMA NextDocuments ==
  TypeInv /\ DocumentsInv /\ [Next]_vars => DocumentsInv'
<1>. SUFFICES ASSUME TypeInv, DocumentsInv, [Next]_vars PROVE DocumentsInv'
  OBVIOUS
<1>. present \subseteq present' /\ order' = order
  BY PresentGrows
<1>. Imported \in {"match", "done", "registerSchemes"}
  BY ImportedType DEF TypeInv, TypeOK
<1>1. ASSUME step' \in {"failed", "panic"} PROVE DocumentsInv'
  BY <1>1 DEF DocumentsInv
<1>2. ASSUME AllPresent, step' # "create" PROVE DocumentsInv'
  BY <1>2 DEF DocumentsInv, AllPresent
<1>3. ASSUME AttemptFails PROVE DocumentsInv'
  BY <1>3 DEF AttemptFails, DocumentsInv
<1>4. CASE CreateService
  <2>1. CASE After("createService")
    <3>1. order = << >> => AllPresent
      BY OrderType DEF AllPresent
    <3>2. step' = "create" => doc' = 1
      BY <2>1 DEF After
    <3>3. order # << >> => step' = "create"
      BY <2>1 DEF After, Follows
    <3>. QED  BY <1>2, <3>1, <3>2, <3>3 DEF DocumentsInv
  <2>. QED  BY <1>1, <1>4, <2>1 DEF CreateService
<1>5. CASE FindCluster
  BY <1>5 DEF FindCluster, After, Follows, DocumentsInv
<1>6. CASE CreateDocument
  BY <1>6, CreateStep
<1>7. CASE LoseAnswer \/ DocumentFails
  BY <1>3, <1>7 DEF LoseAnswer, DocumentFails
<1>8. CASE AwaitObjects
  BY <1>2, <1>3, <1>8 DEF AwaitObjects, After, Follows, AllPresent
<1>9. CASE MatchReady \/ RegisterSchemes
  BY <1>1, <1>2, <1>9 DEF MatchReady, RegisterSchemes, After, Follows, DocumentsInv
<1>10. CASE CallFails \/ TimesOut
  BY <1>1, <1>10 DEF CallFails, TimesOut
<1>11. CASE UNCHANGED <<step, doc>>
  BY <1>11 DEF DocumentsInv, AllPresent
<1>. QED
  BY <1>4, <1>5, <1>6, <1>7, <1>8, <1>9, <1>10, <1>11
  DEF Next, Step, Discover, ReportConditions, Returned, vars

\* A step that creates an object creates the first one that is missing.
LEMMA CreatesNext ==
  ASSUME TypeInv, DocumentsInv, [Next]_vars, present' # present
  PROVE  /\ step = "create" /\ doc \in 1..Len(order) /\ order[doc] \notin present
         /\ \A j \in 1..(doc - 1) : order[j] \in present
         /\ present' = present \cup {order[doc]}
<1>1. step = "create" /\ present' = present \cup {order[doc]}
  BY DEF Next, Step, CreateService, FindCluster, CreateDocument, LoseAnswer,
         DocumentFails, AwaitObjects, MatchReady, RegisterSchemes, CallFails, TimesOut,
         Discover, ReportConditions, Returned, vars
<1>. QED  BY <1>1 DEF TypeInv, DocType, DocumentsInv

\* A call that has succeeded has returned.
LEMMA DoneStays == step = "done" /\ [Next]_vars => step' = "done"
  BY DEF Next, Step, CreateService, FindCluster, CreateDocument, LoseAnswer,
         DocumentFails, AwaitObjects, MatchReady, RegisterSchemes, CallFails, TimesOut,
         Discover, ReportConditions, Returned, vars, After

LEMMA ProvisioningStep ==
  TypeInv /\ DocumentsInv /\ DocumentsInv' /\ [Next]_vars => [P!Next]_(P!vars)
<1>. SUFFICES ASSUME TypeInv, DocumentsInv, DocumentsInv', [Next]_vars
              PROVE  [P!Next]_(P!vars)
  OBVIOUS
<1>. P!ToSet(order) = ToSet(order)
  BY DEF ToSet, P!ToSet
<1>1. order' = order
  BY PresentGrows
<1>2. step' = "done" => ToSet(order) \subseteq present'
  BY <1>1 DEF DocumentsInv, AllPresent
<1>3. CASE present' # present
  <2>1. (step' = "done") \in {FALSE, ToSet(order) \subseteq present'}
    <3>1. CASE step' = "done"
      <4>1. (step' = "done") = TRUE /\ (ToSet(order) \subseteq present') = TRUE
        BY <1>2, <3>1
      <4>. QED  BY <4>1
    <3>2. CASE step' # "done"
      BY <3>2
    <3>. QED  BY <3>1, <3>2
  <2>2. /\ step = "create" /\ doc \in 1..Len(order) /\ order[doc] \notin present
        /\ \A j \in 1..(doc - 1) : order[j] \in present
        /\ present' = present \cup {order[doc]}
    BY <1>3, CreatesNext
  <2>3. ~(step = "done")
    BY <2>2
  <2>4. P!Create
    BY <1>1, <2>1, <2>2, <2>3, Zenon DEF P!Create
  <2>. QED  BY <2>4 DEF P!Next
<1>4. CASE present' = present /\ step' = "done" /\ step # "done"
  BY <1>1, <1>2, <1>4 DEF P!Next, P!Finish
<1>5. CASE present' = present /\ (step' = "done" <=> step = "done")
  <2>1. (step' = "done") = (step = "done")
    BY <1>5
  <2>. QED  BY <1>1, <1>5, <2>1, Zenon DEF P!vars
<1>. QED  BY <1>3, <1>4, <1>5, DoneStays

\* ImplementsProvisioning: whatever fails, is retried or gets lost on the way back,
\* a call installs its documents in their order, and succeeds only with all of them.
THEOREM InstallationImplementsProvisioning == Spec => ImplementsProvisioning
<1>1. Init => P!Init
  BY DEF Init, P!Init, First, Callers
<1>2. TypeInv /\ DocumentsInv /\ [Next]_vars => TypeInv' /\ DocumentsInv'
  BY NextType, NextDocuments
<1>. QED
  BY <1>1, <1>2, InitType, InitDocuments, ProvisioningStep, PTL
  DEF Spec, ImplementsProvisioning, P!Spec

-----------------------------------------------------------------------------
(* What the loop over the conditions finds. *)

\* Induction as a fact about sets, for it needs no operator: a set of numbers has a
\* least element, so that none is missing from a set that has 0 and each successor.
LEMMA LeastElement ==
  ASSUME NEW T \in SUBSET Nat, T # {}
  PROVE  \E n \in T : \A m \in T : ~(m < n)
<1>. DEFINE R == OpToRel(<, Nat)
<1>1. IsWellFoundedOn(R, Nat)
  BY NatLessThanWellFounded
<1>2. \A m, n \in Nat : <<m, n>> \in R <=> m < n
  BY DEF OpToRel
<1>. HIDE DEF R
<1>3. \E n \in T : \A m \in T : ~(<<m, n>> \in R)
  BY <1>1, WFMin
<1>. QED  BY <1>2, <1>3

LEMMA SetInduction ==
  ASSUME NEW S, 0 \in S, \A n \in Nat : n \in S => n + 1 \in S
  PROVE  Nat \subseteq S
<1>. SUFFICES ASSUME Nat \ S # {} PROVE FALSE
  OBVIOUS
<1>1. PICK n \in Nat \ S : \A m \in Nat \ S : ~(m < n)
  BY LeastElement
<1>2. n # 0 /\ n - 1 \in Nat /\ n - 1 < n
  BY <1>1
<1>. QED  BY <1>1, <1>2

\* What the first i conditions of a report say of a type, without a loop.
Upto(report, type, status, i) ==
  IF \E j \in 1..i : report[j].type = type /\ report[j].status = NoStatus THEN "panic"
  ELSE IF \E j \in 1..i : /\ report[j].type = type /\ report[j].status = status
                          /\ \A k \in 1..i : k > j => report[k].type # type
  THEN "match" ELSE "noMatch"

LEMMA UptoSteps ==
  ASSUME NEW report \in Report, NEW type, NEW status, NEW i \in 1..Len(report)
  PROVE  Upto(report, type, status, i)
           = Seen(Upto(report, type, status, i - 1), report[i], type, status)
<1>. DEFINE c == report[i]
<1>1. i \in Nat /\ i - 1 \in Nat /\ 1..i = 1..(i - 1) \cup {i} /\ i \notin 1..(i - 1)
  OBVIOUS
<1>2. CASE Upto(report, type, status, i - 1) = "panic"
  BY <1>1, <1>2 DEF Upto, Seen
<1>3. CASE Upto(report, type, status, i - 1) # "panic" /\ c.type # type
  <2>1. \A j \in 1..i : report[j].type = type => j \in 1..(i - 1)
    BY <1>1, <1>3
  <2>. QED  BY <1>1, <1>3, <2>1 DEF Upto, Seen
<1>4. CASE Upto(report, type, status, i - 1) # "panic" /\ c.type = type
  <2>1. \A j \in 1..(i - 1) : i > j
    OBVIOUS
  <2>2. \A k \in 1..i : ~(k > i)
    OBVIOUS
  <2>3. CASE c.status = NoStatus
    BY <1>1, <1>4, <2>3 DEF Upto, Seen
  <2>4. CASE c.status # NoStatus
    BY <1>1, <1>4, <2>1, <2>2, <2>4 DEF Upto, Seen
  <2>. QED  BY <2>3, <2>4
<1>. QED  BY <1>2, <1>3, <1>4

LEMMA LoopIsUpto ==
  ASSUME NEW report \in Report, NEW type, NEW status
  PROVE  CheckCondition(report, type, status) = Upto(report, type, status, Len(report))
<1>. DEFINE U(i) == Upto(report, type, status, i)
            Body(f) == [i \in 0..Len(report) |->
                         IF i = 0 THEN "noMatch" ELSE Seen(f[i - 1], report[i], type, status)]
            u == [i \in 0..Len(report) |-> U(i)]
            loop == CHOOSE f : f = Body(f)
<1>1. Len(report) \in Nat
  BY DEF Report
<1>2. U(0) = "noMatch"
  BY DEF Upto
<1>3. \A i \in 1..Len(report) : U(i) = Seen(U(i - 1), report[i], type, status)
  BY UptoSteps
<1>. HIDE DEF U
<1>4. u = Body(u)
  <2>1. \A i \in 0..Len(report) :
          U(i) = IF i = 0 THEN "noMatch" ELSE Seen(u[i - 1], report[i], type, status)
    BY <1>1, <1>2, <1>3
  <2>. QED  BY <2>1
<1>5. loop = Body(loop)
  BY <1>4
<1>6. CheckCondition(report, type, status) = loop[Len(report)]
  BY DEF CheckCondition
<1>. HIDE DEF loop
<1>. DEFINE S == {i \in Nat : i <= Len(report) => loop[i] = U(i)}
<1>7. 0 \in S
  BY <1>1, <1>2, <1>5
<1>8. \A n \in Nat : n \in S => n + 1 \in S
  <2>. SUFFICES ASSUME NEW n \in Nat, n \in S, n + 1 <= Len(report)
                PROVE  loop[n + 1] = U(n + 1)
    OBVIOUS
  <2>1. n + 1 \in 1..Len(report) /\ (n + 1) - 1 = n /\ n <= Len(report)
    BY <1>1
  <2>2. loop[n + 1] = Seen(loop[n], report[n + 1], type, status)
    BY <1>1, <1>5, <2>1
  <2>3. loop[n] = U(n)
    BY <2>1
  <2>. QED  BY <1>3, <2>1, <2>2, <2>3
<1>9. Nat \subseteq S
  <2>. HIDE DEF S
  <2>. QED  BY <1>7, <1>8, SetInduction
<1>. QED  BY <1>1, <1>6, <1>9 DEF U

\* checkCondition (conditions.go:86-99) decides about every list of conditions, of
\* whatever length, as a reader of it would: a condition of the type without a status
\* is a panic, and otherwise the last one of the type has to have the status.
THEOREM ChecksLast ==
  ASSUME NEW report \in Report, NEW type, NEW status
  PROVE  CheckCondition(report, type, status)
           = IF Incomplete(report, type) THEN "panic"
             ELSE IF LastHas(report, type, status) THEN "match" ELSE "noMatch"
<1>. DEFINE n == Len(report)
<1>1. n \in Nat /\ DOMAIN report = 1..n
  BY DEF Report
<1>2. ASSUME NEW j \in 1..n, NEW s
      PROVE  report[j] = [type |-> type, status |-> s]
               <=> report[j].type = type /\ report[j].status = s
  <2>. DEFINE Condition == [type : Types, status : Statuses \cup {NoStatus}]
  <2>1. report \in Seq(Condition)
    BY DEF Report
  <2>2. report[j] \in Condition
    <3>. HIDE DEF Condition
    <3>. QED  BY <1>1, <2>1
  <2>3. \A c \in Condition : c = [type |-> type, status |-> s] <=> c.type = type /\ c.status = s
    OBVIOUS
  <2>. QED  BY <2>2, <2>3
<1>3. Incomplete(report, type)
        <=> \E j \in 1..n : report[j].type = type /\ report[j].status = NoStatus
  BY <1>1, <1>2 DEF Incomplete
<1>4. LastHas(report, type, status)
        <=> \E j \in 1..n : /\ report[j].type = type /\ report[j].status = status
                            /\ \A k \in 1..n : k > j => report[k].type # type
  BY <1>1, <1>2 DEF LastHas
<1>. QED  BY <1>3, <1>4, LoopIsUpto DEF Upto

\* A step that ends the wait for Ready.
EndsWait ==
  step = "match" /\ step' # "match" =>
    /\ step' = "done" => /\ LastHas(Head(history), "Ready", "True")
                         /\ ~Incomplete(Head(history), "Ready")
    /\ step' = "panic" => Incomplete(Head(history), "Ready")

\* Reports follow one another, and there is always a last one.
Reported == history # << >>

LEMMA HistoryGoesOn == Reported /\ [Next]_vars => Reported'
<1>. SUFFICES ASSUME history # << >>, [Next]_vars PROVE history' # << >>
  BY DEF Reported
<1>1. history' = history \/ (Len(history) > 1 /\ history' = Tail(history))
  BY DEF Next, Step, CreateService, FindCluster, CreateDocument, LoseAnswer,
         DocumentFails, AwaitObjects, MatchReady, RegisterSchemes, CallFails, TimesOut,
         Discover, ReportConditions, Returned, vars
<1>. QED  BY <1>1

LEMMA WaitEnds == TypeInv /\ Reported /\ [Next]_vars => EndsWait
<1>. SUFFICES ASSUME TypeInv, Reported, [Next]_vars,
                     step = "match", step' \in {"done", "panic"}
              PROVE  /\ step' = "done" => /\ LastHas(Head(history), "Ready", "True")
                                         /\ ~Incomplete(Head(history), "Ready")
                     /\ step' = "panic" => Incomplete(Head(history), "Ready")
  BY DEF EndsWait
<1>1. Head(history) \in Report
  BY DEF Reported, TypeInv, TypeOK
<1>2. MatchReady
  BY DEF Next, Step, CreateService, FindCluster, CreateDocument, LoseAnswer,
         DocumentFails, AwaitObjects, RegisterSchemes, CallFails, TimesOut,
         Discover, ReportConditions, Returned, vars, After
<1>3. \/ Ready = "match" /\ step' = Follows["match"]
      \/ Ready = "panic" /\ step' = "panic"
  BY <1>2 DEF MatchReady, After
<1>4. Follows["match"] = "done"
  BY DEF Follows
<1>. QED  BY <1>1, <1>3, <1>4, ChecksLast DEF Ready

\* ReadyMeansReady: InstallPlatformService and InstallServiceProvider return without
\* error only if the last condition Ready that is reported is true, for any history of
\* reports.
THEOREM ReadyIsReady == Spec => ReadyMeansReady
<1>1. Init => TypeInv /\ Reported
  BY InitType, HistoriesAssumption DEF Init, Reported
<1>2. TypeInv /\ Reported /\ [Next]_vars => TypeInv' /\ Reported'
  BY NextType, HistoryGoesOn
<1>3. EndsWait <=>
        (step = "match" /\ step' # "match" =>
           /\ step' = "done" => /\ LastHas(Head(history), "Ready", "True")
                                /\ ~Incomplete(Head(history), "Ready")
           /\ step' = "panic" => Incomplete(Head(history), "Ready"))
  BY DEF EndsWait
<1>. QED  BY <1>1, <1>2, <1>3, WaitEnds, PTL DEF Spec, ReadyMeansReady
=============================================================================
