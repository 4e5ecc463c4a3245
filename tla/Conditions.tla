------------------------------ MODULE Conditions ------------------------------
(***************************************************************************)
(* checkCondition: whether an object's list of conditions, as its          *)
(* controller has reported it, has a desired type with a desired status.   *)
(***************************************************************************)
EXTENDS Naturals, Sequences, SequencesExt

CONSTANTS
  Types, Statuses,  \* of conditions
  NoStatus          \* a condition whose status is missing or no string

ASSUME StatusAssumption == NoStatus \notin Statuses

\* The list is empty when the object does not have any conditions.
Report == Seq([type : Types, status : Statuses \cup {NoStatus}])

\* Variant with a bug: the first condition of the type counts.
CheckFirst(report, desiredType, desiredStatus) ==
  LET of == SelectSeq(report, LAMBDA c : c.type = desiredType) IN
  IF of # << >> /\ of[1].status = desiredStatus THEN "match" ELSE "noMatch"

\* One condition: the loop keeps the status of the last one of the type; it panics at
\* one of the type that has none.
Seen(result, c, desiredType, desiredStatus) ==
  CASE result = "panic" \/ c.type # desiredType -> result
    [] result # "panic" /\ c.type = desiredType /\ c.status = NoStatus -> "panic"
    [] OTHER -> IF c.status = desiredStatus THEN "match" ELSE "noMatch"

\* The loop over the conditions.
CheckCondition(report, desiredType, desiredStatus) ==
  LET after[i \in 0..Len(report)] ==
        IF i = 0 THEN "noMatch"
        ELSE Seen(after[i - 1], report[i], desiredType, desiredStatus)
  IN after[Len(report)]

-----------------------------------------------------------------------------
\* What a reader of the conditions means by it: a condition of the type has the
\* status, and none after it has the type.
LastHas(report, type, status) ==
  \E i \in DOMAIN report :
    /\ report[i] = [type |-> type, status |-> status]
    /\ \A j \in DOMAIN report : j > i => report[j].type # type

Incomplete(report, type) ==
  \E i \in DOMAIN report : report[i] = [type |-> type, status |-> NoStatus]
=============================================================================
