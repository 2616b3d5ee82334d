---------------------------- MODULE BoundedRepair ----------------------------
(***************************************************************************)
(* What every design run of datumguard promises, whatever it designs: the  *)
(* design is judged as it stands, only a design that was judged faulty is  *)
(* repaired, a repair changes declared values only and there are at most   *)
(* MaxRepairs of them, and "passed" is said of a design that was judged    *)
(* after its last change.  FrameRun, PlateRun and ArchitectureRun are      *)
(* shown to implement this module.                                         *)
(***************************************************************************)
EXTENDS Naturals

CONSTANTS Paths,      \* the numeric fields of a contract
          Values,     \* the values a field may take
          MaxRepairs  \* repairs a run may apply

VARIABLES design,   \* the value of every field
          free,     \* the fields the contract declares free
          judged,   \* what was found of the design as it is now
          repairs,  \* repairs applied so far
          outcome

vars == <<design, free, judged, repairs, outcome>>

Init ==
    /\ design \in [Paths -> Values]
    /\ free \in SUBSET Paths
    /\ judged = "not judged"
    /\ repairs = 0
    /\ outcome = "running"

Judge ==
    /\ outcome = "running"
    /\ judged = "not judged"
    /\ judged' \in {"clean", "faulty"}
    /\ UNCHANGED <<design, free, repairs, outcome>>

Repair ==
    /\ outcome = "running"
    /\ judged = "faulty"
    /\ repairs < MaxRepairs
    /\ design' \in [Paths -> Values]
    /\ \A path \in Paths \ free : design'[path] = design[path]
    /\ judged' = "not judged"
    /\ repairs' = repairs + 1
    /\ UNCHANGED <<free, outcome>>

Pass ==
    /\ outcome = "running"
    /\ judged = "clean"
    /\ outcome' = "passed"
    /\ UNCHANGED <<design, free, judged, repairs>>

Refuse ==
    /\ outcome = "running"
    /\ outcome' = "refused"
    /\ UNCHANGED <<design, free, judged, repairs>>

Next == Judge \/ Repair \/ Pass \/ Refuse

Spec == Init /\ [][Next]_vars
=============================================================================
