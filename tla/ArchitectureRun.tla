--------------------------- MODULE ArchitectureRun ---------------------------
(***************************************************************************)
(* run_architecture_design of architecture_service.py: generate and verify *)
(* a plan, and with auto_repair move one declared column or opening, check *)
(* the contract again and start over, at most MaxRepairs times.            *)
(*                                                                         *)
(* The verifier may find anything; what matters of its violations is which *)
(* paths they could be repaired by.  One repair changes one path.          *)
(***************************************************************************)
EXTENDS MicronGrid, Sequences, FiniteSets

CONSTANTS Paths,      \* column centres and opening offsets
          MaxValue,   \* bound on a value, in half microns
          Ranges,     \* the ranges a free parameter may declare
          Starts,     \* the values of a submitted contract
          MaxRepairs  \* repairs before the run is exhausted

ASSUME ArchitectureAssumption ==
    /\ MaxValue \in Nat /\ Starts \subseteq 0..MaxValue
    /\ \A r \in Ranges : r.min \in 0..MaxValue /\ r.max \in r.min..MaxValue /\ r.step \in 1..MaxValue
    /\ MaxRepairs \in Nat \ {0}

VARIABLES current,       \* the contract the loop works on
          free,          \* its free parameters: ranges by path
          locked,        \* the paths its locked dimensions name
          auto,          \* auto_repair
          original,      \* the contract submitted
          stage,         \* where run_architecture_design is
          verified,      \* the contract the last verification is of, if any
          verdict,       \* its status
          asks,          \* the paths its violations could be repaired by
          repairHistory, \* repair_history
          refusal,       \* the code of repair_violation, or "none"
          bundle,        \* the contract bundled, if any
          status

contract == <<free, locked, auto, original>>
architectureVars == <<current, contract, stage, verified, verdict, asks, repairHistory, refusal,
                      bundle, status>>

Values == 0..MaxValue
Designs == [Paths -> Values]
Verdicts == {"passed", "repairable", "failed"}

Init ==
    /\ current \in [Paths -> Starts]
    /\ free \in UNION {[F -> Ranges] : F \in SUBSET Paths}
    /\ locked \in SUBSET (Paths \ DOMAIN free)
    /\ auto \in BOOLEAN
    /\ original = current
    /\ stage = "validate"
    /\ verified = {}
    /\ verdict = "none"
    /\ asks = {}
    /\ repairHistory = <<>>
    /\ refusal = "none"
    /\ bundle = {}
    /\ status = "running"
-----------------------------------------------------------------------------
(* Helpers *)

Finish(s) == stage' = "done" /\ status' = s

\* The change _next_architecture_repair may return: the search may end at any value
\* of the grid, and a move of a micron or less is none.
Options ==
    {c \in [path : asks \cap DOMAIN free, before : Values, after : Values] :
       /\ c.before = current[c.path]
       /\ c.after \in Grid(free[c.path])
       /\ c.after - c.before \notin -2..2}

\* Why no change is even looked for: the violations name no path that a repair may
\* change, one of the paths is locked, or none is declared free.
Refused ==
    IF asks = {} THEN "unsupported"
    ELSE IF asks \cap locked # {} THEN "locked"
    ELSE IF asks \cap DOMAIN free = {} THEN "no free parameter"
    ELSE "none"

Stop(reason) == stage' = "judge" /\ refusal' = reason
-----------------------------------------------------------------------------
(* Actions *)

\* The contract is not ready, or the drawing cannot be generated or read back.
Fails ==
    /\ stage \in {"validate", "generate"}
    /\ Finish("failed")
    /\ UNCHANGED <<current, contract, verified, verdict, asks, repairHistory, refusal, bundle>>

ValidateReady ==
    /\ stage = "validate"
    /\ stage' = "generate"
    /\ UNCHANGED <<current, contract, verified, verdict, asks, repairHistory, refusal, bundle,
                   status>>

\* Mutant of AfterVerify: the bound is tested before the verdict.
AfterVerifyBoundFirst(v) ==
    IF auto /\ Len(repairHistory) = MaxRepairs THEN Stop("exhausted")
    ELSE IF v = "passed" \/ ~auto THEN stage' = "judge" /\ UNCHANGED refusal
    ELSE stage' = "repair" /\ UNCHANGED refusal

\* Mutant of AfterVerify: one repair more.
AfterVerifyLate(v) ==
    IF v = "passed" \/ ~auto THEN stage' = "judge" /\ UNCHANGED refusal
    ELSE IF Len(repairHistory) > MaxRepairs THEN Stop("exhausted")
    ELSE stage' = "repair" /\ UNCHANGED refusal

AfterVerify(v) ==
    IF v = "passed" \/ ~auto THEN stage' = "judge" /\ UNCHANGED refusal
    ELSE IF Len(repairHistory) = MaxRepairs THEN Stop("exhausted")
    ELSE stage' = "repair" /\ UNCHANGED refusal

GenerateAndVerify ==
    /\ stage = "generate"
    /\ \E v \in Verdicts :
         /\ verified' = {current}
         /\ verdict' = v
         /\ asks' \in IF v = "passed" THEN {{}} ELSE SUBSET Paths
         /\ AfterVerify(v)
    /\ UNCHANGED <<current, contract, repairHistory, bundle, status>>

\* No change is found, or the changed contract does not validate.
RepairStops ==
    /\ stage = "repair"
    /\ Stop(IF Refused = "none" THEN "exhausted" ELSE Refused)
    /\ UNCHANGED <<current, contract, verified, verdict, asks, repairHistory, bundle, status>>

\* The changed contract validates and becomes current.
Adopt(c) ==
    /\ current' = [current EXCEPT ![c.path] = c.after]
    /\ repairHistory' = Append(repairHistory, c)

RepairApplied ==
    /\ stage = "repair"
    /\ Refused = "none"
    /\ \E c \in Options : Adopt(c)
    /\ stage' = "generate"
    /\ UNCHANGED <<contract, verified, verdict, asks, refusal, bundle, status>>

\* The schema refuses the changed contract (an opening's offset below zero); the
\* error is not caught.
RepairRaises ==
    /\ stage = "repair"
    /\ Refused = "none" /\ Options # {}
    /\ Finish("raised")
    /\ UNCHANGED <<current, contract, verified, verdict, asks, repairHistory, refusal, bundle>>

\* final_status: a repair violation overrides the verifier's status.
Judged ==
    IF refusal \in {"none", "unsupported"} THEN verdict
    ELSE IF refusal = "exhausted" THEN "exhausted" ELSE "failed"

Judge ==
    /\ stage = "judge"
    /\ Finish(Judged)
    /\ bundle' = IF Judged = "passed" THEN {current} ELSE {}
    /\ UNCHANGED <<current, contract, verified, verdict, asks, repairHistory, refusal>>

Next ==
    \/ Fails \/ ValidateReady \/ GenerateAndVerify
    \/ RepairStops \/ RepairApplied \/ RepairRaises \/ Judge

Spec == Init /\ [][Next]_architectureVars
-----------------------------------------------------------------------------
(* Properties *)

\* Every variable stays in its type.
TypeOK ==
    /\ current \in Designs /\ original \in Designs
    /\ DOMAIN free \subseteq Paths /\ locked \subseteq Paths \ DOMAIN free
    /\ \A path \in DOMAIN free : free[path] \in Ranges
    /\ auto \in BOOLEAN
    /\ stage \in {"validate", "generate", "repair", "judge", "done"}
    /\ verified \subseteq Designs /\ bundle \subseteq Designs
    /\ verdict \in Verdicts \cup {"none"}
    /\ asks \subseteq Paths
    /\ repairHistory \in Seq([path : Paths, before : Values, after : Values])
    /\ Len(repairHistory) <= MaxRepairs
    /\ refusal \in {"none", "unsupported", "locked", "no free parameter", "exhausted"}
    /\ status \in Verdicts \cup {"running", "exhausted", "raised"}

\* A drawing that passes, be it the one after the last repair allowed, makes the run
\* pass: no bound and no refusal of an earlier iteration takes it back.
PassedVerdictStands == status \in {"failed", "exhausted"} => verdict # "passed"

\* repair_history accounts for every difference between the contract submitted and
\* the one the run ends with, each entry starting from the value the last one left.
HistoryExplainsDesign ==
    \A path \in Paths :
        LET Moves == {i \in DOMAIN repairHistory : repairHistory[i].path = path}
        IN /\ Moves = {} => current[path] = original[path]
           /\ \A i \in Moves :
                /\ (\A j \in Moves : j <= i) => current[path] = repairHistory[i].after
                /\ (\A j \in Moves : i <= j) => original[path] = repairHistory[i].before
                /\ \A j \in Moves :
                     (i < j /\ \A k \in Moves : k <= i \/ j <= k) =>
                         repairHistory[i].after = repairHistory[j].before

Bounded == INSTANCE BoundedRepair WITH
    design <- current,
    free <- DOMAIN free,
    judged <- IF verified # {current} THEN "not judged"
              ELSE IF verdict = "passed" THEN "clean" ELSE "faulty",
    repairs <- Len(repairHistory),
    outcome <- IF status \in {"running", "passed"} THEN status ELSE "refused"

\* The architecture run is a bounded repair.
ImplementsBoundedRepair == Bounded!Spec
=============================================================================
