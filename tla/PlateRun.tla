------------------------------ MODULE PlateRun -------------------------------
(***************************************************************************)
(* run_design of service.py: validate a plate contract, generate its DXF,  *)
(* verify the DXF independently, repair declared values at most three      *)
(* times, and bundle the drawing only when its verification passed.        *)
(*                                                                         *)
(* The verifier may find anything.  A contract whose repaired values do    *)
(* not fit the schema, or whose geometry fails in the loop, raises out of  *)
(* the run: the try around the first generation does not cover the loop.   *)
(***************************************************************************)
EXTENDS PlateRepair

CONSTANTS Starts,        \* the values the fields of a submitted contract may have
          MaxIterations  \* bound of the repair loop

ASSUME PlateRunAssumption ==
    /\ Starts \subseteq Values
    /\ MaxIterations \in Nat \ {0}

VARIABLES current,    \* the contract the loop works on
          policy,     \* its free parameters and locked dimensions
          auto,       \* auto_repair
          original,   \* the contract submitted
          stage,      \* where run_design is
          iteration,  \* its loop variable
          repairs,    \* repairs applied
          verified,   \* the contract the last verification is of, if any
          verdict,    \* the status of that verification
          bundle,     \* the contract bundled, if any
          status

plateVars == <<current, policy, auto, original, stage, iteration, repairs, verified,
               verdict, bundle, status>>

Verdicts == {"passed", "repairable", "failed"}

Init ==
    /\ current \in Designs /\ \A f \in Fields : current[f] \in Starts
    /\ policy \in ContractPolicies
    /\ auto \in BOOLEAN
    /\ original = current
    /\ stage = "validate"
    /\ iteration = 1
    /\ repairs = 0
    /\ verified = {}
    /\ verdict = "none"
    /\ bundle = {}
    /\ status = "running"
-----------------------------------------------------------------------------
(* Helpers *)

Finish(s) == stage' = "done" /\ status' = s

Verify(design, v) == verified' = {design} /\ verdict' = v
-----------------------------------------------------------------------------
(* Actions *)

\* validate_contract finds the contract not ready.
ValidateBlocked ==
    /\ stage = "validate"
    /\ Finish("failed")
    /\ UNCHANGED <<current, policy, auto, original, iteration, repairs, verified, verdict, bundle>>

ValidateReady ==
    /\ stage = "validate"
    /\ stage' = "generate"
    /\ UNCHANGED <<current, policy, auto, original, iteration, repairs, verified, verdict, bundle,
                   status>>

\* The first geometry or DXF error is answered with a failed run.
GenerateFails ==
    /\ stage = "generate"
    /\ Finish("failed")
    /\ UNCHANGED <<current, policy, auto, original, iteration, repairs, verified, verdict, bundle>>

GenerateAndVerify ==
    /\ stage = "generate"
    /\ \E v \in Verdicts :
         /\ Verify(current, v)
         /\ stage' = IF auto /\ v = "repairable" THEN "repair" ELSE "judge"
    /\ UNCHANGED <<current, policy, auto, original, iteration, repairs, bundle, status>>

\* Nothing to propose, or apply_repair rejects the proposal.
RepairStops ==
    /\ stage = "repair"
    /\ \E s \in Proposals(current, policy) :
         ~Accepts(current, current, policy, s) /\ ~ApplyRaises(current, current, policy, s)
    /\ stage' = "judge"
    /\ UNCHANGED <<current, policy, auto, original, iteration, repairs, verified, verdict, bundle,
                   status>>

\* A change that passes its checks is written, and the schema refuses the result: for a
\* direction without a length, or for a rule that is not modelled.
RepairRaises ==
    /\ stage = "repair"
    /\ \E s \in Proposals(current, policy) : s # <<>> /\ ChangeFits(current, policy, s, 1)
    /\ Finish("raised")
    /\ UNCHANGED <<current, policy, auto, original, iteration, repairs, verified, verdict, bundle>>

RepairApplied ==
    /\ stage = "repair"
    /\ \E s \in Proposals(current, policy) :
         /\ Accepts(current, current, policy, s)
         /\ current' = Applied(current, s)
    /\ repairs' = repairs + 1
    /\ stage' = "regenerate"
    /\ UNCHANGED <<policy, auto, original, iteration, verified, verdict, bundle, status>>

\* Mutant of AfterVerify: one iteration more.
AfterVerifyLate(v) ==
    IF v = "passed" \/ iteration > MaxIterations THEN "judge" ELSE "repair"

\* The loop ends when the drawing passes or the iterations are used up.
AfterVerify(v) ==
    IF v = "passed" \/ iteration = MaxIterations THEN "judge" ELSE "repair"

\* Mutant of Reverify: the repaired contract is judged by the drawing before.
ReverifyStale(v) ==
    /\ verdict' = v
    /\ stage' = AfterVerify(v)
    /\ UNCHANGED verified

Reverify(v) ==
    /\ Verify(current, v)
    /\ stage' = AfterVerify(v)

Regenerate ==
    /\ stage = "regenerate"
    /\ \E v \in Verdicts : Reverify(v)
    /\ iteration' = iteration + 1
    /\ UNCHANGED <<current, policy, auto, original, repairs, bundle, status>>

\* A geometry error of the repaired contract is not caught.
RegenerateRaises ==
    /\ stage = "regenerate"
    /\ Finish("raised")
    /\ UNCHANGED <<current, policy, auto, original, iteration, repairs, verified, verdict, bundle>>

\* build_verified_bundle refuses anything but a passed verification.
Bundled == IF verdict = "passed" THEN {current} ELSE {}

\* A run that entered the loop and did not pass is exhausted.
Judge ==
    /\ stage = "judge"
    /\ bundle' = Bundled
    /\ Finish(IF verdict = "passed" THEN "passed"
              ELSE IF auto /\ (repairs > 0 \/ verdict = "repairable") THEN "exhausted"
              ELSE verdict)
    /\ UNCHANGED <<current, policy, auto, original, iteration, repairs, verified, verdict>>

Next ==
    \/ ValidateBlocked \/ ValidateReady \/ GenerateFails \/ GenerateAndVerify
    \/ RepairStops \/ RepairRaises \/ RepairApplied \/ Regenerate \/ RegenerateRaises
    \/ Judge

Spec == Init /\ [][Next]_plateVars
-----------------------------------------------------------------------------
(* Properties *)

\* Every variable stays in its type.
TypeOK ==
    /\ current \in Designs /\ original \in Designs
    /\ policy \in ContractPolicies
    /\ auto \in BOOLEAN
    /\ stage \in {"validate", "generate", "repair", "regenerate", "judge", "done"}
    /\ iteration \in 1 .. MaxIterations + 1
    /\ repairs \in 0..MaxIterations
    /\ verified \subseteq Designs
    /\ verdict \in Verdicts \cup {"none"}
    /\ bundle \subseteq Designs
    /\ status \in Verdicts \cup {"running", "exhausted", "raised"}

\* A bundle holds the drawing of the contract that was verified last and passed,
\* and only a passed run has one (the approval conditions of TRD.md section 11).
BundleIsVerified ==
    /\ bundle # {} <=> status = "passed"
    /\ bundle # {} => bundle = verified /\ verdict = "passed"

\* No repair changes a value that a locked dimension names, by whatever path.
LockedValuesKept == \A f \in LockedFields(policy) : current[f] = original[f]

\* A value that a run changed lies in a range declared for its field, although the
\* proposals round to microns and the ranges do not.  Components of a direction may end
\* anywhere, since the validation scales what was in range.
RepairsStayInRange ==
    \A f \in Fields \ DOMAIN Partner : current[f] # original[f] =>
        \E path \in DOMAIN policy.free :
            FieldOf[path] = f /\ current[f] \in policy.free[path].min .. policy.free[path].max

\* The fields that a repair may change: those a free parameter names, and the other
\* component of a direction, unless a locked dimension names them.
FreeFields ==
    LET Named == {FieldOf[path] : path \in DOMAIN policy.free}
    IN (Named \cup {Partner[f] : f \in Named \cap DOMAIN Partner}) \ LockedFields(policy)

\* Whether the contract was verified as it is.  A repair of a direction may leave it as it
\* was, and still it is verified again: until then the loop counts a repair more.
Judged ==
    IF verified # {current} \/ iteration = repairs THEN "not judged"
    ELSE IF verdict = "passed" THEN "clean" ELSE "faulty"

Bounded == INSTANCE BoundedRepair WITH
    Paths <- Fields,
    MaxRepairs <- MaxIterations,
    design <- current,
    free <- FreeFields,
    judged <- Judged,
    repairs <- repairs,
    outcome <- IF status \in {"running", "passed"} THEN status ELSE "refused"

\* The plate run is a bounded repair.
ImplementsBoundedRepair == Bounded!Spec
=============================================================================
