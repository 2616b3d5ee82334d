------------------------------ MODULE FrameRun -------------------------------
(***************************************************************************)
(* run_frame_design of frame_service.py: validate the contract, solve the  *)
(* frame, check the limits, and with auto_repair enlarge declared section  *)
(* properties and start again, at most MaxIterations times.                *)
(*                                                                         *)
(* The solver is any function of the contract: what it returns for the     *)
(* sections at hand is chosen when they are first validated and kept.      *)
(* Repairs only enlarge sections, so no section vector comes up twice.     *)
(***************************************************************************)
EXTENDS Integers, FiniteSets

CONSTANTS Members,
          Paths,          \* <<member, field>> pairs
          Parameters,     \* the free parameters a contract may declare
          MaxParameters,  \* free parameters a contract may have
          MaxValue,       \* bound on a section property
          MaxIterations,  \* MAX_REPAIR_ITERATIONS
          MaxChanges,     \* changes in one proposal
          HighEnergy      \* members counted as high-energy ones

ASSUME FrameAssumption ==
    /\ IsFiniteSet(Members) /\ Members # {}
    /\ Paths \subseteq Members \X {"area", "inertia"}
    /\ \A p, q \in Parameters : p.id = q.id => p = q
    /\ \A p \in Parameters :
         /\ p.id \in 1..MaxParameters /\ p.path \in Paths /\ p.step \in Nat \ {0}
         /\ p.min \in 1..MaxValue /\ p.max \in p.min..MaxValue
    /\ MaxParameters \in Nat /\ MaxValue \in Nat
    /\ MaxIterations \in Nat \ {0}
    /\ MaxChanges \in Nat \ {0}
    /\ HighEnergy \in Nat \ {0}

VARIABLES sections,    \* the section properties of current
          wellFormed,  \* the topology is sound and a supplied hash is right
          locked,      \* the locked members
          free,        \* the declared free parameters
          auto,        \* auto_repair
          original,    \* the sections submitted
          stage,       \* where run_frame_design is
          iteration,   \* its loop variable
          solution,    \* what solve_frame returns for the sections
          analysed,    \* the sections analysis was computed from, if any
          violations,  \* kinds of violations
          proposal,    \* the last proposal: new values by parameter
          proposed,    \* proposals with status "proposed"
          applied,     \* proposals applied
          status

contract == <<wellFormed, locked, free, auto, original>>
frameVars == <<sections, contract, stage, iteration, solution, analysed, violations,
               proposal, proposed, applied, status>>

Values == 1..MaxValue
Designs == [Paths -> Values]

Least(x, y) == IF x <= y THEN x ELSE y
Most(x, y) == IF x >= y THEN x ELSE y

\* strain_energy ranks the members; the first HighEnergy of them count.
EnergySets ==
    {e \in SUBSET Members : Cardinality(e) = Least(HighEnergy, Cardinality(Members))}

Singular == [singular |-> TRUE, over |-> {}, sway |-> FALSE, energy |-> {}]

\* What solve_frame may return: it fails, or it finds members overstressed and
\* the displacement limit exceeded or not.
Solutions ==
    {Singular} \cup
    [singular : {FALSE}, over : SUBSET Members, sway : BOOLEAN, energy : EnergySets]

Init ==
    /\ sections \in Designs
    /\ wellFormed \in BOOLEAN
    /\ locked \in SUBSET Members
    /\ free \in SUBSET Parameters
    /\ auto \in BOOLEAN
    /\ original = sections
    /\ stage = "validate"
    /\ iteration = 1
    /\ solution = Singular
    /\ analysed = {}
    /\ violations = {}
    /\ proposal = <<>>
    /\ proposed = 0
    /\ applied = 0
    /\ status = "running"
-----------------------------------------------------------------------------
(* Helpers *)

\* The member a parameter's path names is locked.
OnLocked(p) == p.path[1] \in locked

\* _free_parameter_violations
ParameterFaults(design) ==
    {"locked path" : p \in {q \in free : OnLocked(q)}} \cup
    {"range" : p \in {q \in free : design[q.path] \notin q.min..q.max}}

\* validate_frame_contract, but for the solver run on a contract without faults.
\* A repair changes no topology and leaves the contract without a hash to compare.
StaticFaults(design) ==
    (IF wellFormed THEN {} ELSE {"malformed"}) \cup ParameterFaults(design)

\* _analysis_violations
LimitFaults(s) ==
    {"overstress" : m \in s.over} \cup (IF s.sway THEN {"displacement"} ELSE {})

\* Mutant of NextValues: the snapped value is not capped by the maximum.
NextValuesUncapped(p, current) ==
    {v \in Values : \E wanted \in current + 1 .. Most(p.max, current + 1) :
        v = Most(p.min + ((wanted - p.min + p.step - 1) \div p.step) * p.step,
                 current + p.step)}

\* _next_value: a larger value on the parameter's grid, or its maximum.  The
\* wanted value depends on utilizations, so any value up to the maximum may be.
NextValues(p, current) ==
    LET Snapped(wanted) ==
            Least(p.max, p.min + ((wanted - p.min + p.step - 1) \div p.step) * p.step)
    IN {v \in Values :
          /\ v > current
          /\ \E wanted \in current + 1 .. p.max :
               v = Most(Snapped(wanted), Least(p.max, current + p.step))}

\* The unlocked parameters whose member is overstressed, or bends too much.
Candidates ==
    {p \in free :
       /\ ~OnLocked(p)
       /\ \/ p.path[1] \in solution.over
          \/ solution.sway /\ p.path[2] = "inertia" /\ p.path[1] \in solution.energy
       /\ NextValues(p, sections[p.path]) # {}}

\* _propose_frame_repair: the first MaxChanges candidates by id.
Proposals ==
    LET Chosen == {p \in Candidates :
                     Cardinality({q \in Candidates : q.id < p.id}) < MaxChanges}
    IN {f \in [Chosen -> Values] : \A p \in Chosen : f[p] \in NextValues(p, sections[p.path])}

\* _apply_repair: the changes are written in order of id, so the last one stays
\* where two parameters share a path.
Repaired(f) ==
    [path \in Paths |->
       LET Writers == {p \in DOMAIN f : p.path = path}
       IN IF Writers = {} THEN sections[path]
          ELSE f[CHOOSE p \in Writers : \A q \in Writers : q.id <= p.id]]

Finish(verdict) == stage' = "done" /\ status' = verdict
-----------------------------------------------------------------------------
(* Actions *)

\* Validation blocks the analysis.
ValidateBlocked ==
    /\ stage = "validate"
    /\ violations' = IF StaticFaults(sections) # {} THEN StaticFaults(sections) ELSE {"singular"}
    /\ Finish("failed")
    /\ UNCHANGED <<sections, contract, iteration, solution, analysed, proposal, proposed, applied>>

ValidateReady ==
    /\ stage = "validate"
    /\ StaticFaults(sections) = {}
    /\ solution' \in Solutions \ {Singular}
    /\ stage' = "solve"
    /\ UNCHANGED <<sections, contract, iteration, analysed, violations, proposal, proposed,
                   applied, status>>

\* solve_frame and the limit checks.
Solve ==
    /\ stage = "solve"
    /\ IF solution.singular
       THEN /\ violations' = {"singular"}
            /\ Finish("failed")
            /\ UNCHANGED analysed
       ELSE /\ analysed' = {sections}
            /\ violations' = LimitFaults(solution)
            /\ stage' = IF violations' = {} THEN "judge" ELSE "propose"
            /\ UNCHANGED status
    /\ UNCHANGED <<sections, contract, iteration, solution, proposal, proposed, applied>>

\* Mutant of MayApply: the bound is reached one iteration late.
MayApplyLate(f) == auto /\ DOMAIN f # {} /\ iteration <= MaxIterations + 1

\* The loop goes on to apply the proposal.
MayApply(f) == auto /\ DOMAIN f # {} /\ iteration <= MaxIterations

\* A proposal is recorded even when the loop ends on it.
Propose ==
    /\ stage = "propose"
    /\ proposal' \in Proposals
    /\ proposed' = proposed + (IF DOMAIN proposal' # {} THEN 1 ELSE 0)
    /\ stage' = IF MayApply(proposal') THEN "apply" ELSE "judge"
    /\ UNCHANGED <<sections, contract, iteration, solution, analysed, violations, applied, status>>

\* Mutant of Revalidate: the faults of the repaired contract do not end the loop.
RevalidateLoosely(design) ==
    /\ solution' \in Solutions \ {Singular}
    /\ stage' = "solve"
    /\ UNCHANGED violations

\* validate_frame_contract of the repaired contract; its faults end the loop and
\* join the violations of the contract before.
Revalidate(design) ==
    \/ /\ StaticFaults(design) = {}
       /\ solution' \in Solutions \ {Singular}
       /\ stage' = "solve"
       /\ UNCHANGED violations
    \/ /\ solution' = Singular
       /\ violations' = violations \cup
            (IF StaticFaults(design) = {} THEN {"singular"} ELSE StaticFaults(design))
       /\ stage' = "judge"

\* _apply_repair raises on a locked member; nothing catches it.
ApplyRepair ==
    /\ stage = "apply"
    /\ IF \E p \in DOMAIN proposal : OnLocked(p)
       THEN /\ Finish("raised")
            /\ UNCHANGED <<sections, solution, violations, iteration, applied>>
       ELSE /\ sections' = Repaired(proposal)
            /\ Revalidate(Repaired(proposal))
            /\ iteration' = iteration + 1
            /\ applied' = applied + 1
            /\ UNCHANGED status
    /\ UNCHANGED <<contract, analysed, proposal, proposed>>

Verdict ==
    IF violations = {} THEN "passed"
    ELSE IF auto /\ proposed > 0 THEN "exhausted" ELSE "failed"

Judge ==
    /\ stage = "judge"
    /\ Finish(Verdict)
    /\ UNCHANGED <<sections, contract, iteration, solution, analysed, violations, proposal,
                   proposed, applied>>

Next == ValidateBlocked \/ ValidateReady \/ Solve \/ Propose \/ ApplyRepair \/ Judge

Spec == Init /\ [][Next]_frameVars
-----------------------------------------------------------------------------
(* Properties *)

\* Every variable stays in its type.
TypeOK ==
    /\ sections \in Designs /\ original \in Designs
    /\ wellFormed \in BOOLEAN /\ auto \in BOOLEAN
    /\ locked \subseteq Members /\ free \subseteq Parameters
    /\ stage \in {"validate", "solve", "propose", "apply", "judge", "done"}
    /\ iteration \in 1 .. MaxIterations + 1
    /\ solution \in Solutions
    /\ analysed \subseteq Designs
    /\ violations \subseteq {"malformed", "locked path", "range", "singular", "overstress",
                             "displacement"}
    /\ DOMAIN proposal \subseteq free
    /\ proposed \in 0 .. MaxIterations + 1
    /\ applied \in 0 .. MaxIterations
    /\ status \in {"running", "passed", "failed", "exhausted", "raised"}

\* No false pass: "passed" is said only of sections that are in range, that the
\* solver solved after their last change, and that keep every limit (the evidence
\* item false_pass_allowed of frame_service.py, invalid and singular models of
\* frameguard.md).
PassedIsProven ==
    status = "passed" =>
        /\ analysed = {sections}
        /\ wellFormed /\ ParameterFaults(sections) = {}
        /\ ~solution.singular /\ LimitFaults(solution) = {}

\* A locked member keeps its section properties through every repair.
LockedMembersKept ==
    \A path \in Paths : path[1] \in locked => sections[path] = original[path]

\* A changed section property was declared free, and stays in a declared range.
RepairsStayDeclared ==
    \A path \in Paths : sections[path] # original[path] =>
        \E p \in free : p.path = path /\ sections[path] \in p.min..p.max

\* Every repair applied enlarges some section property and shrinks none, so the
\* loop cannot cycle.
RepairsEnlarge ==
    [][applied' > applied =>
         /\ \A path \in Paths : sections'[path] >= sections[path]
         /\ \E path \in Paths : sections'[path] > sections[path]]_frameVars

Bounded == INSTANCE BoundedRepair WITH
    MaxRepairs <- MaxIterations,
    design <- sections,
    free <- {p.path : p \in {q \in free : ~OnLocked(q)}},
    judged <- IF analysed # {sections} THEN "not judged"
              ELSE IF LimitFaults(solution) = {} THEN "clean" ELSE "faulty",
    repairs <- applied,
    outcome <- IF status \in {"running", "passed"} THEN status ELSE "refused"

\* The frame run is a bounded repair.
ImplementsBoundedRepair == Bounded!Spec
=============================================================================
