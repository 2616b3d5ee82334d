--------------------------- MODULE FrameRunProofs ---------------------------
(***************************************************************************)
(* Proofs about FrameRun.  The invariant says, for every stage of the      *)
(* loop, what is known of the contract it works on: after validation it    *)
(* has no fault, at a proposal the last analysis is of these sections and  *)
(* found something, and at the verdict no violations means that everything *)
(* was checked on these sections.                                          *)
(***************************************************************************)
EXTENDS FrameRun, OrderLemmas, TLAPS

\* A free parameter does not touch a locked member, and its value is in range.
Sound(p, design) == ~OnLocked(p) /\ design[p.path] \in p.min..p.max

\* The types the argument needs.
Types ==
    /\ sections \in Designs /\ original \in Designs
    /\ free \subseteq Parameters
    /\ solution \in Solutions
    /\ stage \in {"validate", "solve", "propose", "apply", "judge", "done"}

\* What validation established of the contract in the loop.
Validated ==
    stage \in {"solve", "propose", "apply"} =>
        /\ wellFormed /\ ~solution.singular
        /\ \A p \in free : Sound(p, sections)

\* What is known of the last analysis.
Analysis ==
    /\ stage \in {"validate", "solve"} => analysed # {sections}
    /\ stage \in {"propose", "apply"} =>
         /\ analysed = {sections}
         /\ violations # {} /\ LimitFaults(solution) # {}
    /\ stage = "judge" /\ violations = {} =>
         /\ analysed = {sections} /\ wellFormed /\ ~solution.singular
         /\ \A p \in free : Sound(p, sections)
         /\ LimitFaults(solution) = {}

\* What a proposal may hold when it is applied.
ProposalSound ==
    stage = "apply" =>
        /\ DOMAIN proposal # {}
        /\ \A p \in DOMAIN proposal :
             /\ p \in free
             /\ proposal[p] \in Values /\ proposal[p] \in p.min..p.max
             /\ proposal[p] > sections[p.path]

\* The counters of the loop.
Counts ==
    /\ applied \in 0..MaxIterations
    /\ iteration = applied + 1
    /\ stage = "apply" => applied < MaxIterations /\ proposed = applied + 1
    /\ stage \in {"validate", "solve", "propose"} => proposed = applied
    /\ proposed \in applied .. applied + 1

\* The verdict is given once, at the end.
VerdictLast ==
    /\ stage # "done" <=> status = "running"
    /\ stage \in {"validate", "solve", "propose", "apply"} => status # "passed"

IInv ==
    /\ Types /\ Validated /\ Analysis /\ ProposalSound /\ Counts /\ VerdictLast
    /\ PassedIsProven /\ LockedMembersKept /\ RepairsStayDeclared
-----------------------------------------------------------------------------
LEMMA ParameterFacts ==
    ASSUME NEW p \in Parameters
    PROVE  /\ p.id \in 1..MaxParameters /\ p.path \in Paths /\ p.step \in Nat \ {0}
           /\ p.min \in 1..MaxValue /\ p.max \in p.min..MaxValue
           /\ MaxParameters \in Nat /\ MaxValue \in Nat /\ MaxIterations \in Nat \ {0}
  BY FrameAssumption

\* Validation finds no fault just where every free parameter is sound.
LEMMA NoFaults ==
    ASSUME NEW design
    PROVE  ParameterFaults(design) = {} <=> \A p \in free : Sound(p, design)
  BY DEF ParameterFaults, Sound

\* A proposed value is larger than the current one and within the range.
LEMMA NextValuesBound ==
    ASSUME NEW p \in Parameters, NEW c \in p.min..p.max, NEW v \in NextValues(p, c)
    PROVE  v \in Values /\ v > c /\ v \in p.min..p.max
<1> USE ParameterFacts
<1> DEFINE snapped(w) == Least(p.max, p.min + ((w - p.min + p.step - 1) \div p.step) * p.step)
<1>1. /\ v \in Values /\ v > c
      /\ \E w \in c + 1 .. p.max : v = Most(snapped(w), Least(p.max, c + p.step))
  BY DEF NextValues
<1>2. PICK w \in c + 1 .. p.max : v = Most(snapped(w), Least(p.max, c + p.step))
  BY <1>1
<1>3. /\ p.min \in Int /\ p.max \in Int /\ c \in Int /\ p.step \in Int /\ w \in Int
      /\ p.step > 0 /\ p.min <= c /\ v \in Int
  BY <1>1 DEF Values
<1> DEFINE q == (w - p.min + p.step - 1) \div p.step
<1>4. q * p.step \in Int
  BY <1>3
<1>5. snapped(w) <= p.max /\ snapped(w) \in Int
  <2> DEFINE r == q * p.step
  <2>1. r \in Int
    BY <1>4
  <2>2. snapped(w) = Least(p.max, p.min + r)
    OBVIOUS
  <2> HIDE DEF r
  <2> QED  BY <2>1, <2>2, <1>3 DEF Least
<1>6. v <= p.max
  <2> HIDE DEF snapped
  <2> QED  BY <1>2, <1>3, <1>5 DEF Most, Least
<1> QED  BY <1>1, <1>3, <1>6

\* Where a path is written at all, the last writer's value ends up there.
LEMMA RepairedAt ==
    ASSUME NEW f, DOMAIN f \subseteq Parameters, NEW path \in Paths
    PROVE  \/ /\ \A p \in DOMAIN f : p.path # path
              /\ Repaired(f)[path] = sections[path]
           \/ \E p \in DOMAIN f : p.path = path /\ Repaired(f)[path] = f[p]
<1> DEFINE Writers == {p \in DOMAIN f : p.path = path}
<1>1. CASE Writers = {}
  BY <1>1 DEF Repaired
<1>2. CASE Writers # {}
  <2> DEFINE Ids == {p.id : p \in Writers}
  <2>1. Ids \in SUBSET (0..MaxParameters) /\ Ids # {} /\ MaxParameters \in Nat
    BY <1>2, ParameterFacts, FrameAssumption
  <2>2. PICK m \in Ids : \A n \in Ids : n <= m
    <3> HIDE DEF Ids
    <3> QED  BY <2>1, LargestExists
  <2>3. PICK p \in Writers : m = p.id
    BY <2>2
  <2>4. \A q \in Writers : q.id <= p.id
    BY <2>2, <2>3
  <2> DEFINE last == CHOOSE x \in Writers : \A q \in Writers : q.id <= x.id
  <2>5. last \in Writers
    BY <2>3, <2>4
  <2>6. Repaired(f)[path] = f[last]
    BY <1>2 DEF Repaired
  <2> QED  BY <2>5, <2>6
<1> QED  BY <1>1, <1>2

\* A repair enlarges what it changes, within the ranges of unlocked parameters.
LEMMA RepairEffect ==
    ASSUME Types, Validated, ProposalSound, stage = "apply"
    PROVE  /\ Repaired(proposal) \in Designs
           /\ \A path \in Paths :
                \/ Repaired(proposal)[path] = sections[path]
                \/ /\ Repaired(proposal)[path] > sections[path]
                   /\ \E p \in free : /\ p.path = path /\ ~OnLocked(p)
                                      /\ Repaired(proposal)[path] \in p.min..p.max
           /\ \E path \in Paths : Repaired(proposal)[path] > sections[path]
<1>1. DOMAIN proposal \subseteq Parameters
  BY DEF Types, ProposalSound
<1>2. ASSUME NEW path \in Paths
      PROVE  \/ /\ \A p \in DOMAIN proposal : p.path # path
                /\ Repaired(proposal)[path] = sections[path]
             \/ /\ Repaired(proposal)[path] \in Values
                /\ Repaired(proposal)[path] > sections[path]
                /\ \E p \in free : /\ p.path = path /\ ~OnLocked(p)
                                   /\ Repaired(proposal)[path] \in p.min..p.max
  <2>1. CASE \E p \in DOMAIN proposal : p.path = path /\ Repaired(proposal)[path] = proposal[p]
    BY <2>1 DEF ProposalSound, Validated, Sound
  <2> QED  BY <1>1, <2>1, RepairedAt
<1>3. \A path \in Paths : Repaired(proposal)[path] \in Values
  BY <1>2 DEF Types, Designs
<1>4. Repaired(proposal) \in Designs
  BY <1>3 DEF Repaired, Designs
<1>5. PICK p \in DOMAIN proposal : TRUE
  BY DEF ProposalSound
<1>6. p.path \in Paths /\ Repaired(proposal)[p.path] > sections[p.path]
  BY <1>1, <1>2, <1>5, ParameterFacts
<1> QED  BY <1>2, <1>4, <1>6

LEMMA SolutionFacts ==
    /\ Singular \in Solutions /\ Singular.singular
    /\ \A s \in Solutions \ {Singular} : ~s.singular
  BY DEF Solutions, Singular
-----------------------------------------------------------------------------
(* One lemma per action *)

LEMMA ValidateStep ==
    ASSUME IInv, ValidateBlocked \/ ValidateReady
    PROVE  IInv'
<1>1. CASE ValidateBlocked
  BY <1>1
  DEF ValidateBlocked, contract, Finish, IInv, Types, Validated, Analysis, ProposalSound, Counts,
      VerdictLast, PassedIsProven, LockedMembersKept, RepairsStayDeclared
<1>2. CASE ValidateReady
  <2>1. wellFormed /\ ParameterFaults(sections) = {}
    BY <1>2 DEF ValidateReady, StaticFaults
  <2>2. \A p \in free : Sound(p, sections)
    BY <2>1, NoFaults
  <2>3. UNCHANGED <<sections, free, locked>> /\ \A p \in free' : Sound(p, sections)'
    BY <1>2, <2>2 DEF ValidateReady, contract, Sound, OnLocked
  <2>4. solution' \in Solutions /\ ~solution'.singular
    BY <1>2, SolutionFacts DEF ValidateReady
  <2> QED
    BY <1>2, <2>1, <2>3, <2>4
    DEF ValidateReady, contract, IInv, Types, Validated, Analysis, ProposalSound, Counts,
        VerdictLast, PassedIsProven, LockedMembersKept, RepairsStayDeclared
<1> QED  BY <1>1, <1>2

LEMMA SolveStep ==
    ASSUME IInv, Solve
    PROVE  IInv'
<1>1. /\ stage = "solve" /\ ~solution.singular /\ wellFormed
      /\ \A p \in free : Sound(p, sections)
  BY DEF IInv, Solve, Validated
<1>2. /\ analysed' = {sections} /\ violations' = LimitFaults(solution)
      /\ stage' = IF violations' = {} THEN "judge" ELSE "propose"
      /\ UNCHANGED <<sections, contract, iteration, solution, proposal, proposed, applied, status>>
  BY <1>1 DEF Solve
<1>3. /\ \A p \in free' : Sound(p, sections)'
      /\ LimitFaults(solution)' = LimitFaults(solution)
  BY <1>1, <1>2 DEF contract, Sound, OnLocked, LimitFaults
<1>4. Types' /\ Validated' /\ Analysis'
  BY <1>1, <1>2, <1>3 DEF contract, IInv, Types, Validated, Analysis
<1>5. ProposalSound' /\ Counts' /\ VerdictLast'
  BY <1>1, <1>2 DEF contract, IInv, ProposalSound, Counts, VerdictLast
<1>6. PassedIsProven' /\ LockedMembersKept' /\ RepairsStayDeclared'
  BY <1>1, <1>2
  DEF contract, IInv, VerdictLast, PassedIsProven, LockedMembersKept, RepairsStayDeclared
<1> QED  BY <1>4, <1>5, <1>6 DEF IInv

LEMMA ProposeStep ==
    ASSUME IInv, Propose
    PROVE  IInv'
<1>1. /\ stage = "propose" /\ wellFormed /\ ~solution.singular
      /\ violations # {} /\ \A p \in free : Sound(p, sections)
  BY DEF IInv, Propose, Validated, Analysis
<1>2. /\ proposal' \in Proposals
      /\ proposed' = proposed + (IF DOMAIN proposal' # {} THEN 1 ELSE 0)
      /\ stage' = IF MayApply(proposal') THEN "apply" ELSE "judge"
      /\ UNCHANGED <<sections, contract, iteration, solution, analysed, violations, applied, status>>
  BY DEF Propose
<1>3. /\ \A p \in free' : Sound(p, sections)'
      /\ LimitFaults(solution)' = LimitFaults(solution)
  BY <1>1, <1>2 DEF contract, Sound, OnLocked, LimitFaults
<1>4. \A p \in DOMAIN proposal' :
          /\ p \in free /\ proposal'[p] \in NextValues(p, sections[p.path])
  BY <1>2 DEF Proposals, Candidates
<1>5. \A p \in DOMAIN proposal' :
          /\ p \in free
          /\ proposal'[p] \in Values /\ proposal'[p] \in p.min..p.max
          /\ proposal'[p] > sections[p.path]
  BY <1>1, <1>4, NextValuesBound DEF IInv, Types, Sound
<1>6. stage' = "apply" => DOMAIN proposal' # {} /\ iteration <= MaxIterations
  BY <1>2 DEF MayApply
<1>7. Types' /\ Validated' /\ Analysis'
  BY <1>1, <1>2, <1>3 DEF contract, IInv, Types, Validated, Analysis
<1>8. ProposalSound'
  BY <1>2, <1>5, <1>6 DEF contract, ProposalSound
<1>9. Counts'
  <2>1. /\ applied \in 0..MaxIterations /\ iteration = applied + 1 /\ proposed = applied
    BY <1>1 DEF IInv, Counts
  <2> QED  BY <1>2, <1>6, <2>1, FrameAssumption DEF Counts
<1>10. VerdictLast' /\ PassedIsProven' /\ LockedMembersKept' /\ RepairsStayDeclared'
  BY <1>1, <1>2
  DEF contract, IInv, VerdictLast, PassedIsProven, LockedMembersKept, RepairsStayDeclared
<1> QED  BY <1>7, <1>8, <1>9, <1>10 DEF IInv

LEMMA ApplyStep ==
    ASSUME IInv, ApplyRepair
    PROVE  IInv' /\ sections' = Repaired(proposal) /\ applied' = applied + 1
<1>1. /\ stage = "apply" /\ wellFormed /\ violations # {}
      /\ \A p \in free : Sound(p, sections)
  BY DEF IInv, ApplyRepair, Validated, Analysis
<1>2. ~\E p \in DOMAIN proposal : OnLocked(p)
  BY <1>1 DEF IInv, ProposalSound, Sound
<1>3. /\ sections' = Repaired(proposal)
      /\ Revalidate(Repaired(proposal))
      /\ iteration' = iteration + 1
      /\ applied' = applied + 1
      /\ UNCHANGED <<status, contract, analysed, proposal, proposed>>
  BY <1>2 DEF ApplyRepair
<1>4. /\ Repaired(proposal) \in Designs
      /\ \A path \in Paths :
           \/ Repaired(proposal)[path] = sections[path]
           \/ \E p \in free : /\ p.path = path /\ ~OnLocked(p)
                              /\ Repaired(proposal)[path] \in p.min..p.max
      /\ Repaired(proposal) # sections
  <2>1. \A path \in Paths : sections[path] \in Int
    BY DEF IInv, Types, Designs, Values
  <2> QED  BY <1>1, <2>1, RepairEffect DEF IInv
<1>5. \/ /\ \A p \in free : Sound(p, Repaired(proposal))
         /\ solution' \in Solutions /\ ~solution'.singular
         /\ stage' = "solve" /\ violations' = violations
      \/ /\ solution' \in Solutions
         /\ stage' = "judge" /\ violations' # {}
  <2>1. CASE /\ StaticFaults(Repaired(proposal)) = {}
             /\ solution' \in Solutions \ {Singular}
             /\ stage' = "solve" /\ UNCHANGED violations
    BY <2>1, NoFaults, SolutionFacts DEF StaticFaults
  <2>2. CASE /\ solution' = Singular
             /\ violations' = violations \cup
                  (IF StaticFaults(Repaired(proposal)) = {} THEN {"singular"}
                   ELSE StaticFaults(Repaired(proposal)))
             /\ stage' = "judge"
    BY <1>1, <2>2, SolutionFacts
  <2> QED  BY <1>3, <2>1, <2>2 DEF Revalidate
<1>6. Types'
  BY <1>3, <1>4, <1>5 DEF contract, IInv, Types
<1>7. Validated'
  <2>1. CASE stage' = "solve"
    <3>1. \A p \in free : Sound(p, Repaired(proposal))
      BY <1>5, <2>1
    <3>2. \A p \in free' : Sound(p, sections)'
      BY <1>3, <3>1 DEF contract, Sound, OnLocked
    <3> QED  BY <1>1, <1>3, <1>5, <2>1, <3>2 DEF contract, Validated
  <2> QED  BY <1>5, <2>1 DEF Validated
<1>8. Analysis'
  <2>1. analysed' # {sections'}
    BY <1>1, <1>3, <1>4 DEF IInv, Analysis
  <2> QED  BY <1>5, <2>1 DEF Analysis
<1>9. ProposalSound'
  BY <1>5 DEF ProposalSound
<1>10. Counts'
  <2>1. /\ applied \in 0..MaxIterations /\ iteration = applied + 1 /\ applied < MaxIterations
        /\ proposed \in applied..applied + 1
    BY <1>1 DEF IInv, Counts
  <2>2. proposed = applied + 1
    BY <1>1 DEF IInv, Counts
  <2> QED  BY <1>3, <1>5, <2>1, <2>2, FrameAssumption DEF Counts
<1>11. VerdictLast' /\ PassedIsProven'
  BY <1>1, <1>3, <1>5 DEF contract, IInv, VerdictLast, PassedIsProven
<1>12. LockedMembersKept' /\ RepairsStayDeclared'
  <2>1. ASSUME NEW path \in Paths, path[1] \in locked
        PROVE  Repaired(proposal)[path] = original[path]
    BY <1>4, <2>1 DEF IInv, LockedMembersKept, OnLocked
  <2>2. ASSUME NEW path \in Paths, Repaired(proposal)[path] # original[path]
        PROVE  \E p \in free : p.path = path /\ Repaired(proposal)[path] \in p.min..p.max
    BY <1>4, <2>2 DEF IInv, RepairsStayDeclared
  <2> QED  BY <1>3, <2>1, <2>2 DEF contract, LockedMembersKept, RepairsStayDeclared
<1> QED  BY <1>3, <1>6, <1>7, <1>8, <1>9, <1>10, <1>11, <1>12 DEF IInv

LEMMA JudgeStep ==
    ASSUME IInv, Judge
    PROVE  IInv'
<1>1. /\ stage = "judge" /\ stage' = "done" /\ status' = Verdict
      /\ UNCHANGED <<sections, contract, iteration, solution, analysed, violations, proposal,
                     proposed, applied>>
  BY DEF Judge, Finish
<1>2. PassedIsProven'
  <2>1. ASSUME status' = "passed"
        PROVE  /\ analysed = {sections} /\ wellFormed /\ ~solution.singular
               /\ \A p \in free : Sound(p, sections)
               /\ LimitFaults(solution) = {}
    BY <1>1, <2>1 DEF Verdict, IInv, Analysis
  <2>2. /\ ParameterFaults(sections)' = ParameterFaults(sections)
        /\ LimitFaults(solution)' = LimitFaults(solution)
    BY <1>1 DEF contract, ParameterFaults, OnLocked, LimitFaults
  <2> QED  BY <1>1, <2>1, <2>2, NoFaults DEF contract, PassedIsProven
<1>3. status' # "running"
  BY <1>1 DEF Verdict
<1> QED
  BY <1>1, <1>2, <1>3
  DEF contract, IInv, Types, Validated, Analysis, ProposalSound, Counts, VerdictLast,
      LockedMembersKept, RepairsStayDeclared

LEMMA InitIInv == Init => IInv
  BY FrameAssumption, SolutionFacts
  DEF Init, IInv, Types, Validated, Analysis, ProposalSound, Counts, VerdictLast, PassedIsProven,
      LockedMembersKept, RepairsStayDeclared

LEMMA NextIInv == IInv /\ [Next]_frameVars => IInv'
<1> SUFFICES ASSUME IInv, [Next]_frameVars PROVE IInv'
  OBVIOUS
<1>1. CASE UNCHANGED frameVars
  BY <1>1
  DEF frameVars, contract, IInv, Types, Validated, Analysis, ProposalSound, Counts, VerdictLast,
      PassedIsProven, LockedMembersKept, RepairsStayDeclared, Sound, OnLocked, LimitFaults,
      ParameterFaults
<1> QED
  BY <1>1, ValidateStep, SolveStep, ProposeStep, ApplyStep, JudgeStep DEF Next

\* The invariant of the frame run, for every frame, every contract and every solver.
THEOREM FrameInvariant == Spec => []IInv
  BY InitIInv, NextIInv, PTL DEF Spec

LEMMA InitTypes == Init => TypeOK
  BY FrameAssumption, SolutionFacts DEF Init, TypeOK

LEMMA NextTypes == IInv /\ TypeOK /\ [Next]_frameVars => TypeOK'
<1> SUFFICES ASSUME IInv, TypeOK, [Next]_frameVars PROVE TypeOK'
  OBVIOUS
<1>1. Types' /\ Counts'
  BY NextIInv DEF IInv
<1>2. iteration' \in 1 .. MaxIterations + 1 /\ proposed' \in 0 .. MaxIterations + 1
  <2>1. /\ applied' \in 0 .. MaxIterations
        /\ iteration' = applied' + 1
        /\ proposed' \in applied' .. applied' + 1
    BY <1>1 DEF Counts
  <2>2. MaxIterations \in Nat
    BY FrameAssumption
  <2>3. ASSUME NEW m \in Nat, NEW a \in 0 .. m, NEW p \in a .. a + 1
        PROVE  a + 1 \in 1 .. m + 1 /\ p \in 0 .. m + 1
    OBVIOUS
  <2> QED  BY <2>1, <2>2, <2>3
<1>3. UNCHANGED <<wellFormed, auto, locked, free>>
  BY DEF Next, frameVars, contract, ValidateBlocked, ValidateReady, Solve, Propose, ApplyRepair,
         Judge
<1>4. analysed' \subseteq Designs
  BY DEF Next, frameVars, ValidateBlocked, ValidateReady, Solve, Propose, ApplyRepair, Judge,
         TypeOK
<1>5. DOMAIN proposal' \subseteq free'
  <2>1. CASE Propose
    BY <1>3, <2>1 DEF Propose, Proposals, Candidates
  <2>2. CASE ~Propose
    BY <1>3, <2>2
    DEF Next, frameVars, ValidateBlocked, ValidateReady, Solve, ApplyRepair, Judge, TypeOK
  <2> QED  BY <2>1, <2>2
<1>6. violations' \subseteq {"malformed", "locked path", "range", "singular", "overstress",
                            "displacement"}
  <2>1. \A design : StaticFaults(design) \subseteq {"malformed", "locked path", "range"}
    BY DEF StaticFaults, ParameterFaults
  <2>2. LimitFaults(solution) \subseteq {"overstress", "displacement"}
    BY DEF LimitFaults
  <2> QED
    BY <2>1, <2>2
    DEF Next, frameVars, ValidateBlocked, ValidateReady, Solve, Propose, ApplyRepair, Revalidate,
        Judge, TypeOK
<1>7. status' \in {"running", "passed", "failed", "exhausted", "raised"}
  BY DEF Next, frameVars, ValidateBlocked, ValidateReady, Solve, Propose, ApplyRepair, Judge,
         Verdict, Finish, TypeOK
<1> QED  BY <1>1, <1>2, <1>3, <1>4, <1>5, <1>6, <1>7 DEF Types, Counts, TypeOK

\* Every variable of the run stays in its type.
THEOREM FrameTypes == Spec => []TypeOK
  BY InitTypes, NextTypes, FrameInvariant, PTL DEF Spec

\* No frame run says "passed" of sections that it has not validated, solved and found
\* within every limit after their last change.
THEOREM PassedFramesAreProven == Spec => []PassedIsProven
<1>1. IInv => PassedIsProven  BY DEF IInv
<1> QED  BY <1>1, FrameInvariant, PTL

\* No repair changes a locked member.
THEOREM LockedMembersStay == Spec => []LockedMembersKept
<1>1. IInv => LockedMembersKept  BY DEF IInv
<1> QED  BY <1>1, FrameInvariant, PTL

\* Repairs change declared properties only, within a declared range.
THEOREM FrameRepairsStayDeclared == Spec => []RepairsStayDeclared
<1>1. IInv => RepairsStayDeclared  BY DEF IInv
<1> QED  BY <1>1, FrameInvariant, PTL

\* Every repair enlarges a section and shrinks none, so no design comes up twice.
THEOREM FrameRepairsEnlarge == Spec => RepairsEnlarge
<1>1. ASSUME IInv, [Next]_frameVars, applied' > applied
      PROVE  /\ \A path \in Paths : sections'[path] >= sections[path]
             /\ \E path \in Paths : sections'[path] > sections[path]
  <2>1. applied \in Int
    BY <1>1 DEF IInv, Counts
  <2>2. applied' # applied
    BY <1>1, <2>1
  <2>3. ApplyRepair
    BY <1>1, <2>2
    DEF Next, frameVars, ValidateBlocked, ValidateReady, Solve, Propose, Judge
  <2>4. stage = "apply" /\ sections' = Repaired(proposal)
    BY <1>1, <2>3, ApplyStep DEF ApplyRepair
  <2>5. \A path \in Paths : sections[path] \in Int
    BY <1>1 DEF IInv, Types, Designs, Values
  <2> QED  BY <1>1, <2>4, <2>5, RepairEffect DEF IInv
<1>2. IInv /\ [Next]_frameVars =>
        [applied' > applied =>
           /\ \A path \in Paths : sections'[path] >= sections[path]
           /\ \E path \in Paths : sections'[path] > sections[path]]_frameVars
  BY <1>1
<1> QED  BY <1>2, FrameInvariant, PTL DEF Spec, RepairsEnlarge
-----------------------------------------------------------------------------
(* The frame run implements BoundedRepair *)

\* The refinement mapping of Bounded, by name.
FreePaths == {p.path : p \in {q \in free : ~OnLocked(q)}}
Judged ==
    IF analysed # {sections} THEN "not judged"
    ELSE IF LimitFaults(solution) = {} THEN "clean" ELSE "faulty"
Outcome == IF status \in {"running", "passed"} THEN status ELSE "refused"

LEMMA RunInit == Init => Bounded!Init
<1> SUFFICES ASSUME Init PROVE Bounded!Init
  OBVIOUS
<1>1. FreePaths \in SUBSET Paths
  BY ParameterFacts DEF Init, FreePaths
<1>2. Judged = "not judged" /\ Outcome = "running" /\ applied = 0
  BY DEF Init, Judged, Outcome
<1> QED
  BY <1>1, <1>2 DEF Init, Designs, Bounded!Init, FreePaths, Judged, Outcome

\* What is mapped stays when the sections, the analysis and the contract do.
LEMMA MappedStays ==
    ASSUME UNCHANGED <<sections, contract, analysed, applied>>
    PROVE  /\ FreePaths' = FreePaths
           /\ UNCHANGED solution => Judged' = Judged
           /\ UNCHANGED status => Outcome' = Outcome
  BY DEF contract, FreePaths, OnLocked, Judged, LimitFaults, Outcome

LEMMA RunStep == IInv /\ [Next]_frameVars => [Bounded!Next]_(Bounded!vars)
<1> SUFFICES ASSUME IInv, [Next]_frameVars PROVE [Bounded!Next]_(Bounded!vars)
  OBVIOUS
<1>0. ASSUME UNCHANGED <<sections, contract, analysed, applied, status>>, Judged' = Judged
      PROVE  UNCHANGED Bounded!vars
  BY <1>0, MappedStays DEF Bounded!vars, FreePaths, Judged, Outcome
<1>1. CASE ValidateBlocked
  <2>1. Bounded!Refuse
    <3>1. Outcome = "running" /\ Outcome' = "refused" /\ Judged' = Judged /\ FreePaths' = FreePaths
      BY <1>1, MappedStays DEF ValidateBlocked, Finish, IInv, VerdictLast, Outcome
    <3> QED  BY <1>1, <3>1 DEF ValidateBlocked, Bounded!Refuse, FreePaths, Judged, Outcome
  <2> QED  BY <2>1 DEF Bounded!Next
<1>2. CASE ValidateReady
  <2>1. analysed # {sections} /\ UNCHANGED <<sections, contract, analysed, applied, status>>
    BY <1>2 DEF ValidateReady, IInv, Analysis
  <2>2. Judged' = Judged
    BY <2>1 DEF Judged
  <2> QED  BY <1>0, <2>1, <2>2
<1>3. CASE Solve
  <2>1. /\ stage = "solve" /\ analysed # {sections} /\ status = "running"
        /\ ~solution.singular
    BY <1>3 DEF Solve, IInv, Analysis, VerdictLast, Validated
  <2>2. /\ analysed' = {sections}
        /\ UNCHANGED <<sections, contract, solution, applied, status>>
    BY <1>3, <2>1 DEF Solve
  <2>3. /\ Judged = "not judged" /\ Judged' \in {"clean", "faulty"}
        /\ Outcome = "running" /\ Outcome' = "running" /\ FreePaths' = FreePaths
    BY <2>1, <2>2 DEF Judged, Outcome, FreePaths, OnLocked, contract
  <2>4. Bounded!Judge
    BY <2>2, <2>3 DEF Bounded!Judge, FreePaths, Judged, Outcome
  <2> QED  BY <2>4 DEF Bounded!Next
<1>4. CASE Propose
  <2>1. UNCHANGED <<sections, contract, analysed, solution, applied, status>>
    BY <1>4 DEF Propose
  <2> QED  BY <1>0, <2>1, MappedStays
<1>5. CASE ApplyRepair
  <2>1. /\ stage = "apply" /\ status = "running" /\ applied < MaxIterations
        /\ analysed = {sections} /\ LimitFaults(solution) # {}
    BY <1>5 DEF ApplyRepair, IInv, Analysis, VerdictLast, Counts
  <2>2. sections' = Repaired(proposal) /\ applied' = applied + 1
    BY <1>5, ApplyStep
  <2>3. UNCHANGED <<contract, analysed, status>>
    <3>1. ~\E p \in DOMAIN proposal : OnLocked(p)
      BY <2>1 DEF IInv, ProposalSound, Validated, Sound
    <3> QED  BY <1>5, <3>1 DEF ApplyRepair
  <2>4. /\ sections' \in Designs /\ sections' # sections
        /\ \A path \in Paths \ FreePaths : sections'[path] = sections[path]
    <3>1. \A path \in Paths : sections[path] \in Int
      BY DEF IInv, Types, Designs, Values
    <3> QED  BY <2>1, <2>2, <3>1, RepairEffect DEF IInv, FreePaths
  <2>5. /\ Judged = "faulty" /\ Judged' = "not judged"
        /\ Outcome = "running" /\ Outcome' = "running" /\ FreePaths' = FreePaths
    BY <2>1, <2>3, <2>4 DEF Judged, Outcome, FreePaths, OnLocked, contract
  <2>6. Bounded!Repair
    BY <2>1, <2>2, <2>4, <2>5 DEF Bounded!Repair, FreePaths, Judged, Outcome, Designs
  <2> QED  BY <2>6 DEF Bounded!Next
<1>6. CASE Judge
  <2>1. /\ stage = "judge" /\ status = "running" /\ status' = Verdict
        /\ UNCHANGED <<sections, contract, solution, analysed, applied>>
    BY <1>6 DEF Judge, Finish, IInv, VerdictLast
  <2>2. Judged' = Judged /\ FreePaths' = FreePaths /\ Outcome = "running"
    BY <2>1, MappedStays DEF Outcome
  <2>3. CASE violations = {}
    <3>1. Judged = "clean"
      BY <2>1, <2>3 DEF IInv, Analysis, Judged
    <3>2. Outcome' = "passed"
      BY <2>1, <2>3 DEF Verdict, Outcome
    <3>3. Bounded!Pass
      BY <2>1, <2>2, <3>1, <3>2 DEF Bounded!Pass, FreePaths, Judged, Outcome
    <3> QED  BY <3>3 DEF Bounded!Next
  <2>4. CASE violations # {}
    <3>1. Outcome' = "refused"
      BY <2>1, <2>4 DEF Verdict, Outcome
    <3>2. Bounded!Refuse
      BY <2>1, <2>2, <3>1 DEF Bounded!Refuse, FreePaths, Judged, Outcome
    <3> QED  BY <3>2 DEF Bounded!Next
  <2> QED  BY <2>3, <2>4
<1>7. CASE UNCHANGED frameVars
  <2>1. UNCHANGED <<sections, contract, analysed, solution, applied, status>>
    BY <1>7 DEF frameVars
  <2> QED  BY <1>0, <2>1, MappedStays
<1> QED  BY <1>1, <1>2, <1>3, <1>4, <1>5, <1>6, <1>7 DEF Next

\* Whatever the solver answers, a frame run is a bounded repair: it judges each design
\* before it repairs or passes it, repairs unlocked free paths only, and at most
\* MaxIterations times.
THEOREM FrameImplementsBoundedRepair == Spec => ImplementsBoundedRepair
  BY RunInit, RunStep, FrameInvariant, PTL DEF Spec, Bounded!Spec, ImplementsBoundedRepair
=============================================================================
