------------------------ MODULE ArchitectureRunProofs ------------------------
(***************************************************************************)
(* Proofs about the architecture run and the workspace that drives it.     *)
(* - The run: the invariant says, for every stage of the loop, which plan  *)
(*   the last verification is of and that no refusal is left over while    *)
(*   the loop goes on; the history is followed path by path.               *)
(* - The workspace: the steps that can be undone and redone never exceed   *)
(*   the limit together, so no edit cuts what undo still reaches; a check  *)
(*   under way whose request is current is of the draft.                   *)
(* - Its readiness poll: every sleep ends when the server allows it or at  *)
(*   the deadline.                                                         *)
(***************************************************************************)
EXTENDS ArchitectureRun, ArchitectureWorkspace, ReadinessPolling, SequenceTheorems, TLAPS

Moves == [path : Paths, before : Values, after : Values]

\* Which plan the last verification is of, what it said, and how far the loop is.
Verification ==
    /\ stage = "validate" => verified = {} /\ verdict = "none" /\ repairHistory = <<>>
    /\ stage = "generate" => verified # {current} /\ verdict # "passed"
    /\ stage = "repair" => /\ verified = {current} /\ verdict \in {"repairable", "failed"}
                           /\ Len(repairHistory) < MaxRepairs
    /\ stage = "judge" => verified = {current} /\ verdict \in Verdicts

\* A refusal ends the loop, and none is raised over a passed verification.
Refusals ==
    /\ stage \in {"validate", "generate", "repair"} => refusal = "none"
    /\ stage = "judge" /\ verdict = "passed" => refusal = "none"

\* The verdict is given once, at the end.
VerdictLast == stage # "done" <=> status = "running"

IInv ==
    /\ TypeOK /\ Verification /\ Refusals /\ VerdictLast
    /\ PassedVerdictStands /\ HistoryExplainsDesign
-----------------------------------------------------------------------------
(* The history *)

MovesOf(h, path) == {i \in DOMAIN h : h[i].path = path}

\* The moves of one path lead from its first value to its last one, link by link.
Explains(h, path, first, last) ==
    /\ MovesOf(h, path) = {} => last = first
    /\ \A i \in MovesOf(h, path) :
         /\ (\A j \in MovesOf(h, path) : j <= i) => last = h[i].after
         /\ (\A j \in MovesOf(h, path) : i <= j) => first = h[i].before
         /\ \A j \in MovesOf(h, path) :
              (i < j /\ \A k \in MovesOf(h, path) : k <= i \/ j <= k) => h[i].after = h[j].before

LEMMA HistoryByPath ==
    HistoryExplainsDesign <=>
        \A path \in Paths : Explains(repairHistory, path, original[path], current[path])
  BY DEF HistoryExplainsDesign, Explains, MovesOf

\* A move appended continues the moves of its own path.
LEMMA ExplainsAppend ==
    ASSUME NEW h \in Seq(Moves), NEW c \in Moves, NEW first, NEW last,
           Explains(h, c.path, first, last), c.before = last
    PROVE  Explains(Append(h, c), c.path, first, c.after)
<1> DEFINE n == Len(h)
           g == Append(h, c)
           Old == MovesOf(h, c.path)
           New == MovesOf(g, c.path)
<1>1. /\ n \in Nat /\ DOMAIN h = 1..n /\ DOMAIN g = 1..n + 1
      /\ g[n + 1] = c /\ \A i \in 1..n : g[i] = h[i]
  OBVIOUS
<1>2. New = Old \cup {n + 1} /\ Old \subseteq 1..n
  BY <1>1 DEF MovesOf
<1>3. \A i \in Old : i \in Int /\ i < n + 1 /\ g[i] = h[i]
  BY <1>1, <1>2
<1> HIDE DEF g, Old, New
<1>4. ASSUME NEW i \in New, \A j \in New : j <= i
      PROVE  c.after = g[i].after
  <2>1. n + 1 <= i
    BY <1>2, <1>4
  <2>2. i = n + 1
    <3>1. i \in Old => i < n + 1 /\ i \in Int
      BY <1>3
    <3>2. n + 1 \in Int
      BY <1>1
    <3> QED  BY <1>2, <2>1, <3>1, <3>2
  <2> QED  BY <1>1, <2>2
<1>5. ASSUME NEW i \in New, \A j \in New : i <= j
      PROVE  first = g[i].before
  <2>1. CASE i \in Old
    <3>1. \A j \in Old : i <= j
      BY <1>2, <1>5
    <3> QED  BY <1>3, <2>1, <3>1 DEF Explains, Old
  <2>2. CASE i = n + 1
    <3>1. Old = {}
      BY <1>1, <1>2, <1>3, <1>5, <2>2
    <3> QED  BY <1>1, <2>2, <3>1 DEF Explains, Old
  <2> QED  BY <1>2, <2>1, <2>2
<1>6. ASSUME NEW i \in New, NEW j \in New, i < j, \A k \in New : k <= i \/ j <= k
      PROVE  g[i].after = g[j].before
  <2>1. i \in Old
    BY <1>1, <1>2, <1>3, <1>6
  <2>2. CASE j \in Old
    <3>1. \A k \in Old : k <= i \/ j <= k
      BY <1>2, <1>6
    <3> QED  BY <1>3, <1>6, <2>1, <2>2, <3>1 DEF Explains, Old
  <2>3. CASE j = n + 1
    <3>1. \A k \in Old : k <= i
      BY <1>1, <1>2, <1>3, <1>6, <2>3
    <3>2. last = h[i].after
      BY <2>1, <3>1 DEF Explains, Old
    <3> QED  BY <1>1, <1>3, <2>1, <2>3, <3>2
  <2> QED  BY <1>2, <2>2, <2>3
<1>7. New # {}
  BY <1>2
<1> QED  BY <1>4, <1>5, <1>6, <1>7 DEF Explains, g, New

\* It leaves the moves of the other paths alone.
LEMMA ExplainsOther ==
    ASSUME NEW h \in Seq(Moves), NEW c \in Moves, NEW path, path # c.path,
           NEW first, NEW last, Explains(h, path, first, last)
    PROVE  Explains(Append(h, c), path, first, last)
<1> DEFINE n == Len(h)
           g == Append(h, c)
<1>1. /\ n \in Nat /\ DOMAIN h = 1..n /\ DOMAIN g = 1..n + 1
      /\ g[n + 1] = c /\ \A i \in 1..n : g[i] = h[i]
  OBVIOUS
<1>2. MovesOf(g, path) = MovesOf(h, path) /\ \A i \in MovesOf(h, path) : g[i] = h[i]
  BY <1>1 DEF MovesOf
<1> HIDE DEF g
<1>3. Explains(g, path, first, last)
  BY <1>2 DEF Explains
<1> QED  BY <1>3 DEF g
-----------------------------------------------------------------------------
(* The invariant *)

LEMMA InitIInv == Init => IInv
<1> SUFFICES ASSUME Init PROVE IInv
  OBVIOUS
<1>1. TypeOK
  <2>1. current \in Designs /\ original \in Designs
    BY ArchitectureAssumption DEF Init, Designs, Values
  <2>2. PICK F \in SUBSET Paths : free \in [F -> Ranges]
    BY DEF Init
  <2>3. repairHistory \in Seq(Moves) /\ Len(repairHistory) <= MaxRepairs
    BY ArchitectureAssumption DEF Init
  <2> QED  BY <2>1, <2>2, <2>3 DEF Init, TypeOK, Moves
<1>2. HistoryExplainsDesign
  BY DEF Init, HistoryExplainsDesign
<1>3. Verification /\ Refusals /\ VerdictLast /\ PassedVerdictStands
  BY ArchitectureAssumption
  DEF Init, Verification, Refusals, VerdictLast, PassedVerdictStands
<1> QED  BY <1>1, <1>2, <1>3 DEF IInv

LEMMA TypeFacts ==
    ASSUME TypeOK
    PROVE  /\ current \in Designs /\ DOMAIN free \subseteq Paths
           /\ repairHistory \in Seq(Moves) /\ Len(repairHistory) \in Nat /\ Len(repairHistory) <= MaxRepairs
           /\ MaxRepairs \in Nat
<1>1. repairHistory \in Seq(Moves) /\ Len(repairHistory) <= MaxRepairs
  BY DEF TypeOK, Moves
<1>2. Len(repairHistory) \in Nat /\ MaxRepairs \in Nat
  BY <1>1, ArchitectureAssumption
<1>3. current \in Designs /\ DOMAIN free \subseteq Paths
  BY DEF TypeOK
<1> QED  BY <1>1, <1>2, <1>3

\* The change adopted is of a declared path and takes it away from its value.
LEMMA OptionFacts ==
    ASSUME IInv, NEW c \in Options
    PROVE  /\ c \in Moves /\ c.path \in DOMAIN free
           /\ c.before = current[c.path] /\ c.after # current[c.path]
<1>1. /\ c \in [path : asks \cap DOMAIN free, before : Values, after : Values]
      /\ c.before = current[c.path] /\ c.after - c.before \notin -2..2
  BY DEF Options
<1>2. c.path \in DOMAIN free /\ DOMAIN free \subseteq Paths
  BY <1>1 DEF IInv, TypeOK
<1>3. c.after # c.before
  BY <1>1 DEF Values
<1> QED  BY <1>1, <1>2, <1>3 DEF Moves

\* A repair adopts a change and appends it to the history.
LEMMA ApplyStep ==
    ASSUME IInv, RepairApplied
    PROVE  /\ IInv'
           /\ current' \in Designs /\ current' # current
           /\ \A path \in Paths \ DOMAIN free : current'[path] = current[path]
           /\ Len(repairHistory') = Len(repairHistory) + 1
<1>1. PICK c \in Options : Adopt(c)
  BY DEF RepairApplied
<1>2. /\ stage = "repair" /\ stage' = "generate"
      /\ current' = [current EXCEPT ![c.path] = c.after] /\ repairHistory' = Append(repairHistory, c)
      /\ UNCHANGED <<contract, verified, verdict, asks, refusal, bundle, status>>
  BY <1>1 DEF RepairApplied, Adopt
<1>3. /\ c \in Moves /\ c.path \in DOMAIN free /\ c.path \in Paths
      /\ c.before = current[c.path] /\ c.after # current[c.path] /\ c.after \in Values
  BY OptionFacts DEF IInv, TypeOK, Moves
<1>4. current \in Designs /\ repairHistory \in Seq(Moves)
  BY TypeFacts DEF IInv
<1>5. /\ current' \in Designs /\ current'[c.path] = c.after
      /\ \A path \in Paths \ {c.path} : current'[path] = current[path]
  BY <1>2, <1>3, <1>4 DEF Designs
<1>6. current' # current
  BY <1>3, <1>5
<1>7. repairHistory' \in Seq(Moves) /\ Len(repairHistory') = Len(repairHistory) + 1
  BY <1>2, <1>3, <1>4
<1>8. TypeOK'
  <2>1. Len(repairHistory') <= MaxRepairs
    BY <1>2, <1>7, TypeFacts DEF IInv, Verification
  <2>2. repairHistory' \in Seq([path : Paths, before : Values, after : Values])
    BY <1>7 DEF Moves
  <2> QED  BY <1>2, <1>5, <2>1, <2>2 DEF contract, IInv, TypeOK
<1>9. Verification' /\ Refusals' /\ VerdictLast' /\ PassedVerdictStands'
  <2>1. verified = {current} /\ Len(repairHistory) < MaxRepairs /\ MaxRepairs \in Nat
    BY <1>2, ArchitectureAssumption DEF IInv, Verification
  <2>2. Len(repairHistory) \in Nat
    BY <1>4
  <2> QED
    BY <1>2, <1>6, <1>7, <2>1, <2>2
    DEF IInv, Verification, Refusals, VerdictLast, PassedVerdictStands
<1>10. HistoryExplainsDesign'
  <2>1. \A path \in Paths : Explains(repairHistory, path, original[path], current[path])
    BY HistoryByPath DEF IInv
  <2>2. ASSUME NEW path \in Paths
        PROVE  Explains(repairHistory', path, original'[path], current'[path])
    <3>1. CASE path = c.path
      BY <1>2, <1>3, <1>4, <1>5, <2>1, <3>1, ExplainsAppend DEF contract
    <3>2. CASE path # c.path
      BY <1>2, <1>3, <1>4, <1>5, <2>1, <3>2, ExplainsOther DEF contract
    <3> QED  BY <3>1, <3>2
  <2>3. HistoryExplainsDesign' <=>
          \A path \in Paths : Explains(repairHistory', path, original'[path], current'[path])
    BY DEF HistoryExplainsDesign, Explains, MovesOf
  <2> QED  BY <2>2, <2>3
<1> QED  BY <1>3, <1>5, <1>6, <1>7, <1>8, <1>9, <1>10 DEF IInv

\* What a verification leads to.
LEMMA VerifyEffect ==
    ASSUME GenerateAndVerify
    PROVE  /\ stage = "generate" /\ verified' = {current} /\ verdict' \in Verdicts
           /\ \/ stage' = "judge" /\ refusal' = refusal
              \/ stage' = "judge" /\ verdict' # "passed"
              \/ /\ stage' = "repair" /\ verdict' # "passed" /\ Len(repairHistory) # MaxRepairs
                 /\ refusal' = refusal
           /\ UNCHANGED <<current, contract, repairHistory, bundle, status>>
  BY DEF GenerateAndVerify, AfterVerify, Stop

\* All other steps leave the plan and its history as they are.
LEMMA OtherStep ==
    ASSUME IInv, Next \/ UNCHANGED architectureVars, ~RepairApplied
    PROVE  IInv' /\ UNCHANGED <<current, contract, repairHistory>>
<1>1. UNCHANGED <<current, contract, repairHistory>>
  BY DEF Next, architectureVars, Fails, ValidateReady, GenerateAndVerify, RepairStops,
         RepairRaises, Judge
<1>2. HistoryExplainsDesign'
  BY <1>1 DEF contract, IInv, HistoryExplainsDesign
<1>3. TypeOK'
  <2>1. /\ stage' \in {"validate", "generate", "repair", "judge", "done"}
        /\ status' \in Verdicts \cup {"running", "exhausted", "raised"}
    BY VerifyEffect
    DEF Next, architectureVars, Fails, ValidateReady, RepairStops, RepairRaises, Judge, Judged,
        Finish, Stop, Verdicts, IInv, TypeOK, Verification
  <2>2. /\ verified' \subseteq Designs /\ verdict' \in Verdicts \cup {"none"}
        /\ bundle' \subseteq Designs
    BY VerifyEffect
    DEF Next, architectureVars, Fails, ValidateReady, RepairStops, RepairRaises, Judge, IInv,
        TypeOK
  <2>3. /\ asks' \subseteq Paths
        /\ refusal' \in {"none", "unsupported", "locked", "no free parameter", "exhausted"}
    BY DEF Next, architectureVars, Fails, ValidateReady, GenerateAndVerify, AfterVerify,
           RepairStops, Refused, Stop, RepairRaises, Judge, IInv, TypeOK
  <2> QED  BY <1>1, <2>1, <2>2, <2>3 DEF contract, IInv, TypeOK
<1>4. Verification' /\ Refusals' /\ VerdictLast' /\ PassedVerdictStands'
  <2>1. CASE Fails \/ ValidateReady \/ RepairRaises
    BY <1>1, <2>1
    DEF Fails, ValidateReady, RepairRaises, Finish, IInv, Verification, Refusals, VerdictLast,
        PassedVerdictStands
  <2>2. CASE GenerateAndVerify
    <3>1. Len(repairHistory) \in Nat /\ Len(repairHistory) <= MaxRepairs /\ MaxRepairs \in Nat
      BY TypeFacts DEF IInv
    <3> QED
      BY <1>1, <2>2, <3>1, VerifyEffect
      DEF Verdicts, IInv, Verification, Refusals, VerdictLast, PassedVerdictStands
  <2>3. CASE RepairStops
    BY <1>1, <2>3
    DEF RepairStops, Stop, Verdicts, IInv, Verification, Refusals, VerdictLast,
        PassedVerdictStands
  <2>4. CASE Judge
    BY <1>1, <2>4
    DEF Judge, Finish, Judged, Verdicts, IInv, Verification, Refusals, VerdictLast,
        PassedVerdictStands
  <2>5. CASE UNCHANGED architectureVars
    BY <2>5
    DEF architectureVars, IInv, Verification, Refusals, VerdictLast, PassedVerdictStands
  <2> QED  BY <2>1, <2>2, <2>3, <2>4, <2>5 DEF Next
<1> QED  BY <1>1, <1>2, <1>3, <1>4 DEF IInv

LEMMA NextIInv == IInv /\ [Next]_architectureVars => IInv'
  BY ApplyStep, OtherStep

\* The invariant of the architecture run, for every plan and every verifier.
THEOREM ArchitectureInvariant == Spec => []IInv
  BY InitIInv, NextIInv, PTL DEF Spec

\* Every variable of the run stays in its type.
THEOREM ArchitectureTypes == Spec => []TypeOK
<1>1. IInv => TypeOK  BY DEF IInv
<1> QED  BY <1>1, ArchitectureInvariant, PTL

\* A drawing that passed makes the run pass, be it the one after the last repair.
THEOREM PassedVerdictsStand == Spec => []PassedVerdictStands
<1>1. IInv => PassedVerdictStands  BY DEF IInv
<1> QED  BY <1>1, ArchitectureInvariant, PTL

\* The history accounts, link by link, for every difference between the plan submitted
\* and the one the run ends with.
THEOREM HistoriesExplainDesigns == Spec => []HistoryExplainsDesign
<1>1. IInv => HistoryExplainsDesign  BY DEF IInv
<1> QED  BY <1>1, ArchitectureInvariant, PTL
-----------------------------------------------------------------------------
(* The architecture run implements BoundedRepair *)

\* The refinement mapping of Bounded, by name.
Found ==
    IF verified # {current} THEN "not judged"
    ELSE IF verdict = "passed" THEN "clean" ELSE "faulty"
Outcome == IF status \in {"running", "passed"} THEN status ELSE "refused"

\* A submitted plan is a design that nothing was found of yet.
LEMMA InitRefines == Init => Bounded!Init
<1> SUFFICES ASSUME Init PROVE Bounded!Init
  OBVIOUS
<1>1. current \in [Paths -> Values] /\ DOMAIN free \in SUBSET Paths
  BY InitIInv DEF IInv, TypeOK, Designs
<1>2. Found = "not judged" /\ Outcome = "running" /\ Len(repairHistory) = 0
  BY DEF Init, Found, Outcome
<1> QED  BY <1>1, <1>2 DEF Bounded!Init, Found, Outcome

\* A change adopted is a Repair.
LEMMA RepairRefines ==
    ASSUME IInv, RepairApplied
    PROVE  Bounded!Repair
<1>1. stage = "repair" /\ UNCHANGED <<contract, verified, verdict, status>>
  BY DEF RepairApplied
<1>2. /\ current' \in Designs /\ current' # current
      /\ \A path \in Paths \ DOMAIN free : current'[path] = current[path]
      /\ Len(repairHistory') = Len(repairHistory) + 1
  BY ApplyStep
<1>3. /\ verified = {current} /\ verdict # "passed" /\ Len(repairHistory) < MaxRepairs
      /\ status = "running"
  BY <1>1 DEF IInv, Verification, VerdictLast
<1>4. Found = "faulty" /\ Found' = "not judged"
  BY <1>1, <1>2, <1>3 DEF Found
<1>5. Outcome = "running" /\ Outcome' = "running" /\ (DOMAIN free)' = DOMAIN free
  BY <1>1, <1>3 DEF contract, Outcome
<1> QED  BY <1>2, <1>3, <1>4, <1>5 DEF Bounded!Repair, Found, Outcome, Designs

\* All other steps keep the plan: they judge it, pass it, refuse it, or are none of
\* the abstract run's business.
LEMMA OtherRefines ==
    ASSUME IInv, Next \/ UNCHANGED architectureVars, ~RepairApplied
    PROVE  Bounded!Next \/ UNCHANGED Bounded!vars
<1>1. UNCHANGED <<current, DOMAIN free, Len(repairHistory)>>
  BY OtherStep DEF contract
<1>2. CASE ValidateReady \/ RepairStops \/ UNCHANGED architectureVars
  <2>1. Found' = Found /\ Outcome' = Outcome
    BY <1>2 DEF ValidateReady, RepairStops, architectureVars, Found, Outcome
  <2> QED  BY <1>1, <2>1 DEF Bounded!vars, Found, Outcome
<1>3. CASE Fails \/ RepairRaises
  <2>1. Found' = Found /\ Outcome = "running" /\ Outcome' = "refused"
    BY <1>3 DEF Fails, RepairRaises, Finish, Found, Outcome, IInv, VerdictLast
  <2> QED  BY <1>1, <2>1 DEF Bounded!Next, Bounded!Refuse, Found, Outcome
<1>4. CASE GenerateAndVerify
  <2>1. verified # {current} /\ verified' = {current} /\ status = "running" /\ status' = status
    BY <1>4, VerifyEffect DEF IInv, Verification, VerdictLast
  <2>2. Found = "not judged" /\ Found' \in {"clean", "faulty"}
    BY <1>1, <2>1 DEF Found
  <2>3. Outcome = "running" /\ Outcome' = Outcome
    BY <2>1 DEF Outcome
  <2> QED  BY <1>1, <2>2, <2>3 DEF Bounded!Next, Bounded!Judge, Found, Outcome
<1>5. CASE Judge
  <2>1. /\ verified = {current} /\ verdict \in Verdicts /\ Found' = Found
        /\ Outcome = "running" /\ status' = Judged
    BY <1>5 DEF Judge, Finish, Found, Outcome, IInv, Verification, VerdictLast
  <2>2. CASE Judged = "passed"
    <3>1. Found = "clean" /\ Outcome' = "passed"
      BY <2>1, <2>2 DEF Judged, Found, Outcome
    <3> QED  BY <1>1, <2>1, <3>1 DEF Bounded!Next, Bounded!Pass, Found, Outcome
  <2>3. CASE Judged # "passed"
    <3>1. Outcome' = "refused"
      BY <2>1, <2>3 DEF Judged, Outcome, Verdicts
    <3> QED  BY <1>1, <2>1, <3>1 DEF Bounded!Next, Bounded!Refuse, Found, Outcome
  <2> QED  BY <2>2, <2>3
<1> QED  BY <1>2, <1>3, <1>4, <1>5 DEF Next

\* The architecture run is a bounded repair: only faulty plans are repaired, only by
\* declared parameters, at most MaxRepairs times, and "passed" is said of a plan
\* verified after its last change.
THEOREM ArchitectureImplementsBoundedRepair == Spec => ImplementsBoundedRepair
<1>1. IInv /\ [Next]_architectureVars => [Bounded!Next]_Bounded!vars
  BY RepairRefines, OtherRefines DEF Bounded!Next
<1> QED
  BY <1>1, InitRefines, ArchitectureInvariant, PTL
  DEF Spec, ImplementsBoundedRepair, Bounded!Spec

-----------------------------------------------------------------------------
(* The workspace: undo and redo *)

\* The last of a sequence and what is before it.
LEMMA FrontAndLast ==
    ASSUME NEW S, NEW s \in Seq(S), s # <<>>
    PROVE  /\ Front(s) \in Seq(S) /\ Last(s) \in S /\ Len(Front(s)) = Len(s) - 1
           /\ s = Front(s) \o <<Last(s)>>
<1> DEFINE n == Len(s)
           f == Front(s)
           one == <<Last(s)>>
<1>1. n \in Nat /\ n >= 1 /\ \A i \in 1..n : s[i] \in S
  BY LenProperties, EmptySeq, ElementOfSeq
<1>2. f = SubSeq(s, 1, n - 1) /\ Last(s) = s[n]
  BY DEF Front, Last
<1> HIDE DEF n, f
<1>3. /\ f \in Seq(S) /\ Len(f) = n - 1 /\ \A i \in 1..(n - 1) : f[i] = s[i]
  <2>1. n - 1 \in Int /\ \A i \in 1..(n - 1) : s[i] \in S
    BY <1>1
  <2>2. /\ f \in Seq(S) /\ Len(f) = (IF 1 <= n - 1 THEN n - 1 - 1 + 1 ELSE 0)
        /\ \A i \in 1..(n - 1 - 1 + 1) : f[i] = s[1 + i - 1]
    BY <1>2, <2>1, SubSeqProperties
  <2>3. n - 1 - 1 + 1 = n - 1 /\ \A i \in 1..(n - 1) : 1 + i - 1 = i
    BY <1>1
  <2>4. Len(f) = n - 1
    BY <1>1, <2>2
  <2> QED  BY <2>2, <2>3, <2>4
<1>4. s[n] \in S /\ Last(s) \in S
  BY <1>1, <1>2
<1>5. Append(f, s[n]) = f \o one
  BY <1>2, <1>3, <1>4, AppendIsConcat
<1>6. /\ Append(f, s[n]) \in Seq(S) /\ Len(Append(f, s[n])) = n
      /\ \A i \in 1..n : Append(f, s[n])[i] = s[i]
  <2>1. /\ Append(f, s[n]) \in Seq(S) /\ Len(Append(f, s[n])) = n - 1 + 1 /\ Append(f, s[n])[n - 1 + 1] = s[n]
        /\ \A i \in 1..(n - 1) : Append(f, s[n])[i] = f[i]
    BY <1>3, <1>4, AppendProperties
  <2>2. n - 1 + 1 = n /\ \A i \in 1..n : i = n \/ i \in 1..(n - 1)
    BY <1>1
  <2> HIDE DEF one
  <2> QED  BY <1>3, <2>1, <2>2
<1>7. s = Append(f, s[n])
  <2> DEFINE q == Append(f, s[n])
  <2>1. q \in Seq(S) /\ s \in Seq(S) /\ Len(q) = Len(s) /\ \A i \in 1..Len(s) : q[i] = s[i]
    BY <1>6 DEF n
  <2> HIDE DEF q
  <2>2. q = s
    BY <2>1, SeqEqual
  <2> QED  BY <2>2 DEF q
<1> QED  BY <1>3, <1>4, <1>5, <1>7 DEF f, n

\* What comes after a first element.
LEMMA JoinedAfterOne ==
    ASSUME NEW S, NEW a \in Seq(S), NEW b \in Seq(S), Len(a) = 1
    PROVE  /\ a \o b \in Seq(S) /\ Len(a \o b) = 1 + Len(b)
           /\ \A i \in 1..(1 + Len(b)) : (a \o b)[i] = IF i <= 1 THEN a[1] ELSE b[i - 1]
<1>1. a \o b \in Seq(S) /\ Len(a \o b) = Len(a) + Len(b)
  BY ConcatProperties
<1>2. \A i \in 1..(Len(a) + Len(b)) : (a \o b)[i] = IF i <= Len(a) THEN a[i] ELSE b[i - Len(a)]
  BY ConcatProperties
<1>3. Len(b) \in Nat
  BY LenProperties
<1>4. ASSUME NEW i \in 1..(1 + Len(b)) PROVE (a \o b)[i] = IF i <= 1 THEN a[1] ELSE b[i - 1]
  <2>1. (a \o b)[i] = IF i <= 1 THEN a[i] ELSE b[i - 1]
    BY <1>2
  <2>2. i <= 1 => i = 1
    BY <1>3
  <2> QED  BY <2>1, <2>2
<1> QED  BY <1>1, <1>4

\* The first of a sequence and what is after it.
LEMMA HeadAndTail ==
    ASSUME NEW S, NEW s \in Seq(S), s # <<>>
    PROVE  s = <<Head(s)>> \o Tail(s)
<1> DEFINE n == Len(s)
           one == <<Head(s)>>
           t == Tail(s)
           q == one \o t
<1>1. n \in Nat /\ n >= 1 /\ \A i \in 1..n : s[i] \in S
  BY LenProperties, EmptySeq, ElementOfSeq
<1>2. Head(s) \in S /\ t \in Seq(S) /\ Len(t) = n - 1 /\ \A i \in 1..Len(t) : t[i] = s[i + 1]
  BY HeadTailProperties
<1>3. Head(s) = s[1]
  OBVIOUS
<1>4. one \in Seq(S) /\ Len(one) = 1 /\ one[1] = s[1]
  BY <1>2, <1>3
<1> HIDE DEF one, t, n, q
<1>5. /\ q \in Seq(S) /\ Len(q) = 1 + Len(t)
      /\ \A i \in 1..(1 + Len(t)) : q[i] = IF i <= 1 THEN one[1] ELSE t[i - 1]
  BY <1>2, <1>4, JoinedAfterOne DEF q
<1>6. Len(q) = n
  BY <1>1, <1>2, <1>4, <1>5
<1>7. ASSUME NEW i \in 1..n PROVE q[i] = s[i]
  <2>1. q[i] = IF i <= 1 THEN one[1] ELSE t[i - 1]
    BY <1>1, <1>2, <1>5
  <2>2. CASE i = 1
    BY <1>4, <2>1, <2>2
  <2>3. CASE i # 1
    <3>1. i - 1 \in 1..(n - 1) /\ i - 1 + 1 = i /\ ~(i <= 1)
      BY <1>1, <2>3
    <3>2. t[i - 1] = s[i - 1 + 1]
      BY <1>2, <3>1
    <3> QED  BY <2>1, <3>1, <3>2
  <2> QED  BY <2>2, <2>3
<1>8. q = s
  <2>1. Len(q) = Len(s) /\ \A i \in 1..Len(q) : q[i] = s[i]
    BY <1>6, <1>7 DEF n
  <2> QED  BY <1>5, <2>1, SeqEqual
<1> QED  BY <1>8 DEF q, one, t

\* What is kept of a list that may have grown too long.
LEMMA Cut ==
    ASSUME NEW s \in Seq(Drafts)
    PROVE  /\ Newest(s) \in Seq(Drafts) /\ Len(Newest(s)) <= MaxHistory
           /\ Oldest(s) \in Seq(Drafts) /\ Len(Oldest(s)) <= MaxHistory
           /\ Len(s) <= MaxHistory => Newest(s) = s /\ Oldest(s) = s
<1> DEFINE n == Len(s)
           m == MaxHistory
<1>1. n \in Nat /\ m \in Nat /\ m >= 1 /\ \A i \in 1..n : s[i] \in Drafts
  BY HistoryAssumption, LenProperties, ElementOfSeq
<1> HIDE DEF n, m
<1>2. CASE n <= m
  <2>1. Newest(s) = s /\ Oldest(s) = s
    BY <1>2, Zenon DEF Newest, Oldest, n, m
  <2> QED  BY <1>2, <2>1 DEF n, m
<1>3. CASE ~(n <= m)
  <2>1. Newest(s) = SubSeq(s, n - m + 1, n) /\ Oldest(s) = SubSeq(s, 1, m)
    BY <1>3, Zenon DEF Newest, Oldest, n, m
  <2>2. \A i \in (n - m + 1)..n : s[i] \in Drafts
    BY <1>1, <1>3
  <2>3. \A i \in 1..m : s[i] \in Drafts
    BY <1>1, <1>3
  <2> DEFINE first == n - m + 1
  <2>4. first \in Int /\ first <= n /\ n - first + 1 = m /\ m - 1 + 1 = m
    BY <1>1, <1>3
  <2> HIDE DEF first
  <2>5. /\ SubSeq(s, first, n) \in Seq(Drafts)
        /\ Len(SubSeq(s, first, n)) = IF first <= n THEN n - first + 1 ELSE 0
    BY <1>1, <2>2, <2>4, SubSeqProperties DEF first
  <2>6. SubSeq(s, 1, m) \in Seq(Drafts) /\ Len(SubSeq(s, 1, m)) = IF 1 <= m THEN m - 1 + 1 ELSE 0
    BY <1>1, <2>3, SubSeqProperties
  <2>7. Len(Newest(s)) = m /\ Len(Oldest(s)) = m
    BY <1>1, <2>1, <2>4, <2>5, <2>6 DEF first
  <2> QED  BY <1>1, <1>3, <2>1, <2>5, <2>6, <2>7 DEF first, n, m
<1> QED  BY <1>2, <1>3

\* The history is bounded together with what can be redone, so nothing is ever cut from it.
HistoryInv ==
    /\ draft \in Drafts /\ history \in Seq(Drafts) /\ future \in Seq(Drafts)
    /\ Len(history) + Len(future) <= MaxHistory

\* An edit saved as a step keeps no more than the limit, and nothing is left to redo.
LEMMA SavedStep ==
    ASSUME HistoryInv, NEW base \in Drafts, SaveStep(base), draft' \in Drafts
    PROVE  HistoryInv'
<1>1. Append(history, base) \in Seq(Drafts)
  BY AppendProperties DEF HistoryInv
<1>2. history' \in Seq(Drafts) /\ Len(history') <= MaxHistory /\ future' = <<>>
  BY <1>1, Cut DEF SaveStep
<1>3. Len(history') \in Nat /\ Len(future') = 0 /\ future' \in Seq(Drafts)
  BY <1>2, LenProperties
<1> QED  BY <1>2, <1>3 DEF HistoryInv

\* Undo moves the design on the canvas to the front of the undone.
LEMMA UndoStep ==
    ASSUME HistoryInv, UndoEdit
    PROVE  HistoryInv' /\ Timeline' = Timeline
<1> DEFINE f == Front(history)
           l == Last(history)
           one == <<draft>>
           r == one \o future
<1>1. /\ draft \in Drafts /\ history \in Seq(Drafts) /\ future \in Seq(Drafts) /\ history # <<>>
      /\ Len(history) \in Nat /\ Len(future) \in Nat /\ MaxHistory \in Nat
      /\ Len(history) + Len(future) <= MaxHistory
  BY HistoryAssumption, LenProperties DEF HistoryInv, UndoEdit
<1>2. f \in Seq(Drafts) /\ l \in Drafts /\ Len(f) = Len(history) - 1 /\ history = f \o <<l>>
  BY <1>1, FrontAndLast
<1>3. one \in Seq(Drafts) /\ Len(one) = 1 /\ <<l>> \in Seq(Drafts)
  BY <1>1, <1>2
<1>4. draft' = l /\ history' = f /\ future' = Oldest(r)
  BY DEF UndoEdit
<1> HIDE DEF one
<1>5. r \in Seq(Drafts) /\ Len(r) = 1 + Len(future)
  BY <1>1, <1>3, ConcatProperties
<1> HIDE DEF f, l, r
<1>6. Len(f) + Len(r) <= MaxHistory /\ Len(r) <= MaxHistory
  <2> DEFINE a == Len(history)
             b == Len(future)
  <2>1. a \in Nat /\ b \in Nat /\ a + b <= MaxHistory /\ Len(f) = a - 1 /\ Len(r) = 1 + b /\ a >= 1
    BY <1>1, <1>2, <1>5, EmptySeq
  <2> HIDE DEF a, b
  <2> QED  BY <1>1, <2>1
<1>7. future' = r
  BY <1>4, <1>5, <1>6, Cut
<1>8. HistoryInv'
  BY <1>2, <1>4, <1>5, <1>6, <1>7 DEF HistoryInv
<1>9. Timeline' = Timeline
  <2>1. history \o (one \o future) = (history \o one) \o future
    <3> DEFINE a == history
               b == future
    <3>1. a \in Seq(Drafts) /\ b \in Seq(Drafts)
      BY <1>1
    <3> HIDE DEF a, b
    <3>2. a \o (one \o b) = (a \o one) \o b
      BY <1>3, <3>1, ConcatAssociative
    <3> QED  BY <3>2 DEF a, b
  <2>2. Timeline = (history \o one) \o future
    BY Zenon DEF Timeline, one
  <2>3. Timeline' = (f \o <<l>>) \o r
    BY <1>4, <1>7, Zenon DEF Timeline
  <2> QED  BY <1>2, <2>1, <2>2, <2>3 DEF r
<1> QED  BY <1>8, <1>9

\* Redo moves it back.
LEMMA RedoStep ==
    ASSUME HistoryInv, RedoEdit
    PROVE  HistoryInv' /\ Timeline' = Timeline
<1> DEFINE h == Head(future)
           t == Tail(future)
           one == <<draft>>
           r == Append(history, draft)
<1>1. /\ draft \in Drafts /\ history \in Seq(Drafts) /\ future \in Seq(Drafts) /\ future # <<>>
      /\ Len(history) \in Nat /\ Len(future) \in Nat /\ MaxHistory \in Nat
      /\ Len(history) + Len(future) <= MaxHistory
  BY HistoryAssumption, LenProperties DEF HistoryInv, RedoEdit
<1>2. h \in Drafts /\ t \in Seq(Drafts) /\ Len(t) = Len(future) - 1 /\ future = <<h>> \o t
  BY <1>1, HeadTailProperties, HeadAndTail
<1>3. one \in Seq(Drafts) /\ <<h>> \in Seq(Drafts)
  BY <1>1, <1>2
<1>4. draft' = h /\ history' = Newest(r) /\ future' = t
  BY DEF RedoEdit
<1>5. r \in Seq(Drafts) /\ Len(r) = Len(history) + 1 /\ r = history \o one
  BY <1>1, AppendProperties, AppendIsConcat
<1> HIDE DEF one, h, t, r
<1>6. Len(r) + Len(t) <= MaxHistory /\ Len(r) <= MaxHistory
  <2> DEFINE a == Len(history)
             b == Len(future)
  <2>1. a \in Nat /\ b \in Nat /\ a + b <= MaxHistory /\ Len(r) = a + 1 /\ Len(t) = b - 1 /\ b >= 1
    BY <1>1, <1>2, <1>5, EmptySeq
  <2> HIDE DEF a, b
  <2> QED  BY <1>1, <2>1
<1>7. history' = r
  BY <1>4, <1>5, <1>6, Cut
<1>8. HistoryInv'
  BY <1>2, <1>4, <1>5, <1>6, <1>7 DEF HistoryInv
<1>9. Timeline' = Timeline
  <2>1. ((history \o one) \o <<h>>) \o t = (history \o one) \o (<<h>> \o t)
    BY <1>1, <1>2, <1>3, <1>5, ConcatAssociative
  <2>2. Timeline = (history \o one) \o future
    BY Zenon DEF Timeline, one
  <2>3. Timeline' = (r \o <<h>>) \o t
    BY <1>4, <1>7, Zenon DEF Timeline
  <2> QED  BY <1>2, <1>5, <2>1, <2>2, <2>3
<1> QED  BY <1>8, <1>9

-----------------------------------------------------------------------------
(* The workspace: answers *)

WorkspaceTypes ==
    /\ requests \subseteq [of : Drafts, current : BOOLEAN, early : BOOLEAN]
    /\ result \subseteq [of : Drafts, passed : BOOLEAN, early : BOOLEAN]
    /\ drag \subseteq Drafts

\* A request of the current generation is of the design on the canvas, in the middle of a
\* drag too, unless it was sent before the stored draft was loaded.
CurrentIsOfDraft == \A r \in requests : r.current => r.of = draft \/ r.early

\* Until then everything sent or shown is early.
EarlyUntilHydrated == ~hydrated => \A r \in requests \cup result : r.early

WorkspaceInv ==
    HistoryInv /\ WorkspaceTypes /\ CurrentIsOfDraft /\ EarlyUntilHydrated /\ PassedIsOfDraft

\* No request has the current generation.
LEMMA Invalidated ==
    ASSUME WorkspaceTypes, EarlyUntilHydrated, Invalidate
    PROVE  /\ requests' \subseteq [of : Drafts, current : BOOLEAN, early : BOOLEAN]
           /\ \A r \in requests' : ~r.current /\ \E q \in requests : r.early = q.early
<1> SUFFICES ASSUME NEW r \in requests'
             PROVE  /\ r \in [of : Drafts, current : BOOLEAN, early : BOOLEAN]
                    /\ ~r.current /\ \E q \in requests : r.early = q.early
  OBVIOUS
<1>1. PICK q \in requests : r = [q EXCEPT !.current = FALSE]
  BY DEF Invalidate
<1>2. q \in [of : Drafts, current : BOOLEAN, early : BOOLEAN]
  BY DEF WorkspaceTypes
<1> QED  BY <1>1, <1>2

\* Every handler keeps the invariant, whatever answers are under way.
LEMMA WorkspaceStep == WorkspaceInv /\ [WorkspaceNext]_workspaceVars => WorkspaceInv'
<1> SUFFICES ASSUME WorkspaceInv, [WorkspaceNext]_workspaceVars PROVE WorkspaceInv'
  OBVIOUS
<1> USE DEF WorkspaceInv
<1>1. CASE UNCHANGED workspaceVars
  BY <1>1 DEF workspaceVars, historyVars, HistoryInv, WorkspaceTypes, CurrentIsOfDraft, EarlyUntilHydrated,
              PassedIsOfDraft
<1>2. CASE Load
  BY <1>2 DEF Load, HistoryInv, WorkspaceTypes, CurrentIsOfDraft, EarlyUntilHydrated, PassedIsOfDraft
<1>3. CASE Commit
  <2>1. draft' \in Drafts /\ SaveStep(draft) /\ Invalidate /\ verification' = "idle" /\ result' = {}
        /\ UNCHANGED <<drag, hydrated>>
    BY <1>3 DEF Commit
  <2>2. HistoryInv'
    BY <2>1, SavedStep DEF HistoryInv
  <2> QED  BY <2>1, <2>2, Invalidated DEF WorkspaceTypes, CurrentIsOfDraft, EarlyUntilHydrated, PassedIsOfDraft
<1>4. CASE Undo \/ Redo
  <2>1. Invalidate /\ UNCHANGED <<drag, hydrated, result>>
    BY <1>4 DEF Undo, Redo
  <2>2. HistoryInv'
    BY <1>4, UndoStep, RedoStep DEF Undo, Redo, historyVars, HistoryInv
  <2>3. verification' = "idle" \/ UNCHANGED <<draft, verification>>
    BY <1>4 DEF Undo, Redo, historyVars
  <2> QED  BY <2>1, <2>2, <2>3, Invalidated DEF WorkspaceTypes, CurrentIsOfDraft, EarlyUntilHydrated, PassedIsOfDraft
<1>5. CASE BeginDrag
  BY <1>5 DEF BeginDrag, historyVars, HistoryInv, WorkspaceTypes, CurrentIsOfDraft, EarlyUntilHydrated,
              PassedIsOfDraft
<1>6. CASE DragMove
  <2>1. Invalidate /\ draft' \in Drafts /\ drag # {}
        /\ UNCHANGED <<history, future, drag, hydrated, verification, result>>
    BY <1>6 DEF DragMove
  <2> QED  BY <2>1, Invalidated DEF HistoryInv, WorkspaceTypes, CurrentIsOfDraft, EarlyUntilHydrated,
                                    PassedIsOfDraft
<1>7. CASE DragEnd
  <2>1. PICK base \in drag : SaveStep(base)
    BY <1>7 DEF DragEnd
  <2>2. drag' = {} /\ verification' = "idle" /\ result' = {} /\ UNCHANGED <<draft, hydrated, requests>>
    BY <1>7 DEF DragEnd
  <2>3. base \in Drafts
    BY DEF WorkspaceTypes
  <2>4. HistoryInv'
    BY <2>1, <2>2, <2>3, SavedStep DEF HistoryInv
  <2> QED  BY <2>2, <2>4 DEF WorkspaceTypes, CurrentIsOfDraft, EarlyUntilHydrated, PassedIsOfDraft
<1>8. CASE RunVerification
  <2> DEFINE Others == {[r EXCEPT !.current = FALSE] : r \in requests}
             sent == [of |-> draft, current |-> TRUE, early |-> ~hydrated]
  <2>1. /\ verification' = "running" /\ result' = {} /\ requests' = Others \cup {sent}
        /\ UNCHANGED <<historyVars, drag, hydrated>>
    BY <1>8 DEF RunVerification
  <2>2. HistoryInv'
    BY <2>1 DEF historyVars, HistoryInv
  <2>3. ASSUME NEW r \in Others
        PROVE  /\ r \in [of : Drafts, current : BOOLEAN, early : BOOLEAN]
               /\ ~r.current /\ \E q \in requests : r.early = q.early
    BY DEF WorkspaceTypes
  <2>4. sent \in [of : Drafts, current : BOOLEAN, early : BOOLEAN] /\ sent.of = draft /\ (~hydrated => sent.early)
    BY DEF HistoryInv
  <2> HIDE DEF Others, sent
  <2> QED  BY <2>1, <2>2, <2>3, <2>4 DEF historyVars, WorkspaceTypes, CurrentIsOfDraft, EarlyUntilHydrated,
                                         PassedIsOfDraft
<1>9. CASE DropAnswer
  BY <1>9 DEF DropAnswer, historyVars, HistoryInv, WorkspaceTypes, CurrentIsOfDraft, EarlyUntilHydrated,
              PassedIsOfDraft
<1>10. CASE ShowAnswer
  <2>1. PICK r \in requests, passed \in BOOLEAN :
          /\ r.current /\ requests' = requests \ {r}
          /\ result' = {[of |-> r.of, passed |-> passed, early |-> r.early]}
          /\ verification' = IF passed THEN "passed" ELSE "failed"
    BY <1>10 DEF ShowAnswer
  <2>2. UNCHANGED <<historyVars, drag, hydrated>>
    BY <1>10 DEF ShowAnswer
  <2> DEFINE seen == [of |-> r.of, passed |-> passed, early |-> r.early]
  <2>3. /\ seen \in [of : Drafts, passed : BOOLEAN, early : BOOLEAN] /\ seen.passed = passed
        /\ seen.of = r.of /\ seen.early = r.early
    BY DEF WorkspaceTypes
  <2>4. result' = {seen}
    BY <2>1
  <2> HIDE DEF seen
  <2>5. r.of = draft \/ r.early
    BY <2>1 DEF CurrentIsOfDraft
  <2>6. PassedIsOfDraft'
    BY <2>1, <2>2, <2>3, <2>4, <2>5 DEF PassedIsOfDraft, historyVars
  <2> QED  BY <2>1, <2>2, <2>3, <2>4, <2>6 DEF historyVars, HistoryInv, WorkspaceTypes, CurrentIsOfDraft,
                                               EarlyUntilHydrated
<1>11. CASE ShowError
  BY <1>11 DEF ShowError, historyVars, HistoryInv, WorkspaceTypes, CurrentIsOfDraft, EarlyUntilHydrated,
               PassedIsOfDraft
<1> QED  BY <1>1, <1>2, <1>3, <1>4, <1>5, <1>6, <1>7, <1>8, <1>9, <1>10, <1>11 DEF WorkspaceNext

\* The handlers of the workspace keep history, canvas, requests and verdict together, for
\* every set of designs and length of history.
THEOREM WorkspaceInvariant == WorkspaceSpec => []WorkspaceInv
<1>1. WorkspaceInit => WorkspaceInv
  BY HistoryAssumption DEF WorkspaceInit, WorkspaceInv, HistoryInv, WorkspaceTypes, CurrentIsOfDraft,
                           EarlyUntilHydrated, PassedIsOfDraft
<1> QED  BY <1>1, WorkspaceStep, PTL DEF WorkspaceSpec

\* A pass on show, with its download, is of the design on the canvas, whatever was edited,
\* undone or sent again while the answer was on its way.
THEOREM PassesAreOfDrafts == WorkspaceSpec => []PassedIsOfDraft
<1>1. WorkspaceInv => PassedIsOfDraft
  BY DEF WorkspaceInv
<1> QED  BY <1>1, WorkspaceInvariant, PTL

\* Undo and redo only move along the designs they can reach, at the limit of the history too.
THEOREM UndoingLosesNothing == WorkspaceSpec => UndoLosesNothing
<1>1. WorkspaceInv /\ [WorkspaceNext]_workspaceVars => [Undo \/ Redo => Timeline' = Timeline]_workspaceVars
  <2> SUFFICES ASSUME WorkspaceInv, Undo \/ Redo PROVE Timeline' = Timeline
    OBVIOUS
  <2>1. UndoEdit \/ RedoEdit \/ UNCHANGED historyVars
    BY DEF Undo, Redo
  <2>2. CASE UNCHANGED historyVars
    BY <2>2, Zenon DEF historyVars, Timeline
  <2> QED  BY <2>1, <2>2, UndoStep, RedoStep DEF WorkspaceInv
<1> QED  BY <1>1, WorkspaceInvariant, PTL DEF WorkspaceSpec, UndoLosesNothing

-----------------------------------------------------------------------------
(* The readiness poll of a workspace *)

PollTypes ==
    /\ now \in Nat /\ due \in Nat /\ asked \in Nat /\ limit \in Nat
    /\ at \in {"loop", "ready?", "domains?", "sleep", "done"}

\* A sleep ends when the server allows the next attempt, or at the deadline; back in the
\* loop one of the two has come.
SleepLongEnough ==
    /\ at = "sleep" => due >= asked \/ due >= Deadline
    /\ at = "loop" => now >= asked \/ now >= Deadline

PollInv == PollTypes /\ SleepLongEnough /\ ShownIsNewest

\* A failed attempt.
LEMMA CatchStep ==
    ASSUME PollInv, NEW after \in Nat, Catch(after)
    PROVE  PollInv'
<1>1. now \in Nat /\ Deadline \in Nat /\ now' = now /\ asked' = (IF after = 0 THEN 0 ELSE now + after)
      /\ limit \in Nat /\ limit' = limit
  BY PollingAssumption DEF PollInv, PollTypes, Catch
<1>2. asked' \in Nat /\ asked' <= now + after
  BY <1>1
<1>3. CASE now >= Deadline
  <2>1. at' = "done" /\ shown' = "failed" /\ due' = due
    BY <1>3 DEF Catch
  <2> QED  BY <1>1, <1>2, <2>1 DEF PollInv, PollTypes, SleepLongEnough, ShownIsNewest
<1>4. CASE ~(now >= Deadline)
  <2>1. at' = "sleep" /\ shown' = "waiting" /\ \E b \in Backoff(attempt) : due' = now + Delay(b, after)
    BY <1>4 DEF Catch
  <2>2. PICK b \in Backoff(attempt) : due' = now + Delay(b, after)
    BY <2>1
  <2>3. b \in 1..10
    BY DEF Backoff
  <2> DEFINE rest == Deadline - now
             wait == Delay(b, after)
  <2>4. wait \in Nat /\ (wait >= after \/ wait >= rest)
    BY <1>1, <1>4, <2>3 DEF Delay, Least, Most
  <2>5. due' = now + wait
    BY <2>2
  <2> HIDE DEF wait
  <2>6. due' \in Nat /\ (due' >= asked' \/ due' >= Deadline)
    BY <1>1, <1>2, <1>4, <2>4, <2>5
  <2> QED  BY <1>1, <1>2, <2>1, <2>6 DEF PollInv, PollTypes, SleepLongEnough, ShownIsNewest
<1> QED  BY <1>3, <1>4

\* No step wakes a poll early or shows an aborted one.
LEMMA PollStep == PollInv /\ [PollNext]_pollVars => PollInv'
<1> SUFFICES ASSUME PollInv, [PollNext]_pollVars PROVE PollInv'
  OBVIOUS
<1>1. Deadline \in Nat /\ RequestTimeout \in Nat /\ RetryAfters \subseteq Nat
  BY PollingAssumption
<1>2. CASE UNCHANGED pollVars
  BY <1>2 DEF pollVars, PollInv, PollTypes, SleepLongEnough, ShownIsNewest
<1>3. CASE Attempt
  <2>1. TimeoutFor(now) \in Nat
    BY <1>1 DEF TimeoutFor, Least, Most, PollInv, PollTypes
  <2> QED  BY <1>3, <2>1 DEF Attempt, PollInv, PollTypes, SleepLongEnough, ShownIsNewest
<1>4. CASE GiveUp \/ DomainServed \/ Unavailable
  BY <1>4 DEF GiveUp, DomainServed, Unavailable, PollInv, PollTypes, SleepLongEnough, ShownIsNewest
<1>5. CASE Wakes
  BY <1>1, <1>5 DEF Wakes, PollInv, PollTypes, SleepLongEnough, ShownIsNewest
<1>6. CASE TimesOut \/ AttemptFails
  BY <1>1, <1>6, CatchStep DEF TimesOut, AttemptFails
<1>7. CASE EngineReady
  <2>1. at' = "domains?" /\ now' = now /\ asked' = asked /\ shown' = shown /\ limit' = limit
        /\ at = "ready?" /\ due' = now + limit
    BY <1>7 DEF EngineReady
  <2>2. now \in Nat /\ limit \in Nat /\ asked \in Nat
    BY DEF PollInv, PollTypes
  <2>3. now + limit \in Nat
    BY <2>2
  <2>4. PollTypes' /\ SleepLongEnough'
    BY <2>1, <2>2, <2>3 DEF PollTypes, SleepLongEnough
  <2>5. ShownIsNewest'
    BY <2>1 DEF ShownIsNewest, PollInv
  <2> QED  BY <2>4, <2>5 DEF PollInv
<1>8. CASE Retry
  BY <1>1, <1>8 DEF Retry, PollInv, PollTypes, SleepLongEnough, ShownIsNewest
<1>9. CASE StaleSettles
  BY <1>9 DEF StaleSettles, PollInv, PollTypes, SleepLongEnough, ShownIsNewest
<1>10. CASE Tick
  BY <1>10 DEF Tick, Requesting, PollInv, PollTypes, SleepLongEnough, ShownIsNewest
<1> QED  BY <1>2, <1>3, <1>4, <1>5, <1>6, <1>7, <1>8, <1>9, <1>10 DEF PollNext, Loop, Network

\* A poll sleeps as long as the server asked, whatever the backoff, the deadline and the
\* retries of the user.
THEOREM PollInvariant == PollSpec => []PollInv
<1>1. PollInit => PollInv
  BY DEF PollInit, PollInv, PollTypes, SleepLongEnough, ShownIsNewest
<1> QED  BY <1>1, PollStep, PTL DEF PollSpec

\* What is shown is the state of the newest poll, whatever aborted polls still report.
THEOREM NewestIsShown == PollSpec => []ShownIsNewest
<1>1. PollInv => ShownIsNewest
  BY DEF PollInv
<1> QED  BY <1>1, PollInvariant, PTL

\* A server that asked for time is not asked again before it is over.
THEOREM ServersAreGivenTime == PollSpec => RetryAfterHonoured
<1>1. PollInv /\ [PollNext]_pollVars => [at = "loop" /\ at' = "ready?" => now >= asked]_pollVars
  <2> SUFFICES ASSUME PollInv, PollNext, at = "loop", at' = "ready?" PROVE now >= asked
    OBVIOUS
  <2>1. Attempt
    BY DEF PollNext, Loop, Network, Attempt, GiveUp, Wakes, TimesOut, EngineReady, DomainServed, Unavailable,
           AttemptFails, Retry, StaleSettles, Tick, Requesting
  <2>2. now < Deadline /\ now \in Nat /\ Deadline \in Nat /\ (now >= asked \/ now >= Deadline)
    BY <2>1, PollingAssumption DEF Attempt, PollInv, PollTypes, SleepLongEnough
  <2> QED  BY <2>2
<1> QED  BY <1>1, PollInvariant, PTL DEF PollSpec, RetryAfterHonoured

=============================================================================
