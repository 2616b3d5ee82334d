--------------------------- MODULE ArtifactEvidence ---------------------------
(***************************************************************************)
(* artifact_service.py and cad_worker.py: what an audit of an uploaded CAD *)
(* file says, what a comparison of two says, and what the solid service    *)
(* says of the STEP file it had written.  Parsers run in worker processes: *)
(* every operator gets the replies of the calls made, {} for a failed one. *)
(*                                                                         *)
(* A DXF entity is its type, its handle and its shape (the rounded         *)
(* attributes, or the block an INSERT names).  GlobalIds are numbers, 0    *)
(* for an empty one.                                                       *)
(***************************************************************************)
EXTENDS Integers, Sequences, FiniteSets, FiniteSetsExt, SequencesExt, Functions

CONSTANT Budget  \* limits of the analysis, as small as tells them apart

\* The support matrix, one type or two for each level.
MeasuredTypes == {"LINE", "TEXT"}
RenderOnlyTypes == {"HATCH"}

\* Mutant of Support: a block placement counts as geometry that was measured.
SupportPlaced(e, xrefs) ==
    IF e.type \in MeasuredTypes \cup {"INSERT"} THEN "MEASURED"
    ELSE IF e.type \in RenderOnlyTypes THEN "RENDER_ONLY" ELSE "UNSUPPORTED"

\* _entity_support
Support(e, xrefs) ==
    IF e.type = "INSERT" THEN IF e.shape \in xrefs THEN "UNSUPPORTED" ELSE "RENDER_ONLY"
    ELSE IF e.type \in MeasuredTypes THEN "MEASURED"
    ELSE IF e.type \in RenderOnlyTypes THEN "RENDER_ONLY" ELSE "UNSUPPORTED"

Upto(s, n) == SubSeq(s, 1, IF Len(s) < n THEN Len(s) ELSE n)
Entities(f) == Upto(f.entities, Budget.entities)
Inserted(s) == SelectSeq(s, LAMBDA e : e.type = "INSERT")

\* The block definitions that are analysed: those of layouts, without a name of their
\* own, are not, and past the budget none is.
Blocks(f) == SelectSeq(Upto(f.blocks, Budget.blocks), LAMBDA b : ~b.anonymous)
Xrefs(f) == {b.name : b \in {x \in Range(Blocks(f)) : x.xref}}
Nested(f) == Upto(FlattenSeq([k \in DOMAIN Blocks(f) |-> Blocks(f)[k].entities]), Budget.nested)

NestedExceeded(f) ==
    LET Before(k) == MapThenSumSet(LAMBDA i : Len(Blocks(f)[i].entities), 1..k)
    IN \E k \in DOMAIN Blocks(f) : Before(k) > Budget.nested \/ Before(k - 1) = Budget.nested

\* depth and expanded_count of _block_analysis: how deep the blocks placed in the model
\* space nest, and how many entities they are. A cycle is too deep and too many.
Depth(f) ==
    LET names == {b.name : b \in Range(Blocks(f))}
        Children(name) ==
            {e.shape : e \in UNION {Range(Inserted(b.entities)) : b \in {x \in Range(Blocks(f)) : x.name = name}}}
        depth[name \in names \cup {e.shape : e \in Range(Inserted(f.entities \o Nested(f)))}, path \in SUBSET names] ==
            IF name \in path THEN Budget.depth + 1
            ELSE IF Cardinality(path) > Budget.depth THEN Cardinality(path)
            ELSE 1 + Max({0} \cup {depth[child, path \cup {name}] : child \in Children(name)})
    IN Max({0} \cup {depth[e.shape, {}] : e \in Range(Inserted(Entities(f)))})

Expanded(f) ==
    LET names == {b.name : b \in Range(Blocks(f))}
        Of(name) == FlattenSeq([k \in DOMAIN Blocks(f) |-> IF Blocks(f)[k].name = name THEN Blocks(f)[k].entities ELSE <<>>])
        Sum(s, Count(_)) == MapThenSumSet(LAMBDA i : Count(Inserted(s)[i].shape), DOMAIN Inserted(s))
        count[name \in names \cup {e.shape : e \in Range(Inserted(f.entities \o Nested(f)))}, path \in SUBSET names] ==
            IF name \in path \/ Cardinality(path) > Budget.depth THEN Budget.expanded + 1
            ELSE Len(Of(name)) + Sum(Of(name), LAMBDA child : count[child, path \cup {name}])
    IN Len(Entities(f)) + Sum(Entities(f), LAMBDA name : count[name, {}])

\* budget_exceeded
Exceeded(f) ==
    \/ Len(f.entities) > Budget.entities \/ Len(f.blocks) > Budget.blocks \/ NestedExceeded(f)
    \/ Len(Inserted(Entities(f) \o Nested(f))) > Budget.inserts
    \/ Depth(f) > Budget.depth \/ Expanded(f) > Budget.expanded

Levels(f) == {Support(e, Xrefs(f)) : e \in Range(Entities(f)) \cup Range(Nested(f))}

\* _dxf_completeness
Complete(f) == Levels(f) \subseteq {"MEASURED"} /\ ~Exceeded(f)
Renderable(f) == "UNSUPPORTED" \notin Levels(f) /\ ~Exceeded(f) /\ Len(f.entities) <= Budget.render

\* _dxf_fingerprints: of the entities measured, how often each occurs, and by handle.
Fingerprints(f) ==
    LET measured == {i \in DOMAIN Entities(f) : Support(Entities(f)[i], Xrefs(f)) = "MEASURED"}
        Mark(i) == <<Entities(f)[i].type, Entities(f)[i].shape>>
    IN [x \in {Mark(i) : i \in measured} |-> Cardinality({i \in measured : Mark(i) = x})]
Handled(f) ==
    LET measured == {e \in Range(Entities(f)) : Support(e, Xrefs(f)) = "MEASURED"}
    IN [h \in {e.handle : e \in measured} |-> {<<e.type, e.shape>> : e \in {x \in measured : x.handle = h}}]
-----------------------------------------------------------------------------
(* Audits: an error, a warning, or nothing to say. *)

\* _status_from_issues
Verdict(error, warning) ==
    IF error THEN "failed_verification" ELSE IF warning THEN "needs_confirmation" ELSE "audited"

\* _audit_dxf, in a parser worker
DxfStatus(f) ==
    Verdict(~f.readable \/ f.repair = "errors" \/ f.entities = <<>>,
            f.repair = "fixes" \/ ~(Levels(f) \subseteq {"MEASURED"}) \/ Exceeded(f) \/ f.unit = "unitless"
              \/ ~Renderable(f) \/ ~f.bounded)

\* _audit_step, on what the CAD worker measured
StepStatus(f) == Verdict(~f.readable \/ ~f.valid, f.unit = "unitless" \/ f.solids = 0)

\* _audit_ifc, in a parser worker
Twice(f) == {f.roots[i].guid : i \in {k \in DOMAIN f.roots : \E n \in DOMAIN f.roots : n # k /\ f.roots[n].guid = f.roots[k].guid}}
IfcStatus(f) ==
    Verdict(~f.readable \/ f.statements \/ Twice(f) \ {0} # {} \/ f.projects = 0,
            f.projects > 1 \/ f.unit = "unitless" \/ \E r \in Range(f.roots) : r.element /\ r.container = 0)

\* _ifc_index: the signature of the last entity of every GlobalId, without its geometry.
Index(f) ==
    [guid \in {r.guid : r \in Range(f.roots)} \ {0} |->
        LET last == f.roots[Max({i \in DOMAIN f.roots : f.roots[i].guid = guid})]
        IN <<last.sign, last.container>>]

\* _audit_artifact_uncached: is there a file to parse? The format of one that is empty,
\* too large or unknown is none.
Format(f) == IF f.size = "fits" THEN f.format ELSE "none"

Audit(f, reply) ==
    IF Format(f) = "none" \/ reply = {} THEN "failed_verification"
    ELSE CASE f.format = "dxf" -> DxfStatus(f)
           [] f.format = "step" -> StepStatus(f)
           [] OTHER -> IfcStatus(f)
-----------------------------------------------------------------------------
(* Comparisons *)

\* The worker calls of a comparison, in order: an audit for each file that is parsed, and
\* for two DXF or two IFC files then what to compare. STEP files are audited only.
ComparisonCalls(b, c) ==
    (IF Format(b) # "none" THEN <<<<"audit", "baseline">>>> ELSE <<>>)
      \o (IF Format(c) # "none" THEN <<<<"audit", "candidate">>>> ELSE <<>>)
      \o (IF Format(b) = Format(c) /\ Format(b) \in {"dxf", "ifc"}
            THEN <<<<"index", "baseline">>, <<"index", "candidate">>>> ELSE <<>>)

\* The lists of an answer are cut.
Listed(guids) == {g \in guids : Cardinality({x \in guids : x < g}) < Budget.listed}

More(p, q) == \E x \in DOMAIN p : x \notin DOMAIN q \/ p[x] > q[x]

CompareError(b, c, indexed) ==
    Format(b) = "none" \/ Format(b) # Format(c) \/ (Format(b) \in {"dxf", "ifc"} /\ ~indexed)

\* _compare_artifacts_uncached: audits are the two statuses, indexed whether both calls
\* for the fingerprints or the GlobalIds returned.
Compared(b, c, audits, indexed) ==
    LET dxf == Format(b) = "dxf" /\ Format(c) = "dxf"
        ifc == Format(b) = "ifc" /\ Format(c) = "ifc"
        complete == dxf /\ indexed /\ Complete(b) /\ Complete(c)
        guids(f) == IF ifc /\ indexed THEN DOMAIN Index(f) ELSE {}
    IN [status |-> Verdict(CompareError(b, c, indexed) \/ "failed_verification" \in audits,
                          "needs_confirmation" \in audits),
        complete |-> IF dxf THEN {complete} ELSE {},
        same |-> IF complete
                   THEN {~More(Fingerprints(c), Fingerprints(b)) /\ ~More(Fingerprints(b), Fingerprints(c))} ELSE {},
        added |-> Listed(guids(c) \ guids(b)),
        deleted |-> Listed(guids(b) \ guids(c)),
        changed |-> IF dxf /\ indexed
                      THEN Listed({h \in DOMAIN Handled(b) \cap DOMAIN Handled(c) : Handled(b)[h] # Handled(c)[h]})
                      ELSE Listed({g \in guids(b) \cap guids(c) : Index(b)[g] # Index(c)[g]})]
-----------------------------------------------------------------------------
(* Solid parts: a contract is its box, the cylinders that are to be in it and the     *)
(* tolerance; a STEP file has a box, cylinders, which may be more, and a valid shape. *)

Abs(x) == IF x < 0 THEN -x ELSE x

\* _measurement
Within(target, actual, tolerance) == Abs(actual - target) <= tolerance

Distance(p, q) ==
    Abs(p.diameter - q.diameter) + Abs(p.centre[1] - q.centre[1]) + Abs(p.centre[2] - q.centre[2])

\* Mutant of Taken: a cylinder may stand for several holes.
TakenAgain(contract, step) == [n \in 0..Len(contract.cylinders) |-> {}]

\* _cylinder_measurements: each expected cylinder takes the nearest of the rest, the
\* first of several (lengths along the axes). Taken[n] are those the first n took.
Nearest(x, cylinders, among) ==
    CHOOSE i \in among : \A k \in among :
        \/ Distance(cylinders[i], x) < Distance(cylinders[k], x)
        \/ Distance(cylinders[i], x) = Distance(cylinders[k], x) /\ i <= k
Taken(contract, step) ==
    LET all == DOMAIN step.cylinders
        taken[n \in 0..Len(contract.cylinders)] ==
            IF n = 0 THEN {}
            ELSE taken[n - 1] \cup
                 (IF taken[n - 1] = all THEN {}
                  ELSE {Nearest(contract.cylinders[n], step.cylinders, all \ taken[n - 1])})
    IN taken

\* What was not found is measured as a diameter of nothing.
CylindersHold(contract, step) ==
    \A n \in DOMAIN contract.cylinders :
        LET left == DOMAIN step.cylinders \ Taken(contract, step)[n - 1]
            x == contract.cylinders[n]
            y == step.cylinders[Nearest(x, step.cylinders, left)]
        IN IF left = {} THEN Within(x.diameter, 0, contract.tolerance)
           ELSE /\ Within(x.diameter, y.diameter, contract.tolerance)
                /\ \A axis \in 1..2 : Within(x.centre[axis], y.centre[axis], contract.tolerance)

\* run_solid_design: written by one worker, read back by another. That there is no solid
\* or no unit in the file is a warning, and warnings do not keep it from passing.
SolidPassed(contract, written, audited) ==
    \E step \in written :
        /\ audited # {}
        /\ StepStatus(step) # "failed_verification"
        /\ \A axis \in 1..3 : Within(contract.box[axis], step.box[axis], contract.tolerance)
        /\ CylindersHold(contract, step)
=============================================================================
