---------------------------- MODULE PlateVerifier ----------------------------
(***************************************************************************)
(* A plate contract, its validation, its drawing, and the verifier that    *)
(* measures the drawing again (service.py, core.py, artifacts.py,          *)
(* verifier.py).                                                           *)
(*                                                                         *)
(* A contract has an outline, features and patterns of features by name,   *)
(* dimensions and constraints in order, the paths of its free parameters,  *)
(* and two limits of the manufacturing profile.  Outline and features are  *)
(* boxes: <<lower corner, upper corner>>.                                  *)
(*                                                                         *)
(* An id is the sequence of its parts between double underscores: p is     *)
(* <<"p">>, and p__2, whoever has that name, is <<"p", 2>>.                *)
(***************************************************************************)
EXTENDS SerializedDrawing

PlateLayers == {"OUTLINE", "CUT", "CENTER", "DIM", "CONSTRUCTION", "META"}
CutLayers == {"OUTLINE", "CUT"}

\* DesignContract, as far as the schema says: at most so many features, dimensions and
\* constraints, declared ids that are all different, patterns of features there are, and
\* numbers for lengths.  The ids of copies are not declared.
PlateContract(c) ==
    /\ DOMAIN c = {"units", "outlineId", "outline", "features", "patterns", "dimensions", "constraints", "free",
                   "confirmed", "minFeature", "minLigament"}
    /\ c.outline \in Boxes /\ Numbers(c, {"minFeature", "minLigament"})
    /\ IsFiniteSet(DOMAIN c.features) /\ IsFiniteSet(DOMAIN c.patterns)
    /\ IsFiniteSet(DOMAIN c.dimensions) /\ IsFiniteSet(DOMAIN c.constraints)
    /\ c.outlineId \notin DOMAIN c.features \cup DOMAIN c.patterns
    /\ DOMAIN c.features \cap DOMAIN c.patterns = {}
    /\ c.features \in [DOMAIN c.features -> [form : {"circle", "closed"}, box : Boxes]]
    /\ \A p \in DOMAIN c.patterns :
         /\ c.patterns[p].source \in DOMAIN c.features \cup DOMAIN c.patterns
         /\ c.patterns[p].count \in Nat /\ Numbers(c.patterns[p], {"spacing"})
    /\ \A i \in DOMAIN c.dimensions : i \in Nat /\ Numbers(c.dimensions[i], {"target", "lower", "upper"})
    /\ \A i \in DOMAIN c.constraints : i \in Nat /\ Numbers(c.constraints[i], {"value", "tolerance"})
                                      /\ c.constraints[i].axis \in 1..2

\* normalize_to_mm: every length of an inch contract.
NormalizedPlate(c, inch) ==
    IF c.units = "mm" THEN c
    ELSE LET Long(n) == n * inch
             Box(b) == [k \in 1..2 |-> <<Long(b[k][1]), Long(b[k][2])>>]
         IN [c EXCEPT
               !.units = "mm",
               !.outline = Box(@),
               !.features = [f \in DOMAIN c.features |-> [c.features[f] EXCEPT !.box = Box(@)]],
               !.patterns = [p \in DOMAIN c.patterns |-> [c.patterns[p] EXCEPT !.spacing = Long(@)]],
               !.dimensions = [i \in DOMAIN c.dimensions |->
                   [c.dimensions[i] EXCEPT !.target = Long(@), !.lower = Long(@), !.upper = Long(@)]],
               !.constraints = [i \in DOMAIN c.constraints |->
                   [c.constraints[i] EXCEPT !.value = Long(@), !.tolerance = Long(@)]],
               !.minFeature = Long(@),
               !.minLigament = Long(@)]

\* expand_features: the features and the further copies of every pattern, along x.  The
\* id of a copy is made of the pattern's, whatever else has it.
Expandable(c) == \A p \in DOMAIN c.patterns : c.patterns[p].source \in DOMAIN c.features
Copies(c) == UNION {{<<p, k>> : k \in 2..c.patterns[p].count} : p \in DOMAIN c.patterns}
CopyId(copy) == Append(copy[1], copy[2])
CopyIds(c) == {CopyId(copy) : copy \in Copies(c)}
CopyOf(c, id) ==
    LET copy == CHOOSE x \in Copies(c) : CopyId(x) = id
        p == c.patterns[copy[1]]
    IN [form |-> c.features[p.source].form,
        box |-> Shifted(c.features[p.source].box, <<(copy[2] - 1) * p.spacing, 0>>)]

\* The shapes by id, of which the last one of an id is kept.
Shapes(c) ==
    [id \in DOMAIN c.features \cup CopyIds(c) |->
       IF id \in CopyIds(c) THEN CopyOf(c, id).box ELSE c.features[id].box]

\* No copy has the id of a feature or of the outline; the schema does not ask for that.
CopiesApart(c) == CopyIds(c) \cap (DOMAIN c.features \cup {c.outlineId}) = {}

PlateEntity(layer, form, id, box, hash) ==
    [layer |-> layer, form |-> form, points |-> box, labelled |-> TRUE,
     id |-> id, type |-> form, refs |-> <<>>, hash |-> hash, width |-> 0]

\* generate_dxf: the outline, then every cut, also a second one of an id.  Centre marks,
\* which no reader looks at, are left out.
DrawnPlate(c, hash) ==
    LET Cut(id, shape) == PlateEntity("CUT", shape.form, id, shape.box, hash)
    IN Drawing(PlateLayers, <<PlateEntity("OUTLINE", "closed", c.outlineId, c.outline, hash)>>
                 \o InOrder({Cut(f, c.features[f]) : f \in DOMAIN c.features})
                 \o InOrder({Cut(id, CopyOf(c, id)) : id \in CopyIds(c)}))
-----------------------------------------------------------------------------
(* Checks on shapes, before drawing (of the contract) and after (of the file). *)

\* A free parameter on a feature itself; on a pattern it does not count for the copies.
RepairableAt(c, ids) == \E path \in c.free : path.key # "outline_width" /\ path.name \in ids

\* The largest value that constraints of some types ask for.
Required(c, types, least) ==
    Max({least} \cup {c.constraints[i].value :
                        i \in {j \in DOMAIN c.constraints : c.constraints[j].type \in types}})

EdgeViolations(c, outline, cuts) ==
    LET Asked == Required(c, {"features_inside_outline", "minimum_edge_distance"}, 0)
        Edge(id) == Min({Low(cuts[id], axis) - Low(outline, axis) : axis \in 1..2}
                        \cup {High(outline, axis) - High(cuts[id], axis) : axis \in 1..2})
    IN {Violation(IF Edge(id) < 0 THEN "OUTSIDE" ELSE "EDGE_DISTANCE", {id, c.outlineId}, 0, RepairableAt(c, {id})) :
          id \in {x \in DOMAIN cuts : Edge(x) < 0 \/ Edge(x) + Epsilon < Asked}}

LigamentViolations(c, cuts) ==
    LET Asked == Required(c, {"non_overlap", "minimum_ligament"}, c.minLigament)
    IN {Violation(IF Gap(cuts[pair[1]], cuts[pair[2]]) <= 0 THEN "OVERLAP" ELSE "LIGAMENT",
                  {pair[1], pair[2]}, 0, RepairableAt(c, {pair[1], pair[2]})) :
          pair \in {x \in (DOMAIN cuts) \X (DOMAIN cuts) :
                      /\ x[1] # x[2]
                      /\ \/ Gap(cuts[x[1]], cuts[x[2]]) <= 0
                         \/ Gap(cuts[x[1]], cuts[x[2]]) + Epsilon < Asked}}

MinimumViolations(c, cuts) ==
    {Violation("MINIMUM_FEATURE", {id}, 0, FALSE) :
       id \in {x \in DOMAIN cuts : Min({Extent(cuts[x], axis) : axis \in 1..2}) + Epsilon < c.minFeature}}

\* One declared constraint on the shapes it selects: alignment, equal spacing, symmetry.
Violates(constraint, outline, cuts, selected) ==
    LET At(id) == Centre(cuts[id], constraint.axis)
        Other(id) == Centre(cuts[id], 3 - constraint.axis)
        Coordinates == {At(id) : id \in selected}
        Gaps == {At(p[2]) - At(p[1]) : p \in {x \in selected \X selected :
                    /\ x[1] # x[2] /\ At(x[1]) <= At(x[2])
                    /\ ~\E z \in selected : At(x[1]) < At(z) /\ At(z) < At(x[2])}}
        Allowed == constraint.tolerance + Epsilon
        Mirror == 2 * Centre(outline, constraint.axis)
        Apart(p, q) == Max({Abs(Mirror - At(p) - At(q)), Abs(Other(p) - Other(q))})
    IN CASE constraint.type = "alignment" ->
              IF Cardinality(selected) >= 2 /\ Max(Coordinates) - Min(Coordinates) > Allowed
              THEN selected ELSE {}
         [] constraint.type = "equal_spacing" ->
              IF Cardinality(selected) >= 3 /\ Max(Gaps) - Min(Gaps) > Allowed
              THEN selected ELSE {}
         [] constraint.type = "symmetry" ->
              {p \in selected : \A q \in selected : Apart(p, q) > Allowed}
         [] OTHER -> {}

DeclaredViolations(c, outline, cuts, Selected(_)) ==
    {Violation(c.constraints[i].type, Violates(c.constraints[i], outline, cuts, Selected(c.constraints[i].on)),
               i, RepairableAt(c, Selected(c.constraints[i].on))) :
       i \in {j \in DOMAIN c.constraints :
                /\ c.constraints[j].required
                /\ Violates(c.constraints[j], outline, cuts, Selected(c.constraints[j].on)) # {}}}
-----------------------------------------------------------------------------
(* validate_contract *)

\* The number a path names in the contract, as a set of at most one.
Declared(c, path) ==
    LET IsShape == path.name \in DOMAIN c.features
        IsPattern == path.name \in DOMAIN c.patterns
    IN CASE path.key = "outline_width" -> {Extent(c.outline, 1)}
         [] path.key = "width" /\ IsShape -> {Extent(c.features[path.name].box, 1)}
         [] path.key = "center" /\ IsShape -> {Centre(c.features[path.name].box, 1)}
         [] path.key = "spacing" /\ IsPattern -> {c.patterns[path.name].spacing}
         [] OTHER -> {}

\* _geometry_preflight, where a constraint on a pattern selects nothing but what has its id.
Preflight(c) ==
    LET Named(names) == names \cap DOMAIN Shapes(c)
    IN EdgeViolations(c, c.outline, Shapes(c)) \cup LigamentViolations(c, Shapes(c))
         \cup DeclaredViolations(c, c.outline, Shapes(c), Named)

\* The status, in which later findings may override earlier ones.
PlateStatus(c, claimed, hash) ==
    LET Names == {c.outlineId} \cup DOMAIN c.features \cup DOMAIN c.patterns
        Dimensions == {c.dimensions[i] : i \in DOMAIN c.dimensions}
        Free(d) == \E path \in c.free : path = d.path
        Conflicts(d) == d.locked /\ \E x \in Declared(c, d.path) : ~WithinTolerance(d, x)
    IN CASE \/ \E i \in DOMAIN c.constraints : ~(c.constraints[i].on \subseteq Names)
            \/ \E d \in Dimensions : Declared(c, d.path) = {} \/ Conflicts(d)
            \/ \E path \in c.free : Declared(c, path) = {}
            \/ ~Expandable(c)
            \/ \E v \in Preflight(c) : ~v.repairable -> "infeasible"
         [] ~c.confirmed -> "needs_confirmation"
         [] claimed # {} /\ claimed # {hash} -> "infeasible"
         [] Dimensions = {} \/ (\E d \in Dimensions : ~d.locked /\ ~Free(d)) -> "under_constrained"
         [] OTHER -> "ready"
-----------------------------------------------------------------------------
(* verify_dxf *)

\* The entities on the cut layers that are read, in file order; the first of an id that
\* can be measured is the one kept.
CutEntities(drawing) == {i \in DOMAIN drawing.entities : drawing.entities[i].layer \in CutLayers}
KnownCut(e) == e.form \in {"circle", "closed", "open", "crossed"} /\ e.labelled
MeasurableCut(e) == KnownCut(e) /\ e.form \in {"circle", "closed"}
Kept(drawing) ==
    {i \in CutEntities(drawing) :
       /\ MeasurableCut(drawing.entities[i])
       /\ \A j \in CutEntities(drawing) :
            j < i /\ MeasurableCut(drawing.entities[j]) => drawing.entities[j].id # drawing.entities[i].id}
ReadBack(drawing) ==
    [id \in {drawing.entities[i].id : i \in Kept(drawing)} |->
        drawing.entities[CHOOSE i \in Kept(drawing) : drawing.entities[i].id = id].points]

\* _read_entities: what is wrong with one entity; the first entry that applies ends the
\* reading of it, except that a foreign hash is reported beside the others.
EntityViolations(drawing, hash, i) ==
    LET e == drawing.entities[i]
        Repeated == \E j \in Kept(drawing) : j < i /\ drawing.entities[j].id = e.id
    IN CASE e.form = "spline" -> {Violation("UNSUPPORTED", {}, 0, FALSE)}
         [] e.form # "spline" /\ ~e.labelled -> {Violation("XDATA_MISSING", {}, 0, FALSE)}
         [] OTHER ->
              {Violation(code, {e.id}, 0, FALSE) : code \in
                 (IF e.hash # hash THEN {"HASH_MISMATCH"} ELSE {})
                   \cup (IF Repeated THEN {"ID_DUPLICATE"}
                         ELSE IF e.form = "open" THEN {"POLYLINE_OPEN"}
                         ELSE IF e.form = "crossed" THEN {"GEOMETRY_INVALID"} ELSE {})}

\* _actual_for_path: a value and the entities it was measured on; no path, no value.
MeasuredPlate(c, read, path) ==
    LET copy == CopyId(<<path.name, 2>>)
        source == c.patterns[path.name].source
    IN CASE path.key = "outline_width" ->
              {[value |-> Extent(read[id], 1), on |-> {id}] : id \in {c.outlineId} \cap DOMAIN read}
         [] path.key = "width" /\ path.name \in DOMAIN read ->
              {[value |-> Extent(read[path.name], 1), on |-> {path.name}]}
         [] path.key = "center" /\ path.name \in DOMAIN read ->
              {[value |-> Centre(read[path.name], 1), on |-> {path.name}]}
         [] path.key = "spacing" /\ path.name \in DOMAIN c.patterns ->
              IF {source, copy} \subseteq DOMAIN read
              THEN {[value |-> Centre(read[copy], 1) - Centre(read[source], 1), on |-> {source, copy}]}
              ELSE {}
         [] OTHER -> {}

DimensionViolations(c, read) ==
    UNION {LET d == c.dimensions[i]
               Found == MeasuredPlate(c, read, d.path)
           IN IF Found = {} THEN {Violation("PATH_INVALID", {}, i, FALSE)}
              ELSE {Violation("TOLERANCE", m.on, i, ~d.locked /\ d.path \in c.free) :
                      m \in {x \in Found : ~WithinTolerance(d, x.value)}} :
             i \in DOMAIN c.dimensions}

\* A constraint on a pattern names its source whether it was read or not: without it the
\* lookup raises, and nothing on the way to the client catches a KeyError.
Raises(c, read) ==
    /\ c.outlineId \in DOMAIN read
    /\ \E i \in DOMAIN c.constraints :
         /\ c.constraints[i].required
         /\ c.constraints[i].type \in {"alignment", "equal_spacing", "symmetry"}
         /\ \E p \in c.constraints[i].on \cap DOMAIN c.patterns : c.patterns[p].source \notin DOMAIN read

\* Mutant of ReadingViolations: a second entity of an id is passed over.
ReadingViolationsOnce(drawing, hash) ==
    {v \in FileViolations(drawing, PlateLayers)
             \cup UNION {EntityViolations(drawing, hash, i) : i \in CutEntities(drawing)} :
        v.code # "ID_DUPLICATE"}

ReadingViolations(drawing, hash) ==
    FileViolations(drawing, PlateLayers)
      \cup UNION {EntityViolations(drawing, hash, i) : i \in CutEntities(drawing)}

\* What a constraint on some names selects: of a pattern its source and whatever has an
\* id that goes on where the pattern's ends.
NamedPlate(c, names, read) ==
    LET patterns == names \cap DOMAIN c.patterns
    IN ((names \cap DOMAIN read) \ {c.outlineId})
         \cup {id \in DOMAIN read : \E p \in patterns : IsStrictPrefix(p, id)}
         \cup {c.patterns[p].source : p \in patterns}

\* _geometry_violations and _declared_constraint_violations.
MeasuredViolations(c, read) ==
    IF c.outlineId \notin DOMAIN read THEN {Violation("OUTLINE_MISSING", {c.outlineId}, 0, FALSE)}
    ELSE LET cuts == Restrict(read, DOMAIN read \ {c.outlineId})
             Named(names) == NamedPlate(c, names, read)
         IN EdgeViolations(c, read[c.outlineId], cuts) \cup LigamentViolations(c, cuts)
              \cup MinimumViolations(c, cuts) \cup DeclaredViolations(c, read[c.outlineId], read, Named)

\* _deduplicate_violations: of violations alike in code and entities the first is kept,
\* also when it may be repaired and a later one may not.
Deduplicated(violations) ==
    {v \in violations : \A w \in violations : w.code = v.code /\ w.on = v.on => v.nth <= w.nth}

\* verify_dxf, of what was read and what was wrong in reading it.
JudgedPlate(c, read, faults) ==
    Answer(Raises(c, read), Deduplicated(faults \cup DimensionViolations(c, read) \cup MeasuredViolations(c, read)))
VerifyPlate(c, drawing, hash) == JudgedPlate(c, ReadBack(drawing), ReadingViolations(drawing, hash))
=============================================================================
