---------------------------- MODULE PipingVerifier ----------------------------
(***************************************************************************)
(* A piping contract, its validation, its drawing, the verifier that       *)
(* measures the drawing again, and the run of them all                     *)
(* (piping_core.py, piping_artifacts.py, piping_verifier.py,               *)
(* piping_service.py).                                                     *)
(*                                                                         *)
(* A contract has nodes (points), segments between nodes, items at an      *)
(* offset on a segment (components and supports), equipment zones (boxes   *)
(* with a clearance), and dimensions and constraints in order.  Routes run *)
(* along the axes; of a segment that does not, lengths are taken along its *)
(* longer side.                                                            *)
(***************************************************************************)
EXTENDS SerializedDrawing

PipingLayers == {"P-PIPE", "P-NODE", "P-COMP", "P-SUPPORT", "P-EQUIP", "P-DIMS", "P-META"}
PipingAnnotations == {"P-DIMS", "P-META"}

\* A contract as its schema admits it: ids are unique, references are to what there is,
\* lengths are numbers, pipes have a width, and shapes are of a few forms.
PipingContract(c) ==
    /\ DOMAIN c = {"units", "nodes", "segments", "items", "zones", "dimensions", "constraints", "free", "notes"}
    /\ IsFiniteSet(DOMAIN c.nodes \cup DOMAIN c.segments \cup DOMAIN c.items \cup DOMAIN c.zones)
    /\ IsFiniteSet(DOMAIN c.dimensions \cup DOMAIN c.constraints)
    /\ DOMAIN c.nodes \cap (DOMAIN c.segments \cup DOMAIN c.items \cup DOMAIN c.zones) = {}
    /\ DOMAIN c.segments \cap (DOMAIN c.items \cup DOMAIN c.zones) = {} /\ DOMAIN c.items \cap DOMAIN c.zones = {}
    /\ \A i \in DOMAIN c.dimensions :
         /\ Numbers(c.dimensions[i], {"target", "lower", "upper"})
         /\ c.dimensions[i].id \notin DOMAIN c.nodes \cup DOMAIN c.segments \cup DOMAIN c.items \cup DOMAIN c.zones
    /\ c.nodes \in [DOMAIN c.nodes -> Int \X Int]
    /\ \A s \in DOMAIN c.segments :
         /\ {c.segments[s].from, c.segments[s].to} \subseteq DOMAIN c.nodes
         /\ Numbers(c.segments[s], {"diameter"}) /\ c.segments[s].diameter > 0
    /\ \A i \in DOMAIN c.items :
         /\ c.items[i].segment \in DOMAIN c.segments /\ Numbers(c.items[i], {"offset"})
         /\ c.items[i].kind \in {"component", "support"}
         /\ c.items[i].kind = "component" => c.items[i].form \in {"circle", "closed", "open"}
    /\ \A z \in DOMAIN c.zones :
         /\ c.zones[z].box \in Boxes /\ Numbers(c.zones[z], {"clearance"})
         /\ c.zones[z].form \in {"circle", "closed"}
    /\ \A i \in DOMAIN c.constraints : i \in Nat /\ Numbers(c.constraints[i], {"value"})

\* normalize_piping_to_mm
NormalizedPiping(c, inch) ==
    IF c.units = "mm" THEN c
    ELSE LET Point(p) == <<p[1] * inch, p[2] * inch>>
         IN [c EXCEPT
               !.units = "mm",
               !.nodes = [n \in DOMAIN c.nodes |-> Point(c.nodes[n])],
               !.segments = [s \in DOMAIN c.segments |-> [c.segments[s] EXCEPT !.diameter = @ * inch]],
               !.items = [i \in DOMAIN c.items |-> [c.items[i] EXCEPT !.offset = @ * inch]],
               !.zones = [z \in DOMAIN c.zones |->
                   [c.zones[z] EXCEPT !.clearance = @ * inch, !.box = <<Point(@[1]), Point(@[2])>>]],
               !.dimensions = [i \in DOMAIN c.dimensions |->
                   [c.dimensions[i] EXCEPT !.target = @ * inch, !.lower = @ * inch, !.upper = @ * inch]],
               !.constraints = [i \in DOMAIN c.constraints |-> [c.constraints[i] EXCEPT !.value = @ * inch]]]

Line(c, s) == <<c.nodes[c.segments[s].from], c.nodes[c.segments[s].to]>>
LongAxis(line) == IF Extent(line, 1) >= Extent(line, 2) THEN 1 ELSE 2
RouteLength(line) == Extent(line, LongAxis(line))

\* point_at_offset
AtOffset(line, offset) ==
    LET axis == LongAxis(line)
        sign == IF line[1][axis] <= line[2][axis] THEN 1 ELSE -1
    IN [line[1] EXCEPT ![axis] = @ + sign * offset]

\* line.project(point): the offset of the nearest point of the line.
Projected(line, point) ==
    LET axis == LongAxis(line)
        sign == IF line[1][axis] <= line[2][axis] THEN 1 ELSE -1
    IN Max({0, Min({RouteLength(line), sign * (point[axis] - line[1][axis])})})

Apart(p, q) == Max({0, Gap(p, q)})
Midpoint(points) == <<Centre(points, 1), Centre(points, 2)>>

PipingIds(c) == DOMAIN c.nodes \cup DOMAIN c.segments \cup DOMAIN c.items \cup DOMAIN c.zones
NoteIds(c) == {c.dimensions[i].id : i \in DOMAIN c.dimensions}

\* The layer and the type every feature is to have, as the verifier expects them.
ExpectedPiping(c) ==
    [id \in PipingIds(c) \cup (IF c.notes THEN NoteIds(c) ELSE {}) \cup {"piping-metadata"} |->
       CASE id = "piping-metadata" -> <<"P-META", "metadata">>
         [] id \in DOMAIN c.segments -> <<"P-PIPE", "pipe_segment">>
         [] id \in DOMAIN c.nodes -> <<"P-NODE", "piping_node">>
         [] id \in DOMAIN c.items ->
              <<IF c.items[id].kind = "component" THEN "P-COMP" ELSE "P-SUPPORT", c.items[id].type>>
         [] id \in DOMAIN c.zones -> <<"P-EQUIP", c.zones[id].type>>
         [] OTHER -> <<"P-DIMS", "dimension_note">>]

\* Mutant of NotesDrawn: the notes are drawn whatever the profile says.
NotesDrawnAlways(c) == NoteIds(c)

NotesDrawn(c) == IF c.notes THEN NoteIds(c) ELSE {}

\* Nothing that is drawn has the id of the metadata; the schema does not ask for that.
MetadataApart(c) == "piping-metadata" \notin PipingIds(c) \cup NotesDrawn(c)

\* generate_piping_dxf: an entity for every feature, notes where the profile wants them.
DrawnPiping(c, hash) ==
    LET Entity(layer, form, id, type, points, width, refs) ==
            [layer |-> layer, form |-> form, points |-> points, labelled |-> TRUE,
             id |-> id, type |-> type, refs |-> refs, hash |-> hash, width |-> width]
        Pipe(s) == Entity("P-PIPE", "open", s, "pipe_segment", Line(c, s), c.segments[s].diameter,
                          <<c.segments[s].from, c.segments[s].to>>)
        Node(n) == Entity("P-NODE", "point", n, "piping_node", <<c.nodes[n]>>, 0, <<>>)
        Item(i) ==
            LET at == AtOffset(Line(c, c.items[i].segment), c.items[i].offset)
            IN IF c.items[i].kind = "component"
               THEN Entity("P-COMP", c.items[i].form, i, c.items[i].type,
                           <<<<at[1] - 1, at[2] - 1>>, <<at[1] + 1, at[2] + 1>>>>, 0, <<c.items[i].segment>>)
               ELSE Entity("P-SUPPORT", "circle", i, c.items[i].type, <<at>>, 0, <<c.items[i].segment>>)
        Zone(z) == Entity("P-EQUIP", c.zones[z].form, z, c.zones[z].type, c.zones[z].box, 0, <<>>)
        Text(layer, id, type) == Entity(layer, "text", id, type, <<<<0, 0>>>>, 0, <<>>)
    IN Drawing(PipingLayers, InOrder({Pipe(s) : s \in DOMAIN c.segments})
          \o InOrder({Node(n) : n \in DOMAIN c.nodes}) \o InOrder({Item(i) : i \in DOMAIN c.items})
          \o InOrder({Zone(z) : z \in DOMAIN c.zones})
          \o InOrder({Text("P-DIMS", id, "dimension_note") : id \in NotesDrawn(c)})
          \o <<Text("P-META", "piping-metadata", "metadata")>>)
-----------------------------------------------------------------------------
(* validate_piping_contract *)

ConstraintTypes(c) == {c.constraints[i].type : i \in {j \in DOMAIN c.constraints : c.constraints[j].required}}

DeclaredPiping(c, path) ==
    CASE path.key = "length" /\ path.name \in DOMAIN c.segments -> {RouteLength(Line(c, path.name))}
      [] path.key = "diameter" /\ path.name \in DOMAIN c.segments -> {c.segments[path.name].diameter}
      [] path.key = "offset" /\ path.name \in DOMAIN c.items -> {c.items[path.name].offset}
      [] OTHER -> {}

PipingStatus(c, claimed, hash) ==
    LET Dimensions == {c.dimensions[i] : i \in DOMAIN c.dimensions}
        Conflicts(d) == d.locked /\ \E x \in DeclaredPiping(c, d.path) : ~WithinTolerance(d, x)
        Unusable(k) == \/ ~(k.on \subseteq PipingIds(c))
                       \/ k.type # "route_connected" /\ k.value < 0
                       \/ k.type = "maximum_support_spacing" /\ k.value = 0
    IN CASE \/ claimed # {} /\ claimed # {hash}
            \/ \E i \in DOMAIN c.constraints : Unusable(c.constraints[i])
            \/ \E d \in Dimensions : DeclaredPiping(c, d.path) = {} \/ Conflicts(d)
            \/ \E path \in c.free : DeclaredPiping(c, path) = {}
            \/ \E s \in DOMAIN c.segments : RouteLength(Line(c, s)) = 0 -> "infeasible"
         [] \/ "maximum_support_spacing" \notin ConstraintTypes(c)
            \/ DOMAIN c.zones # {} /\ "minimum_obstacle_clearance" \notin ConstraintTypes(c)
            \/ \E d \in Dimensions : ~d.locked /\ d.path \notin c.free -> "under_constrained"
         [] OTHER -> "ready"
-----------------------------------------------------------------------------
(* verify_piping_dxf *)

ApprovedPiping(drawing) == {i \in DOMAIN drawing.entities : drawing.entities[i].layer \in PipingLayers}

\* The entity an id is first seen on.
FirstSeenPiping(drawing) ==
    {i \in ApprovedPiping(drawing) :
       /\ drawing.entities[i].labelled
       /\ \A j \in ApprovedPiping(drawing) :
            j < i /\ drawing.entities[j].labelled => drawing.entities[j].id # drawing.entities[i].id}

\* _read_geometry_entity: whether the layer's geometry can be made of the entity.
Legible(e) ==
    CASE e.layer = "P-PIPE" -> e.form = "open" /\ Len(e.points) = 2 /\ RouteLength(e.points) > 0 /\ e.width > 0
      [] e.layer = "P-NODE" -> e.form = "point"
      [] e.layer = "P-SUPPORT" -> e.form = "circle"
      [] e.layer = "P-COMP" -> e.form \in {"circle", "closed", "open"}
      [] e.layer = "P-EQUIP" -> e.form \in {"circle", "closed"}
      [] OTHER -> FALSE

ReadPiping(drawing) ==
    LET Read == {i \in FirstSeenPiping(drawing) : Legible(drawing.entities[i])}
    IN [id \in {drawing.entities[i].id : i \in Read} |->
          drawing.entities[CHOOSE i \in Read : drawing.entities[i].id = id]]

PipingEntityFaults(c, drawing, hash, i) ==
    LET e == drawing.entities[i]
        Codes ==
            IF e.layer \notin PipingLayers THEN {"LAYER_INVALID"}
            ELSE IF ~e.labelled THEN {"XDATA_MISSING"}
            ELSE (IF e.hash # hash THEN {"HASH_MISMATCH"} ELSE {})
                   \cup (IF i \notin FirstSeenPiping(drawing) THEN {"ID_DUPLICATE"}
                         ELSE (IF e.id \notin DOMAIN ExpectedPiping(c) THEN {"UNEXPECTED"}
                               ELSE IF ExpectedPiping(c)[e.id] # <<e.layer, e.type>> THEN {"IDENTITY_MISMATCH"} ELSE {})
                                \cup (IF e.layer \in PipingAnnotations
                                      THEN IF e.form = "text" THEN {} ELSE {"UNSUPPORTED"}
                                      ELSE IF Legible(e) THEN {} ELSE {"GEOMETRY_INVALID"}))
    IN {Violation(code, IF e.labelled THEN {e.id} ELSE {}, 0, FALSE) : code \in Codes}

\* Mutant of MissingViolations: nothing is expected of a drawing.
NoMissingViolations(c, drawing) == {}

MissingViolations(c, drawing) ==
    LET Missing == DOMAIN ExpectedPiping(c) \ {drawing.entities[i].id : i \in FirstSeenPiping(drawing)}
    IN IF Missing = {} THEN {} ELSE {Violation("ENTITY_MISSING", Missing, 0, FALSE)}

\* _constraint: the first of its type, required or not.
Bound(c, type, default) ==
    LET Declared == {i \in DOMAIN c.constraints : c.constraints[i].type = type}
    IN IF Declared = {} THEN default ELSE c.constraints[Min(Declared)].value

HasLine(read, s) == s \in DOMAIN read /\ read[s].layer = "P-PIPE"
Pipes(c, read) == {s \in DOMAIN c.segments : HasLine(read, s)}

\* _remeasured_value
MeasuredPiping(c, read, path) ==
    CASE path.name \notin DOMAIN read -> {}
      [] path.key = "length" /\ HasLine(read, path.name) -> {RouteLength(read[path.name].points)}
      [] path.key = "diameter" /\ HasLine(read, path.name) -> {read[path.name].width}
      [] path.key = "offset" /\ path.name \in DOMAIN c.items ->
           IF HasLine(read, c.items[path.name].segment) /\ read[path.name].layer \in {"P-COMP", "P-SUPPORT", "P-NODE"}
           THEN {Projected(read[c.items[path.name].segment].points, Midpoint(read[path.name].points))}
           ELSE {}
      [] OTHER -> {}

PipingDimensionFaults(c, read) ==
    UNION {LET d == c.dimensions[i]
               Found == MeasuredPiping(c, read, d.path)
           IN IF Found = {} THEN {Violation("UNMEASURABLE", {}, i, FALSE)}
              ELSE {Violation("TOLERANCE", {d.path.name}, i, ~d.locked /\ d.path \in c.free) :
                      x \in {y \in Found : ~WithinTolerance(d, y)}} :
             i \in DOMAIN c.dimensions}

PipingDuplicates(read) ==
    {Violation("DUPLICATE_GEOMETRY", {p[1], p[2]}, 0, FALSE) :
       p \in {x \in (DOMAIN read) \X (DOMAIN read) :
                /\ x[1] # x[2] /\ read[x[1]].layer = read[x[2]].layer
                /\ \A k \in DOMAIN read[x[1]].points :
                     Apart(<<read[x[1]].points[k]>>, <<read[x[2]].points[k]>>) <= Epsilon}}

\* _route_violations: ends at their nodes, along the axes, one network.
RouteViolations(c, read) ==
    LET Reach == Bound(c, "endpoint_alignment", Epsilon) + Epsilon
        Skew == Bound(c, "orthogonal", Epsilon) + Epsilon
        Near(p, q) == Apart(<<p>>, <<q>>) <= Reach
        At(n, p) == n \in DOMAIN read /\ Near(Midpoint(read[n].points), p)
        Ends(s) == {read[s].points[1], read[s].points[2]}
        Misaligned(s) ==
            \/ read[s].refs # <<c.segments[s].from, c.segments[s].to>>
            \/ ~At(c.segments[s].from, read[s].points[1])
            \/ ~At(c.segments[s].to, read[s].points[2])
        Joined(s, t) == \E p \in Ends(s), q \in Ends(t) : Near(p, q)
        Isolated == {n \in DOMAIN c.nodes \cap DOMAIN read :
                       ~\E s \in Pipes(c, read) : \E p \in Ends(s) : At(n, p)}
        Parts == {S \in SUBSET Pipes(c, read) :
                    S # {} /\ S # Pipes(c, read) /\ ~\E s \in S, t \in Pipes(c, read) \ S : Joined(s, t)}
    IN {Violation("ENDPOINT_MISALIGNED", {s}, 0, FALSE) : s \in {x \in Pipes(c, read) : Misaligned(x)}}
         \cup {Violation("NON_ORTHOGONAL", {s}, 0, FALSE) :
                 s \in {x \in Pipes(c, read) :
                          Min({Extent(read[x].points, axis) : axis \in 1..2}) > Skew}}
         \cup (IF Parts = {} /\ Isolated = {} THEN {}
               ELSE {Violation("DISCONNECTED", Pipes(c, read) \cup Isolated, 0, FALSE)})

\* Whether an item sits on its segment where the contract says.
Placed(c, read, i) ==
    LET item == c.items[i]
        line == read[item.segment].points
        at == Midpoint(read[i].points)
        tolerance == Bound(c, IF item.kind = "component" THEN "inline_component_position"
                              ELSE "endpoint_alignment", Epsilon)
    IN /\ read[i].refs = <<item.segment>>
       /\ Apart(line, <<at>>) <= tolerance + Epsilon
       /\ Abs(Projected(line, at) - item.offset) <= tolerance + Epsilon

HostedItems(c, read) == {i \in DOMAIN c.items \cap DOMAIN read : HasLine(read, c.items[i].segment)}

\* _spacing_violations: between neighbours among the ends and the supports in place.
WidestGap(c, read, s) ==
    LET line == read[s].points
        Stops == {0, RouteLength(line)} \cup
                 {Projected(line, Midpoint(read[i].points)) :
                    i \in {j \in HostedItems(c, read) : /\ c.items[j].kind = "support"
                                                   /\ c.items[j].segment = s /\ Placed(c, read, j)}}
    IN Max({p[2] - p[1] : p \in {q \in Stops \X Stops :
              q[1] < q[2] /\ ~\E z \in Stops : q[1] < z /\ z < q[2]}})

SpacingViolations(c, read) ==
    {Violation("SPACING", {s}, 0, FALSE) :
       s \in {x \in Pipes(c, read) :
                /\ \E i \in DOMAIN c.constraints : c.constraints[i].type = "maximum_support_spacing"
                /\ WidestGap(c, read, x) > Bound(c, "maximum_support_spacing", 0) + Epsilon}}

ClearanceViolations(c, read) ==
    LET Clearance(s, z) == Apart(read[s].points, read[z].points) - read[s].width \div 2
        Asked(z) == Max({Bound(c, "minimum_obstacle_clearance", 0), c.zones[z].clearance})
    IN {Violation("CLEARANCE", {p[1], p[2]}, 0, FALSE) :
          p \in {x \in Pipes(c, read) \X (DOMAIN c.zones \cap DOMAIN read) :
                   Clearance(x[1], x[2]) + Epsilon < Asked(x[2])}}

\* The point of a node or an item and the diameter of a segment are looked up in what was
\* measured on a layer: a pipe and an equipment zone have no point, and a component drawn
\* as a line no diameter.  The KeyError is not caught outside the dimensions.
RaisesPiping(c, read) ==
    LET Pointless(id) == id \in DOMAIN read /\ read[id].layer \in {"P-PIPE", "P-EQUIP"}
    IN \/ Pipes(c, read) # {} /\ \E n \in DOMAIN c.nodes : Pointless(n)
       \/ \E i \in DOMAIN c.items : Pointless(i) /\ c.items[i].segment \in DOMAIN read
       \/ \E s \in DOMAIN c.segments \cap DOMAIN read : read[s].layer = "P-COMP" /\ read[s].form = "open"

PipingReadingFaults(c, drawing, hash) ==
    FileViolations(drawing, PipingLayers)
      \cup (UNION {PipingEntityFaults(c, drawing, hash, i) : i \in DOMAIN drawing.entities})
      \cup MissingViolations(c, drawing)

\* verify_piping_dxf, of what was read and what was wrong in reading it.
JudgedPiping(c, read, faults) ==
    Answer(RaisesPiping(c, read),
        faults \cup PipingDimensionFaults(c, read) \cup PipingDuplicates(read) \cup RouteViolations(c, read)
          \cup {Violation("POSITION", {i, c.items[i].segment}, 0, FALSE) :
                  i \in {j \in HostedItems(c, read) : ~Placed(c, read, j)}}
          \cup SpacingViolations(c, read) \cup ClearanceViolations(c, read))
VerifyPiping(c, drawing, hash) == JudgedPiping(c, ReadPiping(drawing), PipingReadingFaults(c, drawing, hash))
=============================================================================
