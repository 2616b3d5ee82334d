------------------------- MODULE ArchitectureVerifier -------------------------
(***************************************************************************)
(* A floor plan contract, its validation, its drawing, and the verifier    *)
(* that measures the drawing again (architecture_core.py,                  *)
(* architecture_artifacts.py, architecture_verifier.py,                    *)
(* architecture_service.py).                                               *)
(*                                                                         *)
(* A contract has grids and walls (from one point to another along an      *)
(* axis), openings at an offset in a wall, columns (boxes around a         *)
(* centre), room seeds (points), and dimensions and constraints in order.  *)
(* Rooms are taken to be rectangles.                                       *)
(***************************************************************************)
EXTENDS SerializedDrawing

PlanAnnotations == {"A-DIMS", "A-ANNO", "DG-META"}
PrimaryLayers == {"A-GRID", "A-WALL", "A-DOOR", "A-WIND", "A-COLS", "A-ROOM"}
PlanLayers == PlanAnnotations \cup PrimaryLayers \cup {"A-WALL-CENTER"}

PlanIds(c) == DOMAIN c.grids \cup DOMAIN c.walls \cup DOMAIN c.openings \cup DOMAIN c.columns \cup DOMAIN c.rooms
DimensionIds(c) == {c.dimensions[i].id : i \in DOMAIN c.dimensions}

\* What the schema demands: lists of bounded length, one use of every id, numbers, lines
\* that go somewhere, openings in a wall there is, and types of a few kinds.
PlanContract(c) ==
    /\ DOMAIN c = {"units", "grids", "walls", "openings", "columns", "rooms", "dimensions", "constraints",
                   "free", "notes", "labels"}
    /\ IsFiniteSet(PlanIds(c)) /\ IsFiniteSet(DOMAIN c.dimensions \cup DOMAIN c.constraints)
    /\ \A x, y \in {"grids", "walls", "openings", "columns", "rooms"} : x # y => DOMAIN c[x] \cap DOMAIN c[y] = {}
    /\ DimensionIds(c) \cap PlanIds(c) = {}
    /\ \A g \in DOMAIN c.grids : c.grids[g] \in Boxes /\ c.grids[g][1] # c.grids[g][2]
    /\ \A w \in DOMAIN c.walls :
         /\ c.walls[w].line \in Boxes /\ c.walls[w].line[1] # c.walls[w].line[2]
         /\ Numbers(c.walls[w], {"half"})
    /\ \A o \in DOMAIN c.openings :
         /\ c.openings[o].wall \in DOMAIN c.walls /\ c.openings[o].type \in {"door", "window", "opening"}
         /\ Numbers(c.openings[o], {"offset", "width"})
    /\ \A k \in DOMAIN c.columns :
         /\ c.columns[k].centre \in Int \X Int /\ Numbers(c.columns[k], {"half"})
         /\ c.columns[k].type \in {"rectangular_column", "circular_column"}
    /\ c.rooms \in [DOMAIN c.rooms -> Int \X Int]
    /\ \A i \in DOMAIN c.dimensions : Numbers(c.dimensions[i], {"target", "lower", "upper"})
    /\ \A i \in DOMAIN c.constraints : Numbers(c.constraints[i], {"value"})

\* normalize_architecture_to_mm
NormalizedPlan(c, inch) ==
    IF c.units = "mm" THEN c
    ELSE LET Point(p) == <<p[1] * inch, p[2] * inch>>
             Line(l) == <<Point(l[1]), Point(l[2])>>
         IN [c EXCEPT
               !.units = "mm",
               !.grids = [g \in DOMAIN c.grids |-> Line(c.grids[g])],
               !.walls = [w \in DOMAIN c.walls |-> [c.walls[w] EXCEPT !.line = Line(@), !.half = @ * inch]],
               !.openings = [o \in DOMAIN c.openings |->
                   [c.openings[o] EXCEPT !.offset = @ * inch, !.width = @ * inch]],
               !.columns = [k \in DOMAIN c.columns |-> [c.columns[k] EXCEPT !.centre = Point(@), !.half = @ * inch]],
               !.rooms = [r \in DOMAIN c.rooms |-> Point(c.rooms[r])],
               !.dimensions = [i \in DOMAIN c.dimensions |->
                   [c.dimensions[i] EXCEPT !.target = @ * inch, !.lower = @ * inch, !.upper = @ * inch]],
               !.constraints = [i \in DOMAIN c.constraints |-> [c.constraints[i] EXCEPT !.value = @ * inch]]]

\* The axis a line runs along, and whether with it or against it.
Axis(line) == IF Extent(line, 1) >= Extent(line, 2) THEN 1 ELSE 2
Sense(line) == IF line[1][Axis(line)] <= line[2][Axis(line)] THEN 1 ELSE -1
LineLength(line) == Extent(line, Axis(line))

\* The box from one distance along a line to another, so deep on either side of it.
Strip(line, from, to, depth) ==
    LET axis == Axis(line)
        At(d) == line[1][axis] + Sense(line) * d
        Corner(d, side) == [k \in 1..2 |-> IF k = axis THEN At(d) ELSE line[1][k] + side * depth]
    IN IF Sense(line) = 1 THEN <<Corner(from, -1), Corner(to, 1)>> ELSE <<Corner(to, -1), Corner(from, 1)>>

WallBox(c, w) == Strip(c.walls[w].line, 0, LineLength(c.walls[w].line), c.walls[w].half)
\* opening_geometry: a micron deeper than the wall on both sides.
OpeningBox(c, o) ==
    LET wall == c.walls[c.openings[o].wall]
    IN Strip(wall.line, c.openings[o].offset, c.openings[o].offset + c.openings[o].width, wall.half + 1)
ColumnBox(c, k) ==
    LET at == c.columns[k].centre
        half == c.columns[k].half
    IN <<<<at[1] - half, at[2] - half>>, <<at[1] + half, at[2] + half>>>>

OpeningLayer(c, o) == IF c.openings[o].type = "window" THEN "A-WIND" ELSE "A-DOOR"

\* _expected_representations: id, type and layer.
ExpectedPlan(c) ==
    {<<g, "grid", "A-GRID">> : g \in DOMAIN c.grids}
      \cup {<<w, "wall", "A-WALL">> : w \in DOMAIN c.walls}
      \cup {<<w, "wall_centerline", "A-WALL-CENTER">> : w \in DOMAIN c.walls}
      \cup {<<o, c.openings[o].type, OpeningLayer(c, o)>> : o \in DOMAIN c.openings}
      \cup {<<k, c.columns[k].type, "A-COLS">> : k \in DOMAIN c.columns}
      \cup {<<r, "room_seed", "A-ROOM">> : r \in DOMAIN c.rooms}
      \cup (IF c.notes THEN {<<d, "dimension", "A-DIMS">> : d \in DimensionIds(c)} ELSE {})
      \cup (IF c.labels THEN {<<r, "room_annotation", "A-ANNO">> : r \in DOMAIN c.rooms} ELSE {})
      \cup {<<"architectural-metadata", "metadata", "DG-META">>}

\* generate_architecture_dxf
DrawnPlan(c, hash) ==
    LET Entity(layer, form, id, type, points) ==
            [layer |-> layer, form |-> form, points |-> points, labelled |-> TRUE,
             id |-> id, type |-> type, refs |-> <<>>, hash |-> hash, width |-> 0]
        Text(layer, id, type) == Entity(layer, "text", id, type, <<<<0, 0>>>>)
        Column(k) == Entity("A-COLS", IF c.columns[k].type = "circular_column" THEN "circle" ELSE "closed",
                            k, c.columns[k].type, ColumnBox(c, k))
    IN Drawing(PlanLayers,
         InOrder({Entity("A-GRID", "line", g, "grid", c.grids[g]) : g \in DOMAIN c.grids})
         \o InOrder({Entity("A-WALL", "closed", w, "wall", WallBox(c, w)) : w \in DOMAIN c.walls})
         \o InOrder({Entity("A-WALL-CENTER", "line", w, "wall_centerline", c.walls[w].line) : w \in DOMAIN c.walls})
         \o InOrder({Entity(OpeningLayer(c, o), "closed", o, c.openings[o].type, OpeningBox(c, o)) :
                        o \in DOMAIN c.openings})
         \o InOrder({Column(k) : k \in DOMAIN c.columns})
         \o InOrder({Entity("A-ROOM", "point", r, "room_seed", <<c.rooms[r]>>) : r \in DOMAIN c.rooms})
         \o InOrder({Text("A-DIMS", d, "dimension") : d \in IF c.notes THEN DimensionIds(c) ELSE {}})
         \o InOrder({Text("A-ANNO", r, "room_annotation") : r \in IF c.labels THEN DOMAIN c.rooms ELSE {}})
         \o <<Text("DG-META", "architectural-metadata", "metadata")>>)
-----------------------------------------------------------------------------
(* validate_architecture_contract *)

\* get_architecture_numeric_path, as a set of at most one.
DeclaredPlan(c, path) ==
    CASE path.key = "length" /\ path.name \in DOMAIN c.walls -> {LineLength(c.walls[path.name].line)}
      [] path.key = "thickness" /\ path.name \in DOMAIN c.walls -> {2 * c.walls[path.name].half}
      [] path.key = "offset" /\ path.name \in DOMAIN c.openings -> {c.openings[path.name].offset}
      [] path.key = "width" /\ path.name \in DOMAIN c.openings -> {c.openings[path.name].width}
      [] path.key = "center" /\ path.name \in DOMAIN c.columns -> {c.columns[path.name].centre[1]}
      [] OTHER -> {}

\* A free parameter out of its range is reported, but does not change the status.
PlanStatus(c, claimed, hash) ==
    LET Dimensions == {c.dimensions[i] : i \in DOMAIN c.dimensions}
        Conflicts(d) == d.locked /\ \E x \in DeclaredPlan(c, d.path) : ~WithinTolerance(d, x)
    IN CASE \/ claimed # {} /\ claimed # {hash}
            \/ \E i \in DOMAIN c.constraints : ~(c.constraints[i].on \subseteq PlanIds(c))
            \/ \E d \in Dimensions : DeclaredPlan(c, d.path) = {} \/ Conflicts(d)
            \/ \E path \in c.free : DeclaredPlan(c, path) = {}
            \/ \E w \in DOMAIN c.walls : LineLength(c.walls[w].line) = 0 -> "infeasible"
         [] \E d \in Dimensions : ~d.locked /\ d.path \notin c.free -> "under_constrained"
         [] OTHER -> "ready"
-----------------------------------------------------------------------------
(* verify_architecture_dxf: reading *)

ApprovedPlan(drawing) == {i \in DOMAIN drawing.entities : drawing.entities[i].layer \in PlanLayers}
Representation(e) == <<e.id, e.type, e.layer>>

\* The entities that are the first of their representation.
FirstSeenPlan(drawing) ==
    {i \in ApprovedPlan(drawing) :
       /\ drawing.entities[i].labelled
       /\ \A j \in ApprovedPlan(drawing) :
            j < i /\ drawing.entities[j].labelled
              => Representation(drawing.entities[j]) # Representation(drawing.entities[i])}

\* valid_type, and what _measure_serialized_entity can measure.
Typed(e) ==
    CASE e.layer \in {"A-GRID", "A-WALL-CENTER"} -> e.form = "line"
      [] e.layer = "A-ROOM" -> e.form = "point"
      [] e.layer \in {"A-WALL", "A-DOOR", "A-WIND"} -> e.form \in {"closed", "open", "crossed"}
      [] e.layer = "A-COLS" -> e.form \in {"circle", "closed", "open", "crossed"}
      [] OTHER -> e.form = "text"
MeasurableOnPlan(e) ==
    /\ Typed(e) /\ e.form \notin {"open", "crossed"}
    /\ e.form = "line" => LineLength(e.points) > 0

Measured(drawing, layers) ==
    {i \in FirstSeenPlan(drawing) : drawing.entities[i].layer \in layers /\ MeasurableOnPlan(drawing.entities[i])}
\* Of the measured entities of an id the first is kept, of centrelines the last.
ReadOn(drawing, layers, Pick(_)) ==
    [id \in {drawing.entities[i].id : i \in Measured(drawing, layers)} |->
        drawing.entities[Pick({i \in Measured(drawing, layers) : drawing.entities[i].id = id})]]

PlanEntityFaults(c, drawing, hash, i) ==
    LET e == drawing.entities[i]
        Repeated == \E j \in Measured(drawing, PrimaryLayers) : j < i /\ drawing.entities[j].id = e.id
        Codes ==
            IF e.layer \notin PlanLayers THEN {"LAYER_INVALID"}
            ELSE IF ~e.labelled THEN {"XDATA_MISSING"}
            ELSE (IF e.hash # hash THEN {"HASH_MISMATCH"} ELSE {})
                   \cup (IF i \notin FirstSeenPlan(drawing) THEN {"ID_DUPLICATE"}
                         ELSE (IF Representation(e) \notin ExpectedPlan(c) THEN {"IDENTITY_MISMATCH"} ELSE {})
                                \cup (IF ~Typed(e) THEN {"UNSUPPORTED"}
                                      ELSE IF ~MeasurableOnPlan(e) THEN {"GEOMETRY_INVALID"}
                                      ELSE IF e.layer \in PrimaryLayers /\ Repeated THEN {"ID_DUPLICATE"}
                                      ELSE {}))
    IN {Violation(code, IF e.labelled THEN {e.id} ELSE {}, 0, FALSE) : code \in Codes}

MissingRepresentations(c, drawing) ==
    LET Missing == ExpectedPlan(c) \ {Representation(drawing.entities[i]) : i \in FirstSeenPlan(drawing)}
    IN IF Missing = {} THEN {} ELSE {Violation("ENTITY_MISSING", {m[1] : m \in Missing}, 0, FALSE)}

PlanReadingFaults(c, drawing, hash) ==
    FileViolations(drawing, PlanLayers)
      \cup (UNION {PlanEntityFaults(c, drawing, hash, i) : i \in DOMAIN drawing.entities})
      \cup MissingRepresentations(c, drawing)
-----------------------------------------------------------------------------
(* verify_architecture_dxf: measuring *)

\* Mutant of OutsideHost: an opening is only kept from leaving its wall at the far end.
OutsideHostFar(offset, width, length) == offset + width > length + Epsilon

OutsideHost(offset, width, length) == offset < -Epsilon \/ offset + width > length + Epsilon

IsArea(e) == e.form \in {"closed", "circle"}
\* _projected_values: how far along its wall's direction a shape starts.
Start(line, points) ==
    IF Sense(line) = 1 THEN Low(points, Axis(line)) ELSE -High(points, Axis(line))
Offset(c, read, o) ==
    LET w == c.openings[o].wall
    IN Start(c.walls[w].line, read[o].points) - Start(c.walls[w].line, read[w].points)
OpeningWidth(c, read, o) == Extent(read[o].points, Axis(c.walls[c.openings[o].wall].line))
WallLength(c, read, w) == Extent(read[w].points, Axis(c.walls[w].line))

\* _remeasured_value
MeasuredPlan(c, read, path) ==
    LET x == path.name
        wall == c.openings[x].wall
    IN CASE x \notin DOMAIN read -> {}
         [] x \in DOMAIN c.walls /\ IsArea(read[x]) /\ path.key = "length" -> {WallLength(c, read, x)}
         [] x \in DOMAIN c.walls /\ IsArea(read[x]) /\ path.key = "thickness" ->
              {Extent(read[x].points, 3 - Axis(c.walls[x].line))}
         [] x \in DOMAIN c.openings /\ path.key \in {"offset", "width"} ->
              IF wall \in DOMAIN read /\ IsArea(read[wall]) /\ IsArea(read[x])
              THEN {IF path.key = "offset" THEN Offset(c, read, x) ELSE OpeningWidth(c, read, x)}
              ELSE {}
         [] x \in DOMAIN c.columns /\ IsArea(read[x]) /\ path.key = "center" -> {Centre(read[x].points, 1)}
         [] OTHER -> {}

PlanDimensionFaults(c, read) ==
    UNION {LET d == c.dimensions[i]
               Found == MeasuredPlan(c, read, d.path)
           IN IF Found = {} THEN {Violation("UNMEASURABLE", {}, i, FALSE)}
              ELSE {Violation("TOLERANCE", {d.path.name}, i, ~d.locked /\ d.path \in c.free) :
                      x \in {y \in Found : ~WithinTolerance(d, y)}} :
             i \in DOMAIN c.dimensions}

Close(p, q) == \A k \in DOMAIN p : \A axis \in 1..2 : Abs(p[k][axis] - q[k][axis]) <= Epsilon
PlanDuplicates(read) ==
    {Violation("DUPLICATE_GEOMETRY", {p[1], p[2]}, 0, FALSE) :
       p \in {x \in (DOMAIN read) \X (DOMAIN read) :
                /\ x[1] # x[2] /\ read[x[1]].layer = read[x[2]].layer
                /\ Close(read[x[1]].points, read[x[2]].points)}}

\* Openings in their wall, and beside each other.
HostedOpenings(c, read) == {o \in DOMAIN c.openings \cap DOMAIN read : c.openings[o].wall \in DOMAIN read}
FreeOffset(c, ids) == \E path \in c.free : path.key = "offset" /\ path.name \in ids
OpeningViolations(c, read) ==
    LET End(o) == Offset(c, read, o) + OpeningWidth(c, read, o)
        Overlap(o, p) == Min({End(o), End(p)}) - Max({Offset(c, read, o), Offset(c, read, p)})
    IN {Violation("OPENING_OUTSIDE_HOST", {o, c.openings[o].wall}, 0, FreeOffset(c, {o})) :
          o \in {x \in HostedOpenings(c, read) : OutsideHost(Offset(c, read, x), OpeningWidth(c, read, x),
                                                     WallLength(c, read, c.openings[x].wall))}}
         \cup {Violation("OPENING_OVERLAP", {p[1], p[2], c.openings[p[1]].wall}, 0, FreeOffset(c, {p[1], p[2]})) :
                 p \in {x \in HostedOpenings(c, read) \X HostedOpenings(c, read) :
                          /\ x[1] # x[2] /\ c.openings[x[1]].wall = c.openings[x[2]].wall
                          /\ Overlap(x[1], x[2]) > Epsilon}}

\* The line a wall's outline stands for, in the direction of the contract.
OutlineLine(c, read, w) ==
    LET line == c.walls[w].line
        axis == Axis(line)
        At(far) == [k \in 1..2 |->
            IF k # axis THEN Centre(read[w].points, k)
            ELSE IF far = (Sense(line) = 1) THEN High(read[w].points, k) ELSE Low(read[w].points, k)]
    IN <<At(FALSE), At(TRUE)>>

\* Centrelines against outlines, one network, and a closed loop outside.
Centred(c, read, lines) == DOMAIN c.walls \cap DOMAIN read \cap DOMAIN lines
Touching(p, q) == Gap(p, q) <= Epsilon
\* polygonize: the least rectangles with a wall along every step of their sides.
Regions(c, lines, walls) ==
    LET Lines == {lines[w].points : w \in walls}
        Steps(axis, at, from, to) ==
            \A x \in from..(to - 1) : \E l \in Lines :
                /\ Axis(l) = axis /\ Extent(l, 3 - axis) = 0 /\ Low(l, 3 - axis) = at
                /\ Low(l, axis) <= x /\ x < High(l, axis)
        At(axis) == {Low(l, 3 - axis) : l \in {k \in Lines : Axis(k) = axis}}
        Rings == {b \in {<<<<x, y>>, <<z, w>>>> : x, z \in At(2), y, w \in At(1)} :
                    /\ b[1][1] < b[2][1] /\ b[1][2] < b[2][2]
                    /\ \A y \in {b[1][2], b[2][2]} : Steps(1, y, b[1][1], b[2][1])
                    /\ \A x \in {b[1][1], b[2][1]} : Steps(2, x, b[1][2], b[2][2])}
        Inside(a, b) == \A axis \in 1..2 : b[1][axis] <= a[1][axis] /\ a[2][axis] <= b[2][axis]
    IN {b \in Rings : ~\E a \in Rings : a # b /\ Inside(a, b)}

Covers(box, points) == \A axis \in 1..2 : Low(points, axis) >= box[1][axis] /\ High(points, axis) <= box[2][axis]

WallViolations(c, read, lines) ==
    LET Walls == Centred(c, read, lines)
        Parts == {S \in SUBSET Walls : S # {} /\ S # Walls
                    /\ ~\E s \in S, t \in Walls \ S : Touching(lines[s].points, lines[t].points)}
        Exterior == {w \in Walls : c.walls[w].exterior}
    IN {Violation("CENTERLINE_MISMATCH", {w}, 0, FALSE) :
          w \in {x \in Walls : ~Close(lines[x].points, OutlineLine(c, read, x))}}
         \cup (IF Parts = {} THEN {} ELSE {Violation("WALL_DISCONNECTED", Walls, 0, FALSE)})
         \cup (IF Exterior # {} /\ Regions(c, lines, Exterior) = {}
               THEN {Violation("EXTERIOR_OPEN", {w \in DOMAIN c.walls : c.walls[w].exterior}, 0, FALSE)}
               ELSE {})
         \cup {Violation("ROOM_UNRESOLVED", {r}, 0, FALSE) :
                 r \in {x \in DOMAIN c.rooms \cap DOMAIN read :
                          Cardinality({b \in Regions(c, lines, Walls) : Covers(b, read[x].points)}) # 1}}

\* The constraints that are looked at, whether required or not; of the other types (also
\* alignment, orthogonal and minimum_clearance) nothing is checked here.
ConstraintViolations(c, read, i) ==
    LET k == c.constraints[i]
        On(layers) == {x \in DOMAIN read : read[x].layer \in layers}
        Lines == DOMAIN c.grids \cap DOMAIN read
        Middle(x) == <<<<Centre(read[x].points, 1), Centre(read[x].points, 2)>>>>
        Off(x, g) == Max({0, Gap(Middle(x), read[g].points)})
        Columns == (IF k.on = {} THEN DOMAIN c.columns ELSE k.on) \cap On({"A-COLS"})
        Common(x, y, axis) == Max({0, Min({High(read[x].points, axis), High(read[y].points, axis)})
                                        - Max({Low(read[x].points, axis), Low(read[y].points, axis)})})
        Area(x, y) == IF IsArea(read[x]) /\ IsArea(read[y]) THEN Common(x, y, 1) * Common(x, y, 2) ELSE 0
    IN CASE k.type = "column_grid_alignment" ->
              {Violation("COLUMN_OFF_GRID", {x}, i, \E path \in c.free : path.name = x /\ path.key = "center") :
                 x \in {y \in Columns : Lines # {} /\ Min({Off(y, g) : g \in Lines}) > k.value + Epsilon}}
         [] k.type = "columns_clear_of_openings" ->
              {Violation("COLUMN_OPENING_CLEARANCE", {p[1], p[2]}, i, FALSE) :
                 p \in {x \in On({"A-COLS"}) \X On({"A-DOOR", "A-WIND"}) :
                          Max({0, Gap(read[x[1]].points, read[x[2]].points)}) + Epsilon < k.value}}
         [] k.type \in {"non_overlap", "openings_non_overlap"} ->
              {Violation("CONSTRAINT_OVERLAP", {p[1], p[2]}, i, FALSE) :
                 p \in {x \in (k.on \cap DOMAIN read) \X (k.on \cap DOMAIN read) :
                          x[1] # x[2] /\ Area(x[1], x[2]) > Epsilon * Epsilon}}
         [] OTHER -> {}

\* A wall or an opening whose entity is no area cannot be projected; the error ends the
\* verification, and is answered as a drawing that cannot be read.
Unprojectable(c, read) ==
    \/ \E o \in HostedOpenings(c, read) : ~IsArea(read[o]) \/ ~IsArea(read[c.openings[o].wall])
    \/ \E w \in DOMAIN c.walls \cap DOMAIN read : ~IsArea(read[w])

\* verify_architecture_dxf, of what was read and what was wrong in reading it. A locked
\* dimension that fails is a violation no repair is for.
JudgedPlan(c, read, lines, faults) ==
    LET Absent == PlanIds(c) \ DOMAIN read
    IN Answer(Unprojectable(c, read),
           faults \cup PlanDimensionFaults(c, read)
             \cup (IF Absent = {} THEN {} ELSE {Violation("ENTITY_MISSING", Absent, 0, FALSE)})
             \cup PlanDuplicates(read) \cup OpeningViolations(c, read) \cup WallViolations(c, read, lines)
             \cup UNION {ConstraintViolations(c, read, i) : i \in DOMAIN c.constraints})
VerifyPlan(c, drawing, hash) ==
    JudgedPlan(c, ReadOn(drawing, PrimaryLayers, Min), ReadOn(drawing, {"A-WALL-CENTER"}, Max),
               PlanReadingFaults(c, drawing, hash))
=============================================================================
