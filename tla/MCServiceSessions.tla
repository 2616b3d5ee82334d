-------------------------- MODULE MCServiceSessions --------------------------
(* Small instances of the three sessions for TLC. *)
EXTENDS ServiceSessions
-----------------------------------------------------------------------------
(* Repairs *)

\* A coordinate, and a direction of which one component has a path.
ThreeFields == {"x", "dx", "dy"}
TwoPaths == {"center.0", "direction.0"}
Names == [p \in TwoPaths |-> IF p = "direction.0" THEN "dx" ELSE "x"]
Others == [f \in {"dx", "dy"} |-> IF f = "dx" THEN "dy" ELSE "dx"]

\* One range, starting between two microns.
OneRange == {[min |-> 1, max |-> 4, step |-> 2]}
-----------------------------------------------------------------------------
(* Small contracts of every family.  Lengths are microns, an inch is two. *)

Path(name, key) == [name |-> name, key |-> key]
Dimension(id, path, target, spread, locked) ==
    [id |-> id, path |-> path, target |-> target, lower |-> -spread, upper |-> spread, locked |-> locked]
Rule(type, on, value) ==
    [type |-> type, on |-> on, value |-> value, required |-> TRUE, tolerance |-> 0, axis |-> 2]
Box(x, y, z, w) == <<<<x, y>>, <<z, w>>>>

\* A plate of twenty by twelve: a hole, its copy to the right, and a slot; u is the unit.
PlateOf(units, u) ==
    [units |-> units, outlineId |-> <<"plate">>, outline |-> Box(0, 0, 20 * u, 12 * u), confirmed |-> TRUE,
     features |-> <<"a">> :> [form |-> "circle", box |-> Box(4 * u, 4 * u, 6 * u, 6 * u)]
                    @@ <<"s">> :> [form |-> "closed", box |-> Box(15 * u, 4 * u, 17 * u, 6 * u)],
     patterns |-> <<"p">> :> [source |-> <<"a">>, count |-> 2, spacing |-> 5 * u],
     dimensions |-> <<Dimension("d1", Path(<<>>, "outline_width"), 20 * u, 0, TRUE),
                      Dimension("d2", Path(<<"p">>, "spacing"), 5 * u, 0, TRUE),
                      Dimension("d3", Path(<<"a">>, "center"), 5 * u, 2 * u, FALSE)>>,
     constraints |-> <<Rule("minimum_edge_distance", {}, 2 * u), Rule("alignment", {<<"a">>, <<"p">>, <<"s">>}, 0)>>,
     free |-> {Path(<<"a">>, "center")}, minFeature |-> 2 * u, minLigament |-> 2 * u]

\* The last two have a feature and an outline with the id of the copy, and less beside it.
Plain(c) == [c EXCEPT !.constraints = SubSeq(@, 1, 1)]
Holes(more) == <<"a">> :> [form |-> "circle", box |-> Box(8, 8, 12, 12)] @@ more
Plates ==
    <<PlateOf("mm", 2), PlateOf("inch", 1),
      [PlateOf("mm", 2) EXCEPT !.minFeature = 6], [PlateOf("mm", 2) EXCEPT !.free = {}],
      [Plain(PlateOf("mm", 2)) EXCEPT !.features = Holes(<<"p", 2>> :> [form |-> "circle", box |-> Box(18, 16, 22, 20)])],
      [Plain(PlateOf("mm", 2)) EXCEPT !.features = Holes(<<>>), !.outlineId = <<"p", 2>>]>>

\* An elbow with a valve, a support and an equipment zone inside it.  The last two have a
\* dimension with the id of the metadata, noted in the drawing or not.
PipingOf(units, u) ==
    [units |-> units,
     nodes |-> [n1 |-> <<0, 0>>, n2 |-> <<12 * u, 0>>, n3 |-> <<12 * u, 8 * u>>],
     segments |-> [s1 |-> [from |-> "n1", to |-> "n2", diameter |-> 2 * u],
                   s2 |-> [from |-> "n2", to |-> "n3", diameter |-> 2 * u]],
     items |-> [v |-> [kind |-> "component", type |-> "valve", segment |-> "s1", offset |-> 6 * u, form |-> "open"],
                h |-> [kind |-> "support", type |-> "hanger", segment |-> "s1", offset |-> 4 * u]],
     zones |-> [z |-> [type |-> "equipment_zone", form |-> "closed", box |-> Box(4 * u, 6 * u, 8 * u, 10 * u),
                       clearance |-> 2 * u]],
     dimensions |-> <<Dimension("d1", Path("s1", "length"), 12 * u, 0, TRUE),
                      Dimension("d2", Path("h", "offset"), 4 * u, u, FALSE)>>,
     constraints |-> <<Rule("route_connected", {}, 0), Rule("maximum_support_spacing", {}, 8 * u),
                       Rule("minimum_obstacle_clearance", {}, 3 * u)>>,
     free |-> {Path("h", "offset")}, notes |-> TRUE]
Pipings ==
    <<PipingOf("mm", 2), PipingOf("inch", 1),
      [PipingOf("mm", 2) EXCEPT !.notes = FALSE, !.zones.z.clearance = 7],
      [PipingOf("mm", 2) EXCEPT !.constraints = SubSeq(@, 1, 2)],
      [PipingOf("mm", 2) EXCEPT !.dimensions[1].id = "piping-metadata"],
      [PipingOf("mm", 2) EXCEPT !.dimensions[1].id = "piping-metadata", !.notes = FALSE]>>

\* One room, a door beside a window, a door in the corner, a column on a grid line.
PlanOf(units, u) ==
    [units |-> units, grids |-> [g |-> Box(10 * u, 0, 10 * u, 12 * u)],
     walls |-> [w1 |-> [line |-> Box(0, 0, 20 * u, 0), half |-> u, exterior |-> TRUE],
                w2 |-> [line |-> Box(20 * u, 0, 20 * u, 12 * u), half |-> u, exterior |-> TRUE],
                w3 |-> [line |-> Box(20 * u, 12 * u, 0, 12 * u), half |-> u, exterior |-> TRUE],
                w4 |-> [line |-> Box(0, 12 * u, 0, 0), half |-> u, exterior |-> TRUE]],
     openings |-> [o1 |-> [wall |-> "w1", offset |-> u, width |-> 3 * u, type |-> "door"],
                   o2 |-> [wall |-> "w1", offset |-> 4 * u, width |-> 4 * u, type |-> "window"],
                   o3 |-> [wall |-> "w3", offset |-> 0, width |-> 3 * u, type |-> "door"]],
     columns |-> [k |-> [centre |-> <<10 * u, 6 * u>>, half |-> u, type |-> "rectangular_column"]],
     rooms |-> [r |-> <<4 * u, 4 * u>>],
     dimensions |-> <<Dimension("d1", Path("w1", "length"), 20 * u, 0, TRUE),
                      Dimension("d2", Path("o2", "offset"), 4 * u, u, FALSE)>>,
     constraints |-> <<Rule("column_grid_alignment", {}, 0), Rule("columns_clear_of_openings", {}, u)>>,
     free |-> {Path("o2", "offset")}, notes |-> TRUE, labels |-> TRUE]
Plans ==
    <<PlanOf("mm", 2), PlanOf("inch", 1), [PlanOf("mm", 2) EXCEPT !.labels = FALSE, !.columns.k.half = 6],
      [PlanOf("mm", 2) EXCEPT !.free = {}]>>

\* A portal, one that exceeds its limits, one without a solution, one from Rhino.
Portal ==
    [nodes |-> [a |-> <<0, 0>>, b |-> <<0, 8>>, c |-> <<10, 8>>, d |-> <<10, 0>>],
     members |-> [ab |-> [from |-> "a", to |-> "b", section |-> "h"], bc |-> [from |-> "b", to |-> "c", section |-> "h"],
                  cd |-> [from |-> "c", to |-> "d", section |-> "h"]],
     supports |-> [sa |-> [node |-> "a", kind |-> "fixed"], sd |-> [node |-> "d", kind |-> "pinned"]],
     loads |-> [lb |-> [node |-> "b", kind |-> "lateral"]],
     source |-> {}, solvable |-> TRUE, withinLimits |-> TRUE]
Frames ==
    <<Portal, [Portal EXCEPT !.withinLimits = FALSE], [Portal EXCEPT !.solvable = FALSE],
      [Portal EXCEPT !.source = {[exchange |-> "x", document |-> "doc", objects |-> [ab |-> "o1", sa |-> "o2"]]}]>>

\* Two members that meet, or nearly, beside the first support or far from it.
ExchangeOf(unit, axes, shift, height, tolerance) ==
    [id |-> "x", document |-> "doc", unit |-> unit, datum |-> [axes |-> axes, origin |-> <<1, 0, 0>>],
     members |-> [m1 |-> [points |-> <<<<0, 0, 0>>, <<0, 11, 0>>>>, section |-> "h"],
                  m2 |-> [points |-> <<<<shift, 11, height>>, <<27, 11, 0>>>>, section |-> "h"]],
     supports |-> [s |-> [point |-> <<0, shift % 2, 0>>, kind |-> "fixed"]],
     loads |-> [l |-> [point |-> <<27, 11, 0>>, kind |-> "lateral"]],
     sources |-> [m1 |-> "o1", m2 |-> "o2", s |-> "o3", l |-> "o4"], tolerance |-> tolerance,
     solvable |-> TRUE, withinLimits |-> TRUE]
Exchanges ==
    [n \in 1..80 |->
        ExchangeOf(IF n > 40 THEN "cm" ELSE "mm", IF n % 2 = 0 THEN "straight" ELSE "turned", n % 5, 0, (n \div 5) % 4)]
      \o <<ExchangeOf("unknown", "straight", 0, 0, 0), ExchangeOf("mm", "skewed", 0, 0, 0),
           ExchangeOf("mm", "straight", 0, 5, 0)>>
      \o <<[ExchangeOf("mm", "straight", 0, 0, 0) EXCEPT !.supports.s.kind = "none"],
           [ExchangeOf("mm", "straight", 0, 0, 0) EXCEPT !.withinLimits = FALSE],
           [ExchangeOf("mm", "straight", 0, 0, 5) EXCEPT !.members.m2.points = <<<<4, 11, 0>>, <<8, 11, 0>>>>,
                                                         !.loads.l.point = <<0, 11, 0>>]>>

AllContracts == [plate |-> Plates, piping |-> Pipings, plan |-> Plans, frame |-> Frames, rhino |-> Exchanges]
FewEdits == [plate |-> 2, piping |-> 1, plan |-> 1, frame |-> 1, rhino |-> 0]
-----------------------------------------------------------------------------
(* Small files, models and parts. *)

SmallBudget ==
    [entities |-> 3, blocks |-> 2, nested |-> 2, inserts |-> 2, depth |-> 1, expanded |-> 4, render |-> 2, listed |-> 1]

Entity(handle, type, shape) == [handle |-> handle, type |-> type, shape |-> shape]
Dxf(entities) ==
    [format |-> "dxf", size |-> "fits", readable |-> TRUE, repair |-> "none", unit |-> "mm", bounded |-> TRUE,
     entities |-> entities, blocks |-> <<>>]
Block(name, entities) == [name |-> name, anonymous |-> FALSE, xref |-> FALSE, entities |-> entities]
TwoLines == <<Entity(1, "LINE", "a"), Entity(2, "LINE", "b")>>
DxfFiles ==
    {Dxf(TwoLines), Dxf(Reverse(TwoLines)), Dxf(<<Entity(1, "LINE", "a"), Entity(2, "LINE", "a")>>),
     Dxf(TwoLines \o <<Entity(3, "INSERT", "p")>>), Dxf(<<Entity(1, "LINE", "b"), Entity(2, "HATCH", "a")>>),
     Dxf(TwoLines \o TwoLines),
     [Dxf(TwoLines \o <<Entity(3, "INSERT", "p")>>) EXCEPT
        !.blocks = <<Block("p", <<Entity(4, "LINE", "a"), Entity(5, "INSERT", "q")>>), Block("q", <<Entity(6, "INSERT", "p")>>)>>],
     [Dxf(<<Entity(1, "INSERT", "x")>>) EXCEPT !.blocks = <<[Block("x", <<>>) EXCEPT !.xref = TRUE]>>],
     [Dxf(TwoLines) EXCEPT !.unit = "unitless"], [Dxf(TwoLines) EXCEPT !.repair = "fixes"],
     [Dxf(TwoLines) EXCEPT !.readable = FALSE], [Dxf(<<>>) EXCEPT !.size = "empty"]}

Root(guid, sign, element, container) == [guid |-> guid, sign |-> sign, element |-> element, container |-> container]
Ifc(roots) ==
    [format |-> "ifc", size |-> "fits", readable |-> TRUE, statements |-> FALSE, projects |-> 1, unit |-> "mm",
     roots |-> <<Root(9, "storey", FALSE, 0)>> \o roots]
IfcFiles ==
    {Ifc(<<Root(1, "p", TRUE, 9), Root(2, "q", TRUE, 9)>>), Ifc(<<Root(1, "q", TRUE, 9), Root(2, "p", TRUE, 9)>>),
     Ifc(<<Root(3, "p", TRUE, 9), Root(1, "p", TRUE, 9)>>), Ifc(<<Root(1, "p", TRUE, 9), Root(1, "r", TRUE, 9)>>),
     Ifc(<<Root(1, "p", TRUE, 0)>>), Ifc(<<Root(0, "p", TRUE, 9)>>), [Ifc(<<>>) EXCEPT !.projects = 0],
     [Ifc(<<>>) EXCEPT !.size = "large"]}

\* A plate with two holes, as drawn and as not.
Cylinder(diameter, x) == [diameter |-> diameter, centre |-> <<x, 0>>]
Part(cylinders) == [box |-> <<20, 10, 4>>, cylinders |-> cylinders, tolerance |-> 1]
Step(cylinders) ==
    [format |-> "step", size |-> "fits", readable |-> TRUE, valid |-> TRUE, solids |-> 1, unit |-> "mm",
     box |-> <<20, 10, 4>>, cylinders |-> cylinders]
Parts == {Part(<<Cylinder(4, -2), Cylinder(4, -1)>>), Part(<<Cylinder(4, 0), Cylinder(4, 3)>>),
          Part(<<Cylinder(1, 0), Cylinder(3, 0)>>), Part(<<>>)}
Steps == {Step(s) : s \in {<<>>, <<Cylinder(4, -2)>>, <<Cylinder(4, -1), Cylinder(4, -2)>>, <<Cylinder(4, 3), Cylinder(4, 0)>>,
                           <<Cylinder(3, 0)>>, <<Cylinder(4, -2), Cylinder(4, 2), Cylinder(4, -1)>>}}
            \cup {[Step(<<>>) EXCEPT !.valid = FALSE], [Step(<<>>) EXCEPT !.solids = 0], [Step(<<>>) EXCEPT !.box = <<22, 10, 4>>]}

Compare(b, c) == [kind |-> "compare", baseline |-> b, candidate |-> c]
Comparisons ==
    {Compare(b, c) : b, c \in DxfFiles} \cup {Compare(b, c) : b, c \in IfcFiles}
      \cup {Compare(Step(<<>>), Step(<<>>)), Compare(Step(<<>>), Dxf(TwoLines))}
Solids == {[kind |-> "solid", contract |-> p, written |-> Steps] : p \in Parts}

\* A tool and a pipe on a storey; the storey is no product.
FabProfile ==
    [applicable |-> {"tool", "pipe"}, tool |-> "tool", obstacles |-> {"pipe"}, containers |-> {"storey", "space"},
     schema |-> "IFC4", locked |-> {"system", "container"},
     valid |-> [system |-> {"A", "B"}, container |-> {"s1", "s2"}],
     authorized |-> {[key |-> "P", field |-> "system", before |-> {"A"}, after |-> {"B"}]},
     sides |-> {"+X", "-X", "+Y", "-Y"}, depth |-> 6, epsilon |-> 0,
     maxProducts |-> 4, maxShapes |-> 3, maxNamed |-> 2, maxTopics |-> 1]

Storey == [id |-> "s1", type |-> "storey"]
Space == [id |-> "s2", type |-> "space"]
Product(class, guid, key, system, box) ==
    [class |-> class, guid |-> guid, key |-> key, values |-> [system |-> system], containers |-> <<Storey>>, box |-> {box},
     side |-> "+X", turn |-> 0, depth |-> {2}]
Tool == Product("tool", 1, "T", "A", <<<<0, 0>>, <<4, 4>>>>)
Pipe(system, x) == Product("pipe", 2, "P", system, <<<<x, 1>>, <<x + 2, 3>>>>)
Model(entities) ==
    [parsed |-> TRUE, schema |-> "IFC4", projects |-> 1, unit |-> 2, checker |-> "clean", entities |-> entities]
Ids == [parsed |-> TRUE,
        specifications |-> <<[rule |-> "IDS-01", class |-> "pipe", field |-> "system", allowed |-> {"A", "B", "C"}, required |-> TRUE],
                            [rule |-> "IDS-01", class |-> "tool", field |-> "container", allowed |-> {"s1", "s2"}, required |-> FALSE]>>]

Before == Model(<<Tool, Pipe("A", 9)>>)
Baselines ==
    {Before, Model(<<Tool, Pipe("B", 9)>>), Model(<<Tool, [Pipe("A", 9) EXCEPT !.guid = 1]>>),
     [Before EXCEPT !.schema = "IFC2X3"]}
Candidates ==
    {Model(<<t, p>>) :
        t \in {Tool} \cup {[Tool EXCEPT !.turn = k] : k \in {1, 2, 9}}
                \cup {[Tool EXCEPT !.depth = d] : d \in {{}, {0}, {3}}} \cup {[Tool EXCEPT !.side = "none"]},
        p \in {Pipe("A", x) : x \in {-4, -3, 4, 5, 6, 7}}
                \cup {Product("pipe", 2, "P", "A", <<<<1, y>>, <<3, y + 1>>>>) : y \in {-2, 5, 7}}}
      \cup
    {Model(<<Tool, p>>) :
        p \in {Pipe(s, 9) : s \in {"A", "B", "C", "D"}} \cup {[Pipe("A", 9) EXCEPT !.guid = g] : g \in {0, 1, 3}}
                \cup {[Pipe("B", 9) EXCEPT !.key = k] : k \in {"", "T", "Q"}}
                \cup {[Pipe("A", 9) EXCEPT !.containers = s] : s \in {<<>>, <<Space>>, <<Storey, Space>>, <<[id |-> "s1", type |-> "site"]>>}}
                \cup {[Pipe("A", 9) EXCEPT !.box = {}]}}
      \cup {[Before EXCEPT !.unit = 0], [Before EXCEPT !.projects = 2], [Before EXCEPT !.checker = "unavailable"],
            [Before EXCEPT !.checker = "statements"], [Before EXCEPT !.parsed = FALSE], Model(<<>>), Model(<<Tool>>),
            Model(<<Tool, Tool, Tool>>)}

Evidences(baselines, candidates) ==
    {[kind |-> "openbim", baseline |-> b, candidate |-> c, ids |-> Ids, bcf |-> TRUE, registered |-> TRUE,
      sizes |-> <<"fits", "fits", "fits">>] : b \in baselines, c \in candidates}
OneEvidence == CHOOSE e \in Evidences({Before}, {Before}) : TRUE
OpenBims ==
    Evidences(Baselines, Candidates)
      \cup {[OneEvidence EXCEPT !.registered = FALSE], [OneEvidence EXCEPT !.ids.specifications = <<>>],
            [OneEvidence EXCEPT !.sizes = <<"fits", "large", "fits">>], [OneEvidence EXCEPT !.sizes = <<"empty", "large", "fits">>]}

AllJobs == Comparisons \cup Solids \cup OpenBims

\* For the evidence alone.
NoContracts == [f \in {} |-> <<>>]
Duplicated == {x \in OpenBims : OpenBim!SameGuid(x.baseline) # {}}
=============================================================================
