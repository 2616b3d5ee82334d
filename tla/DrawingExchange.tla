--------------------------- MODULE DrawingExchange ---------------------------
(***************************************************************************)
(* A client, the drawing services and another CAD program.  The server     *)
(* keeps nothing: the client holds a contract and a drawing, validates and *)
(* revises the contract, has it drawn, lets another program edit the       *)
(* drawing, and asks for a verdict on the two.  A verifier must tell from  *)
(* the drawing alone whether it still is what the contract says.           *)
(*                                                                         *)
(* The contracts a client may hold are given by family.  The hash of one   *)
(* is the number of the first that is the same once in millimetres.        *)
(***************************************************************************)
EXTENDS PlateVerifier, PipingVerifier, ArchitectureVerifier, RhinoExchange

CONSTANTS Contracts,  \* for every family the contracts (or Rhino exchanges), a sequence
          Edited,     \* for every family how often a drawing is edited at most, a bound
          Inch        \* microns to an inch, as small as tells units apart

\* What the schemas of the contracts demand.
WellFormed(design, c) ==
    /\ design = "plate" => PlateContract(c)
    /\ design = "piping" => PipingContract(c)
    /\ design = "plan" => PlanContract(c)
    /\ design = "frame" => FrameContract(c)
    /\ design = "rhino" => FrameExchange(c)

ASSUME ExchangeAssumption ==
    /\ DOMAIN Contracts \subseteq {"plate", "piping", "plan", "frame", "rhino"}
    /\ \A f \in DOMAIN Contracts :
         /\ DOMAIN Contracts[f] \subseteq Nat \ {0}
         /\ \A n \in DOMAIN Contracts[f] : WellFormed(f, Contracts[f][n])
    /\ Edited \in [DOMAIN Contracts -> Nat]
    /\ Inch \in Nat \ {0}

VARIABLES family,   \* the design kind of the session
          held,     \* the contract the client holds
          drawing,  \* the drawing the client holds, if any
          edits,    \* how often it was edited
          verdict   \* the last answer on the two, if any

exchangeVars == <<family, held, drawing, edits, verdict>>

Contract(n) == Contracts[family][n]

\* normalize_*_to_mm
Normalized(n) ==
    CASE family = "plate" -> NormalizedPlate(Contract(n), Inch)
      [] family = "piping" -> NormalizedPiping(Contract(n), Inch)
      [] family = "plan" -> NormalizedPlan(Contract(n), Inch)
      [] OTHER -> Contract(n)

\* compute_*_hash: of the contract in millimetres.
Hash(n) == Min({k \in 1..n : Normalized(k) = Normalized(n)})

\* A contract may carry a hash: its own, or the one it had before the client revised it.
Claims == {{}} \cup {{Hash(n)} : n \in DOMAIN Contracts[family]}

\* validate_*_contract, of the contract in millimetres and the hash it claims to have.
StatusOf(c, claim, hash) ==
    CASE family = "plate" -> PlateStatus(c, claim, hash)
      [] family = "piping" -> PipingStatus(c, claim, hash)
      [] family = "plan" -> PlanStatus(c, claim, hash)
      [] family = "frame" -> FrameStatus(c, claim, hash)
Status(n, claim) == StatusOf(Normalized(n), claim, Hash(n))

DrawingOf(c, hash) ==
    CASE family = "plate" -> DrawnPlate(c, hash)
      [] family = "piping" -> DrawnPiping(c, hash)
      [] family = "plan" -> DrawnPlan(c, hash)
      [] family = "frame" -> DrawnFrame(c, hash)
Drawn(n) == DrawingOf(Normalized(n), Hash(n))

VerdictOf(c, d, hash) ==
    CASE family = "plate" -> VerifyPlate(c, d, hash)
      [] family = "piping" -> VerifyPiping(c, d, hash)
      [] family = "plan" -> VerifyPlan(c, d, hash)
      [] family = "frame" -> VerifyFrame(c, d, hash)
Verified(n, d) == VerdictOf(Normalized(n), d, Hash(n))

\* Where an entity may be moved to: a layer no reader knows, or one of another reading.
Elsewhere ==
    CASE family = "plate" -> {"0", "CUT"}
      [] family = "piping" -> {"0", "P-EQUIP"}
      [] family = "plan" -> {"0", "A-WALL"}
      [] OTHER -> {"0", "S-SUPP"}
-----------------------------------------------------------------------------
ExchangeInit ==
    /\ family \in DOMAIN Contracts
    /\ held \in DOMAIN Contracts[family]
    /\ drawing = {}
    /\ edits = 0
    /\ verdict = {}

\* The client edits its contract.
Revise ==
    /\ held' \in DOMAIN Contracts[family] \ {held}
    /\ verdict' = {}
    /\ UNCHANGED <<family, drawing, edits>>

\* generate_only: the drawing of a contract that is ready, of no other.
Generate ==
    /\ family # "rhino"
    /\ \E claim \in Claims : Status(held, claim) = "ready"
    /\ drawing' = {Drawn(held)}
    /\ edits' = 0
    /\ verdict' = {}
    /\ UNCHANGED <<family, held>>

EditDrawing ==
    /\ edits < Edited[family]
    /\ \E d \in drawing : drawing' \in {{x} : x \in Edits(d, Elsewhere)}
    /\ edits' = edits + 1
    /\ verdict' = {}
    /\ UNCHANGED <<family, held>>

\* verify_only: measured whatever the status of the contract is.
Verify ==
    /\ family # "rhino"
    /\ \E d \in drawing : verdict' = {Verified(held, d).status}
    /\ UNCHANGED <<family, held, drawing, edits>>

\* run_piping_design: validated, drawn and verified in one call.
RunPipingDesign ==
    /\ family = "piping"
    /\ \E claim \in Claims :
         LET c == Normalized(held)
             status == PipingStatus(c, claim, Hash(held))
         IN /\ drawing' = {d \in {DrawnPiping(c, Hash(held))} : status = "ready"}
            /\ verdict' = IF drawing' = {} THEN {status}
                          ELSE {VerifyPiping(c, d, Hash(held)).status : d \in drawing'}
    /\ edits' = 0
    /\ UNCHANGED <<family, held>>

\* run_frame_cad_assurance: a drawing is given away only if it passed.
RunFrameAssurance ==
    /\ family = "frame"
    /\ \E claim \in Claims : drawing' = CadAssurance(Contract(held), claim, Hash(held))
    /\ verdict' = {IF drawing' = {} THEN "failed" ELSE "passed"}
    /\ edits' = 0
    /\ UNCHANGED <<family, held>>

\* run_frame_rhino_roundtrip: no two exchanges make one contract.
RunRoundTrip ==
    /\ family = "rhino"
    /\ drawing' = RoundTrip(Contract(held), held)
    /\ verdict' = {RoundTripStatus(Contract(held), AdapterStatus(Contract(held), held), drawing')}
    /\ edits' = 0
    /\ UNCHANGED <<family, held>>

ExchangeNext ==
    \/ Revise \/ Generate \/ EditDrawing \/ Verify
    \/ RunPipingDesign \/ RunFrameAssurance \/ RunRoundTrip

ExchangeSpec == ExchangeInit /\ [][ExchangeNext]_exchangeVars
-----------------------------------------------------------------------------
(* Properties.  What conforms is said of the entities in the file, of all of them and *)
(* not of what a reader keeps, so that it can tell when a reader looks away.           *)

Passed == verdict = {"passed"}

\* Closer than so much, or meeting.
CloserThan(p, q, least) ==
    \A axis \in 1..2 : Low(p, axis) - High(q, axis) < least /\ Low(q, axis) - High(p, axis) < least

\* What a path of a plate names, measured on every shape of the file that it names.
OnPlate(c, d, path) ==
    LET Of(id) == {d.entities[i].points : i \in {j \in CutEntities(d) : d.entities[j].id = id}}
    IN CASE path.key = "outline_width" -> {Extent(p, 1) : p \in Of(c.outlineId)}
         [] path.key = "width" -> {Extent(p, 1) : p \in Of(path.name)}
         [] path.key = "center" -> {Centre(p, 1) : p \in Of(path.name)}
         [] OTHER -> {Centre(x[2], 1) - Centre(x[1], 1) :
                        x \in Of(c.patterns[path.name].source) \X Of(CopyId(<<path.name, 2>>))}

PlateConforms(c, hash, d) ==
    LET On(i) == d.entities[i]
        Read == {i \in DOMAIN d.entities : On(i).layer \in CutLayers}
        Cuts == {i \in Read : On(i).id # c.outlineId}
        Asked(type) == Required(c, {type}, 0)
        Ligament == Max({1, c.minLigament - Epsilon, Asked("minimum_ligament") - Epsilon})
        Named(names) == {i \in Cuts : \/ On(i).id \in names
                                      \/ \E p \in names \cap DOMAIN c.patterns : IsStrictPrefix(p, On(i).id)}
    IN /\ \A i \in Read : On(i).labelled /\ On(i).hash = hash /\ On(i).form \in {"circle", "closed"}
       /\ Cardinality(Read \ Cuts) = 1
       /\ \A o \in Read \ Cuts, i \in Cuts : \A k \in 1..2, axis \in 1..2 :
            On(i).points[k][axis] \in (Low(On(o).points, axis) + Asked("minimum_edge_distance") - Epsilon)
                                      .. (High(On(o).points, axis) - Asked("minimum_edge_distance") + Epsilon)
       /\ \A i, j \in Cuts : i # j => ~CloserThan(On(i).points, On(j).points, Ligament)
       /\ \A i \in Cuts : \A axis \in 1..2 : Extent(On(i).points, axis) >= c.minFeature - Epsilon
       /\ \A n \in DOMAIN c.dimensions :
            \E x \in OnPlate(c, d, c.dimensions[n].path) : WithinTolerance(c.dimensions[n], x)
       /\ \A n \in DOMAIN c.constraints :
            c.constraints[n].required /\ c.constraints[n].type = "alignment" =>
              \A i, j \in Named(c.constraints[n].on) : i # j =>
                Abs(Centre(On(i).points, c.constraints[n].axis) - Centre(On(j).points, c.constraints[n].axis))
                  <= c.constraints[n].tolerance + Epsilon

\* A plate that passed: of every shape that would be cut, also of a second one of a name,
\* the program knows it as its own, and it is closed, inside, large enough and apart
\* enough from every other; every dimension holds on the shapes of the file.
PassedPlateConforms ==
    family = "plate" /\ Passed =>
      \A d \in drawing : PlateConforms(Normalized(held), Hash(held), d)

PipingConforms(c, hash, d) ==
    LET On(i) == d.entities[i]
        One(id) == CHOOSE i \in DOMAIN d.entities : On(i).id = id
        Points(id) == On(One(id)).points
        Middle(id) == Midpoint(Points(id))
        Together(p, q) == \A axis \in 1..2 : Abs(p[axis] - q[axis]) <= Bound(c, "endpoint_alignment", Epsilon) + Epsilon
        Stops(s) == {0, RouteLength(Points(s))} \cup
                    {Projected(Points(s), Middle(h)) :
                       h \in {i \in DOMAIN c.items : c.items[i].kind = "support" /\ c.items[i].segment = s}}
        Margin(s, z) == Max({Bound(c, "minimum_obstacle_clearance", 0), c.zones[z].clearance})
                          + On(One(s)).width \div 2 - Epsilon
        Within(i) == Bound(c, IF c.items[i].kind = "component" THEN "inline_component_position"
                              ELSE "endpoint_alignment", Epsilon) + Epsilon
        OnFile(path) == CASE path.key = "length" -> RouteLength(Points(path.name))
                          [] path.key = "diameter" -> On(One(path.name)).width
                          [] path.key = "offset" -> Projected(Points(c.items[path.name].segment), Middle(path.name))
    IN /\ \A i \in DOMAIN d.entities : On(i).labelled /\ On(i).hash = hash
       /\ {<<On(i).id, On(i).layer, On(i).type>> : i \in DOMAIN d.entities}
            = {<<id, ExpectedPiping(c)[id][1], ExpectedPiping(c)[id][2]>> : id \in DOMAIN ExpectedPiping(c)}
       /\ Len(d.entities) = Cardinality(DOMAIN ExpectedPiping(c))
       /\ \A s \in DOMAIN c.segments :
            /\ Together(Points(s)[1], Middle(c.segments[s].from))
            /\ Together(Points(s)[2], Middle(c.segments[s].to))
            /\ \E axis \in 1..2 : Extent(Points(s), axis) <= Bound(c, "orthogonal", Epsilon) + Epsilon
            /\ \A o \in 0..RouteLength(Points(s)) : \E stop \in Stops(s) :
                 o <= stop /\ stop - o <= Bound(c, "maximum_support_spacing", 0) + Epsilon
            /\ \A z \in DOMAIN c.zones :
                 Margin(s, z) > 0 => ~CloserThan(Points(s), Points(z), Margin(s, z))
       /\ \A S \in SUBSET DOMAIN c.segments : S # {} /\ S # DOMAIN c.segments =>
            \E s \in S, t \in DOMAIN c.segments \ S, j, k \in 1..2 : Together(Points(s)[j], Points(t)[k])
       /\ \A i \in DOMAIN c.items :
            /\ On(One(i)).refs = <<c.items[i].segment>>
            /\ CloserThan(Points(c.items[i].segment), <<Middle(i)>>, Within(i) + 1)
            /\ Abs(Projected(Points(c.items[i].segment), Middle(i)) - c.items[i].offset) <= Within(i)
       /\ \A n \in DOMAIN c.dimensions : WithinTolerance(c.dimensions[n], OnFile(c.dimensions[n].path))

\* A route that passed has every feature of its contract once and nothing besides, its
\* pipes end at their nodes and are one network, from everywhere on a pipe the next support
\* is near enough, equipment has its clearance, items sit on their pipe where the contract
\* says, and every dimension holds on the file.  One whose schema let a feature or a note
\* have the id of the metadata may have lost that feature.
PassedPipingConforms ==
    family = "piping" /\ MetadataApart(Normalized(held)) /\ Passed =>
      \A d \in drawing : PipingConforms(Normalized(held), Hash(held), d)

PlanConforms(c, hash, d) ==
    LET On(i) == d.entities[i]
        One(id, layers) == CHOOSE i \in DOMAIN d.entities : On(i).id = id /\ On(i).layer \in layers
        Points(id) == On(One(id, PrimaryLayers)).points
        Wall(o) == c.openings[o].wall
        Lengthwise(o) == Axis(c.walls[Wall(o)].line)
        Wide(o) == Extent(Points(o), Lengthwise(o)) > Epsilon
    IN /\ \A i \in DOMAIN d.entities : On(i).labelled /\ On(i).hash = hash
       /\ {<<On(i).id, On(i).type, On(i).layer>> : i \in DOMAIN d.entities} = ExpectedPlan(c)
       /\ Len(d.entities) = Cardinality(ExpectedPlan(c))
       /\ \A w \in DOMAIN c.walls : \A k \in 1..2 : \A axis \in 1..2 :
            LET at == On(One(w, {"A-WALL-CENTER"})).points[k][axis]
            IN IF axis = Axis(c.walls[w].line)
               THEN \E edge \in {Low(Points(w), axis), High(Points(w), axis)} : Abs(at - edge) <= Epsilon
               ELSE Abs(at - Centre(Points(w), axis)) <= Epsilon
       /\ \A o \in DOMAIN c.openings : \A k \in 1..2 :
            Points(o)[k][Lengthwise(o)] \in (Low(Points(Wall(o)), Lengthwise(o)) - Epsilon)
                                            .. (High(Points(Wall(o)), Lengthwise(o)) + Epsilon)
       /\ \A o, p \in DOMAIN c.openings : o # p /\ Wall(o) = Wall(p) /\ Wide(o) /\ Wide(p) =>
            Low(Points(o), Lengthwise(o)) >= High(Points(p), Lengthwise(o)) - Epsilon
              \/ Low(Points(p), Lengthwise(o)) >= High(Points(o), Lengthwise(o)) - Epsilon
       /\ \A n \in DOMAIN c.constraints :
            c.constraints[n].type = "columns_clear_of_openings" /\ c.constraints[n].value > Epsilon =>
            \A k \in DOMAIN c.columns, o \in DOMAIN c.openings :
              ~CloserThan(Points(k), Points(o), c.constraints[n].value - Epsilon)

\* A plan that passed has every feature of its contract in every representation once and
\* nothing besides, walls around their centrelines, openings within their wall, those wider
\* than a micron apart, and columns clear of openings where more than a micron is asked for.
PassedPlanConforms ==
    family = "plan" /\ Passed =>
      \A d \in drawing : PlanConforms(Normalized(held), Hash(held), d)

FrameItems(c) == UNION {{type} \X ListedFrame(c, type) : type \in DOMAIN LayerOf}

\* An entity stands for one thing of a contract: its meaning, its source and its place,
\* from either end; where the metadata text is does not matter.
Shows(c, hash, e, item) ==
    LET At(points) == \A k \in DOMAIN points : \A axis \in 1..2 : Abs(e.points[k][axis] - points[k][axis]) <= Epsilon
        points == PointsOf(c, item[1], item[2])
    IN /\ <<e.type, e.id>> = item /\ e.hash = hash
       /\ e.refs = <<Semantics(c, item[1], item[2]), Source(c, item[2])>>
       /\ item[1] # "metadata" => At(points) \/ At(Reverse(points))

FrameConforms(c, hash, d) ==
    /\ d.record = hash /\ ~d.beside
    /\ Len(d.entities) = Cardinality(FrameItems(c))
    /\ \A item \in FrameItems(c) : \E i \in DOMAIN d.entities : Shows(c, hash, d.entities[i], item)

\* A frame drawing that passed says nothing but its contract: every member, support and
\* load once, in place, with its meaning and its source, under the sealed record.
PassedFrameDrawingConforms ==
    family = "frame" /\ Passed =>
      \A d \in drawing : FrameConforms(Contract(held), Hash(held), d)

\* What a verifier says of a file whose entities it cannot make out.
ReadingCodes ==
    {"LAYER_MISSING", "LAYER_INVALID", "LAYER_UNEXPECTED", "XDATA_MISSING", "HASH_MISMATCH",
     "ID_DUPLICATE", "UNEXPECTED", "ENTITY_UNEXPECTED", "IDENTITY_MISMATCH", "ENTITY_MISSING",
     "ENTITY_COUNT_MISMATCH", "UNSUPPORTED", "GEOMETRY_INVALID", "POLYLINE_OPEN",
     "CONTRACT_RECORD_INVALID", "LAYER_ENTITY_MISMATCH", "ENTITY_TYPE_INVALID"}
Readable(answer) == answer.status # "raised" /\ \A v \in answer.violations : v.code \notin ReadingCodes

\* Whether what is drawn of a contract has ids of its own: the ids of copies and of the
\* metadata are the writer's, and no schema keeps the declared ones from them.
DrawnApart(c) ==
    /\ family = "plate" => CopiesApart(c)
    /\ family = "piping" => MetadataApart(c)

\* A contract that is ready has a drawing its own verifier can read, whatever the verdict
\* on the geometry: no entity of it is unknown, missing, repeated or without its hash.
\* That is so exactly if the ids of what is drawn are apart: of a plate whose pattern
\* makes a copy with the id of a feature, or a piping with the id of the metadata, the
\* verifier never accepts what the service itself drew, though the contract is ready.
OwnDrawingIsReadable ==
    /\ drawing # {} /\ edits = 0 /\ family # "rhino" /\ Status(held, {}) = "ready"
    /\ drawing = {Drawn(held)}
    => \A d \in drawing : Readable(Verified(held, d)) <=> DrawnApart(Normalized(held))

KeepsGeometry(e, d) ==
    LET At(m, k) == Local(e, e.members[m].points[k])
        Of(m) == {i \in DOMAIN d.entities : d.entities[i].type = "member" /\ d.entities[i].id = m}
        Corners == (DOMAIN e.members) \X (1..2)
        EndOf(x) == d.entities[CHOOSE i \in Of(x[1]) : TRUE].points[x[2]]
    IN /\ \A m \in DOMAIN e.members : Cardinality(Of(m)) = 1
       /\ \A i \in DOMAIN d.entities : d.entities[i].type # "metadata" =>
            \E s \in d.entities[i].refs[2] :
              s.document = e.document /\ s.object = {e.sources[d.entities[i].id]}
       /\ \A x \in Corners : \A axis \in 1..2 :
            2 * Abs(LocalGrid * EndOf(x)[axis] - At(x[1], x[2])[axis]) <= 2 * Tolerance(e) + LocalGrid
       /\ \A x, y \in Corners :
            (EndOf(x) = EndOf(y))
              <=> \A axis \in 1..2 : Abs(At(x[1], x[2])[axis] - At(y[1], y[2])[axis]) <= Tolerance(e)

\* What a round trip releases is the exchange: every member once, from the object it came
\* from, its ends where they were but for merging and rounding, and two ends at one place
\* exactly if they were near one another.
RoundTripKeepsGeometry ==
    family = "rhino" /\ Passed => \A d \in drawing : KeepsGeometry(Contract(held), d)
=============================================================================
