----------------------------- MODULE FrameDrawing -----------------------------
(***************************************************************************)
(* A frame's evidence drawing, the verifier that opens it again, and the   *)
(* CAD assurance that asks for the screening and the verifier to pass      *)
(* (frame_dxf.py, frame_cad_service.py).                                   *)
(*                                                                         *)
(* A contract has nodes (points), members between nodes, supports and      *)
(* loads on nodes (kind stands for their values), a source (the Rhino      *)
(* exchange it came from, its document, and the source objects by id) or   *)
(* none, and what the solver says of it: whether it solves it, and whether *)
(* every limit holds (FrameRun models the screening itself).               *)
(***************************************************************************)
EXTENDS SerializedDrawing

\* StructuralFrameContract, as far as the schema says: so many entities at most, each with
\* an id of its own, and points that are numbers.
FrameContract(c) ==
    /\ \A S \in {DOMAIN c.members, DOMAIN c.supports, DOMAIN c.loads} : IsFiniteSet(S)
    /\ \A n \in DOMAIN c.nodes : c.nodes[n] \in Int \X Int

LayerOf == [member |-> "S-FRAME", support |-> "S-SUPP", load |-> "S-LOAD", metadata |-> "DG-META"]
FrameLayers == {LayerOf[type] : type \in DOMAIN LayerOf}
Kinds == {"member", "support", "load"}

ListedFrame(c, type) ==
    CASE type = "member" -> DOMAIN c.members
      [] type = "support" -> DOMAIN c.supports
      [] type = "load" -> DOMAIN c.loads
      [] OTHER -> {"frame-metadata"}
KnownFrame(c, type, id) == type \in DOMAIN LayerOf /\ id \in ListedFrame(c, type)

\* The points of the contract a thing is drawn at.
PointsOf(c, type, id) ==
    CASE type = "member" -> <<c.nodes[c.members[id].from], c.nodes[c.members[id].to]>>
      [] type = "support" -> <<c.nodes[c.supports[id].node]>>
      [] type = "load" -> <<c.nodes[c.loads[id].node]>>
      [] OTHER -> <<<<0, 0>>>>

\* What the XDATA say of it: the semantics, and the source if there is one.
Semantics(c, type, id) ==
    CASE type = "member" -> <<c.members[id].from, c.members[id].to, c.members[id].section>>
      [] type = "support" -> <<c.supports[id].node, c.supports[id].kind>>
      [] type = "load" -> <<c.loads[id].node, c.loads[id].kind>>
      [] OTHER -> <<"contract record">>
Source(c, id) ==
    {[exchange |-> s.exchange, document |-> s.document,
      object |-> IF id \in DOMAIN s.objects THEN {s.objects[id]} ELSE {}] : s \in c.source}

\* What is drawn for one thing.
FrameEntity(c, hash, type, id) ==
    [layer |-> LayerOf[type],
     form |-> IF type = "member" THEN "line" ELSE IF type = "metadata" THEN "text" ELSE "point",
     points |-> PointsOf(c, type, id), labelled |-> TRUE, id |-> id, type |-> type,
     refs |-> <<Semantics(c, type, id), Source(c, id)>>, hash |-> hash, width |-> 0]

\* generate_frame_dxf, with _write_contract_record sealing the contract in the file.
DrawnFrame(c, hash) ==
    LET All(type) == InOrder({FrameEntity(c, hash, type, id) : id \in ListedFrame(c, type)})
    IN [Drawing(FrameLayers, All("member") \o All("support") \o All("load") \o All("metadata"))
          EXCEPT !.record = hash]

\* validate_frame_contract, as far as a drawing needs it: known nodes, no member without
\* length, one connected frame, and a solver that solves it.
FrameStatus(c, claimed, hash) ==
    LET Unknown == \/ \E m \in DOMAIN c.members : ~({c.members[m].from, c.members[m].to} \subseteq DOMAIN c.nodes)
                   \/ \E s \in DOMAIN c.supports : c.supports[s].node \notin DOMAIN c.nodes
                   \/ \E l \in DOMAIN c.loads : c.loads[l].node \notin DOMAIN c.nodes
        Joins(m, S) == (c.members[m].from \in S) # (c.members[m].to \in S)
    IN IF \/ claimed # {} /\ claimed # {hash}
          \/ Unknown
          \/ \E m \in DOMAIN c.members : c.nodes[c.members[m].from] = c.nodes[c.members[m].to]
          \/ \E S \in SUBSET DOMAIN c.nodes :
               S # {} /\ S # DOMAIN c.nodes /\ ~\E m \in DOMAIN c.members : Joins(m, S)
          \/ ~c.solvable
       THEN "infeasible" ELSE "ready"
-----------------------------------------------------------------------------
(* verify_frame_dxf *)

Relevant(drawing) == {i \in DOMAIN drawing.entities : drawing.entities[i].layer \in FrameLayers}
Earlier(drawing, i) ==
    {j \in Relevant(drawing) : /\ j < i /\ drawing.entities[j].labelled
                               /\ drawing.entities[j].type = drawing.entities[i].type}

\* _entity_metadata_violations: missing keys end the comparison of the others.
MetadataFaults(c, hash, e) ==
    IF ~e.labelled \/ (e.refs = <<>> /\ (KnownFrame(c, e.type, e.id) \/ c.source # {})) THEN {"XDATA_MISSING"}
    ELSE (IF e.hash # hash THEN {"HASH_MISMATCH"} ELSE {})
           \cup (IF c.source # {} /\ e.refs[2] # Source(c, e.id) THEN {"PROVENANCE_MISMATCH"} ELSE {})
           \cup (IF KnownFrame(c, e.type, e.id) /\ e.refs[1] # Semantics(c, e.type, e.id)
                 THEN {"SEMANTIC_MISMATCH"} ELSE {})

SameEnds(p, q) == p = q \/ p = Reverse(q)
WithinEpsilon(p, q) == \A k \in DOMAIN p : \A axis \in 1..2 : Abs(p[k][axis] - q[k][axis]) <= Epsilon

\* One entity that has an id and a type, on a layer of the frame.
FrameEntityFaults(c, drawing, i) ==
    LET e == drawing.entities[i]
        Expected == PointsOf(c, e.type, e.id)
        Placed == WithinEpsilon(e.points, Expected) \/ (e.type = "member" /\ WithinEpsilon(e.points, Reverse(Expected)))
        Form == IF e.type = "member" THEN "line" ELSE IF e.type = "metadata" THEN "text" ELSE "point"
    IN (IF e.type \notin DOMAIN LayerOf \/ LayerOf[e.type] # e.layer THEN {"LAYER_ENTITY_MISMATCH"} ELSE {})
         \cup (IF e.type \in Kinds /\ \E j \in Earlier(drawing, i) : drawing.entities[j].id = e.id
               THEN {"ID_DUPLICATE"} ELSE {})
         \cup (IF /\ e.type = "member" /\ e.form = "line"
                  /\ \E j \in Earlier(drawing, i) :
                       /\ drawing.entities[j].form = "line" /\ drawing.entities[j].id # e.id
                       /\ SameEnds(drawing.entities[j].points, e.points)
               THEN {"DUPLICATE_GEOMETRY"} ELSE {})
         \cup (IF ~KnownFrame(c, e.type, e.id) THEN {"ENTITY_UNEXPECTED"}
               ELSE IF e.form # Form THEN {"ENTITY_TYPE_INVALID"}
               ELSE IF e.type \in Kinds /\ ~Placed THEN {"DEVIATION"} ELSE {})

Absent(c, drawing) ==
    LET Seen(type) == {drawing.entities[i].id : i \in {j \in Relevant(drawing) :
                          drawing.entities[j].labelled /\ drawing.entities[j].type = type}}
    IN {type \in Kinds : ~(ListedFrame(c, type) \subseteq Seen(type))}

\* Mutant of AbsenceFaults: the entities are not counted.
AbsenceFaultsUncounted(c, drawing) == {"ENTITY_MISSING" : type \in Absent(c, drawing)}

\* What is expected, by kind, and in number.
AbsenceFaults(c, drawing) ==
    LET Expected == Cardinality(DOMAIN c.members) + Cardinality(DOMAIN c.supports) + Cardinality(DOMAIN c.loads) + 1
    IN {"ENTITY_MISSING" : type \in Absent(c, drawing)}
         \cup (IF Cardinality(Relevant(drawing)) # Expected THEN {"ENTITY_COUNT_MISMATCH"} ELSE {})

FrameFaults(c, drawing, hash) ==
    {v.code : v \in FileViolations(drawing, FrameLayers)}
      \cup (IF drawing.record # hash THEN {"CONTRACT_RECORD_INVALID"} ELSE {})
      \cup (IF drawing.beside THEN {"CONTENT_FORBIDDEN"} ELSE {})
      \cup (IF Relevant(drawing) # DOMAIN drawing.entities THEN {"LAYER_UNEXPECTED"} ELSE {})
      \cup (UNION {MetadataFaults(c, hash, drawing.entities[i]) : i \in Relevant(drawing)})
      \cup (UNION {FrameEntityFaults(c, drawing, i) : i \in {j \in Relevant(drawing) : drawing.entities[j].labelled}})
      \cup AbsenceFaults(c, drawing)

\* There is no repair: a drawing passed or failed.
VerifyFrame(c, drawing, hash) ==
    Answer(FALSE, {Violation(code, {}, 0, FALSE) : code \in
                     IF FrameStatus(c, {}, hash) # "ready" THEN {"CONTRACT_NOT_READY"}
                     ELSE FrameFaults(c, drawing, hash)})

\* run_frame_cad_assurance: the drawing is handed out only when both gates passed.
CadAssurance(c, claimed, hash) ==
    LET Released == {d \in {DrawnFrame(c, hash)} : c.withinLimits /\ VerifyFrame(c, d, hash).status = "passed"}
    IN IF FrameStatus(c, claimed, hash) # "ready" THEN {} ELSE Released
=============================================================================
