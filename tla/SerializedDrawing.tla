-------------------------- MODULE SerializedDrawing --------------------------
(***************************************************************************)
(* A DXF file as the writers leave it and the independent readers find it, *)
(* and what a CAD program may do to it in between.                         *)
(*                                                                         *)
(* A drawing is its release, its unit, its layer table, its entities in    *)
(* file order, the contract sealed in it (only frames have one) and        *)
(* whether it has content beside the model space.  An entity has a layer,  *)
(* a form (the DXF type, and whether a polyline is closed), points, a      *)
(* width, and the XDATA: whether it has any (labelled), the id and type of *)
(* the feature, the ids it refers to, and the hash of the contract it was  *)
(* drawn from.                                                             *)
(*                                                                         *)
(* Lengths are whole microns and distances are taken axis by axis.         *)
(***************************************************************************)
EXTENDS Integers, Sequences, FiniteSets, SequencesExt

Epsilon == 1  \* VERIFY_EPSILON_MM, a micron

Drawing(layers, entities) ==
    [release |-> "R2013", unit |-> "mm", layers |-> layers, entities |-> entities,
     record |-> 0, beside |-> FALSE]

\* The elements of a set as entities of a file, in some order that is always the same.
InOrder(S) == FoldSet(LAMBDA e, before : Append(before, e), <<>>, S)

\* Boxes, as their lower and their upper corner.
Boxes == [1..2 -> Int \X Int]

\* The fields of a record that are numbers by the schema.
Numbers(record, fields) == fields \subseteq DOMAIN record /\ \A f \in fields : record[f] \in Int

Shifted(points, by) ==
    [k \in DOMAIN points |-> <<points[k][1] + by[1], points[k][2] + by[2]>>]

Abs(x) == IF x < 0 THEN -x ELSE x

Low(points, axis) == Min({points[k][axis] : k \in DOMAIN points})
High(points, axis) == Max({points[k][axis] : k \in DOMAIN points})

\* How far the boxes around two shapes are apart: not positive when they meet.
Gap(p, q) == Max({Low(p, axis) - High(q, axis) : axis \in 1..2}
                 \cup {Low(q, axis) - High(p, axis) : axis \in 1..2})
Centre(points, axis) == (Low(points, axis) + High(points, axis)) \div 2
Extent(points, axis) == High(points, axis) - Low(points, axis)

\* Whether a value is within the tolerance of a dimension of a contract.
WithinTolerance(dimension, actual) ==
    actual - dimension.target \in (dimension.lower - Epsilon) .. (dimension.upper + Epsilon)

\* A violation: its code, the entities it names, which dimension or constraint in the
\* order of the contract found it, and whether a repair may be tried.
Violation(code, on, nth, repairable) ==
    [code |-> code, on |-> on, nth |-> nth, repairable |-> repairable]

\* The codes that say nothing about any one entity.
FileViolations(drawing, layers) ==
    {Violation(code, {}, 0, FALSE) : code \in
        {x \in {"LAYER_MISSING", "VERSION_INVALID", "UNIT_INVALID"} :
           \/ x = "LAYER_MISSING" /\ ~(layers \subseteq drawing.layers)
           \/ x = "VERSION_INVALID" /\ drawing.release # "R2013"
           \/ x = "UNIT_INVALID" /\ drawing.unit # "mm"}}

\* What a status may be once the violations are known.
Judged(violations) ==
    IF violations = {} THEN "passed"
    ELSE IF \A v \in violations : v.repairable THEN "repairable"
    ELSE "failed"

\* What a verifier answers, unless an error ends it.
Answer(raised, violations) ==
    IF raised THEN [status |-> "raised", violations |-> {}]
    ELSE [status |-> Judged(violations), violations |-> violations]
-----------------------------------------------------------------------------
(* Edits by another CAD program: moved, stretched, relabelled, removed, copied. *)

Shifts == {<<1, 0>>, <<3, 0>>, <<0, 3>>}
Reforms == {"open", "crossed", "spline"}

\* Elsewhere is where an entity may be moved to: a layer nobody reads, or another.
EntityEdits(e, Elsewhere) ==
    {[e EXCEPT !.points = Shifted(@, by)] : by \in Shifts}
      \cup {[e EXCEPT !.points = ReplaceAt(@, Len(@), Shifted(<<Last(@)>>, <<2, 2>>)[1])]}
      \cup {[e EXCEPT !.labelled = FALSE], [e EXCEPT !.refs = <<>>]}
      \cup {[e EXCEPT !.form = form] : form \in Reforms}
      \cup {[e EXCEPT !.layer = layer] : layer \in Elsewhere}

Edits(drawing, Elsewhere) ==
    (UNION {{[drawing EXCEPT !.entities = ReplaceAt(@, i, e)] : e \in EntityEdits(drawing.entities[i], Elsewhere)} :
              i \in DOMAIN drawing.entities})
      \cup {[drawing EXCEPT !.entities[i].id = drawing.entities[(i % Len(drawing.entities)) + 1].id] :
               i \in DOMAIN drawing.entities}
      \cup {[drawing EXCEPT !.entities = RemoveAt(@, i)] : i \in DOMAIN drawing.entities}
      \cup {[drawing EXCEPT !.entities = Append(@, drawing.entities[i])] : i \in DOMAIN drawing.entities}
      \cup {[drawing EXCEPT !.layers = @ \ {CHOOSE layer \in @ : TRUE}], [drawing EXCEPT !.unit = "inch"],
             [drawing EXCEPT !.release = "R12"], [drawing EXCEPT !.record = -1], [drawing EXCEPT !.beside = TRUE]}
=============================================================================
