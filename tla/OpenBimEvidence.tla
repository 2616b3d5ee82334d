--------------------------- MODULE OpenBimEvidence ---------------------------
(***************************************************************************)
(* openbim_rules.py and openbim_worker.py: the rules over a baseline and a *)
(* candidate IFC model, an IDS document and a registered profile, and the  *)
(* report they make together.                                              *)
(*                                                                         *)
(* A model has a schema, projects, a length unit (how many world units one *)
(* of its own is, 0 if unknown) and entities.  An entity is its class, its *)
(* GlobalId (0 for an empty one), its asset key ("" for none), the values  *)
(* of its properties, its spatial containers, each with an id and a type,  *)
(* and its box, if it has a shape; a tool has a service side, a depth and  *)
(* a turn about the vertical.                                              *)
(***************************************************************************)
EXTENDS Integers, Sequences, FiniteSets, FiniteSetsExt, SequencesExt, Functions

\* An issue names its rule, its severity, the entities it is about, and a field or key.
Issue(rule, severity, on, field) == [rule |-> rule, severity |-> severity, on |-> on, field |-> field]
Errors(rule, groups) == {Issue(rule, "error", on, "") : on \in groups}
Warnings(rule, groups) == {Issue(rule, "warning", on, "") : on \in groups}
When(condition, issues) == IF condition THEN issues ELSE {}

HasErrors(issues) == \E i \in issues : i.severity = "error"
Result(rule, status) == [rule |-> rule, status |-> status]

\* A rule has failed if it found errors; what warnings alone mean differs.
Outcome(rule, issues, otherwise) ==
    LET own == {i \in issues : i.rule = rule}
    IN Result(rule, IF HasErrors(own) THEN "FAILED" ELSE IF own # {} THEN "NOT_EVALUABLE" ELSE otherwise)

Applicable(model, profile) == {i \in DOMAIN model.entities : model.entities[i].class \in profile.applicable}

\* Those that have the same of what Of gives, one group for each.
Shared(model, among, Of(_)) ==
    {g \in {{k \in among : Of(model.entities[k]) = Of(model.entities[i])} : i \in among} : Cardinality(g) > 1}

\* entity_container: of one that is in several, none.
Container(e) == IF Len(e.containers) = 1 THEN {e.containers[1]} ELSE {}

\* property_value of a locked field
Value(e, field) ==
    IF field # "container" THEN e.values[field] ELSE IF Container(e) = {} THEN "" ELSE e.containers[1].id
-----------------------------------------------------------------------------
(* Rules *)

\* validate_ids_requirements, on what IfcTester answers: a specification asks one field
\* of the entities of a class, and may ask that there be one. Specifications may share a
\* rule; that there is none is said if nothing was said under the rule before.
IdsIssues(model, ids) ==
    LET Failing(spec) ==
            {i \in DOMAIN model.entities :
                model.entities[i].class = spec.class /\ Value(model.entities[i], spec.field) \notin spec.allowed}
        Absent(spec) == spec.required /\ \A e \in Range(model.entities) : e.class # spec.class
        Said(n) == \E k \in 1..(n - 1) : /\ ids.specifications[k].rule = ids.specifications[n].rule
                                         /\ Failing(ids.specifications[k]) # {} \/ Absent(ids.specifications[k])
    IN UNION {LET spec == ids.specifications[n]
              IN {Issue(spec.rule, "error", {i}, spec.field) : i \in Failing(spec)}
                   \cup When(Absent(spec) /\ ~Said(n), Errors(spec.rule, {{}})) : n \in DOMAIN ids.specifications}
IdsResults(model, ids) ==
    {Outcome(spec.rule, IdsIssues(model, ids), "PASSED") : spec \in Range(ids.specifications)}

\* validate_ifc_integrity of the candidate: its schema, the project and its unit,
\* GlobalIds, containers, and asset keys.
Unidentified(model) == {{i} : i \in {k \in DOMAIN model.entities : model.entities[k].guid = 0}}
Identified(model) == {i \in DOMAIN model.entities : model.entities[i].guid # 0}
Keyed(model, profile) == {i \in Applicable(model, profile) : model.entities[i].key # ""}
SameGuid(model) == Shared(model, Identified(model), LAMBDA e : e.guid)
SameKey(model, profile) == Shared(model, Keyed(model, profile), LAMBDA e : e.key)

IntegrityIssues(model, profile) ==
    When(model.checker = "unavailable", Warnings("IFC-00", {{}}))
      \cup When(model.checker = "statements", Errors("IFC-00", {{}}))
      \cup When(model.schema # profile.schema \/ model.projects # 1, Errors("IFC-01", {{}}))
      \cup When(model.unit = 0, Warnings("IFC-01", {{}}))
      \cup Errors("IFC-02", Unidentified(model) \cup SameGuid(model))
      \cup Errors("IFC-03", {{i} : i \in {k \in Applicable(model, profile) :
                                ~\E c \in Container(model.entities[k]) : c.type \in profile.containers}})
      \cup Errors("REV-01", SameKey(model, profile))
IntegrityResults(model, profile) ==
    {Outcome(rule, IntegrityIssues(model, profile), "PASSED") : rule \in {"IFC-00", "IFC-01", "IFC-02", "IFC-03"}}
      \cup {Result("REV-01", IF SameKey(model, profile) # {} THEN "AMBIGUOUS" ELSE "PASSED")}
IdentityAmbiguous(model, profile) == Unidentified(model) \cup SameGuid(model) \cup SameKey(model, profile) # {}

\* _is_authorized: an authorization that names no value before or after is for any.
Authorized(profile, key, field, before, after) ==
    \E a \in profile.authorized :
        /\ a.key = key /\ a.field = field
        /\ a.before = {} \/ before \in a.before
        /\ a.after = {} \/ after \in a.after

\* _asset_index: the entity of each key that only one has.
Assets(model, profile) ==
    {i \in Keyed(model, profile) : \A k \in Keyed(model, profile) : model.entities[k].key = model.entities[i].key => k = i}

\* The pairs validate_revision compares: of one asset, and neither's identity in doubt.
Revised(baseline, candidate, profile) ==
    LET Known(model) == Assets(model, profile) \ UNION (Unidentified(model) \cup SameGuid(model))
    IN {p \in Known(baseline) \X Known(candidate) : baseline.entities[p[1]].key = candidate.entities[p[2]].key}

RevisionIssues(baseline, candidate, profile) ==
    LET Before(pair) == baseline.entities[pair[1]]
        After(pair) == candidate.entities[pair[2]]
        Changed(pair, field) == Value(Before(pair), field) # Value(After(pair), field)
        Valid(e, field) == Value(e, field) \in profile.valid[field]
    IN (UNION {When(/\ Before(pair).guid # After(pair).guid
                    /\ ~Authorized(profile, Before(pair).key, "GlobalId", Before(pair).guid, After(pair).guid),
                   {Issue("REV-02", "error", {pair[2]}, "GlobalId")}) :
                pair \in Revised(baseline, candidate, profile)})
       \cup {Issue("REV-03", "error", {x[1][2]}, x[2]) :
                x \in {y \in Revised(baseline, candidate, profile) \X profile.locked :
                         /\ Changed(y[1], y[2]) /\ Valid(Before(y[1]), y[2]) /\ Valid(After(y[1]), y[2])
                         /\ ~Authorized(profile, Before(y[1]).key, y[2],
                                        Value(Before(y[1]), y[2]), Value(After(y[1]), y[2]))}}
RevisionResults(baseline, candidate, profile) ==
    LET ambiguous == IdentityAmbiguous(candidate, profile) \/ SameKey(baseline, profile) # {}
    IN {Outcome(rule, RevisionIssues(baseline, candidate, profile), IF ambiguous THEN "AMBIGUOUS" ELSE "PASSED") :
          rule \in {"REV-02", "REV-03"}}

\* Mutant of ServiceDepth: the depth of a tool is taken for metres.
ServiceDepthBare(model, tool, profile) == IF tool.depth = {} THEN profile.depth ELSE CHOOSE d \in tool.depth : TRUE

\* The depth of a tool's service zone in world units.
ServiceDepth(model, tool, profile) ==
    IF tool.depth = {} THEN profile.depth ELSE model.unit * (CHOOSE d \in tool.depth : TRUE)

\* world_aabb, in world units
World(model, box) == [corner \in 1..2 |-> [axis \in DOMAIN box[1] |-> model.unit * box[corner][axis]]]

\* orthogonal_world_side: sides are numbered counterclockwise, +X is 0.
Sides == <<"+X", "+Y", "-X", "-Y">>
WorldSide(tool) == (((CHOOSE n \in 1..4 : Sides[n] = tool.side) - 1) + tool.turn) % 4

\* service_envelope: beside the box, over the whole of its side.
Envelope(box, side, depth) ==
    LET axis == 1 + (side % 2)
    IN IF side < 2 THEN <<[box[1] EXCEPT ![axis] = box[2][axis]], [box[2] EXCEPT ![axis] = @ + depth]>>
       ELSE <<[box[1] EXCEPT ![axis] = @ - depth], [box[2] EXCEPT ![axis] = box[1][axis]]>>

\* aabb_positive_overlap
Overlap(p, q, epsilon) ==
    \A axis \in DOMAIN p[1] : Min({p[2][axis], q[2][axis]}) - Max({p[1][axis], q[1][axis]}) > epsilon

Tools(model, profile) == {i \in DOMAIN model.entities : model.entities[i].class = profile.tool}
Obstacles(model, profile) == {i \in DOMAIN model.entities : model.entities[i].class \in profile.obstacles}

\* A tool whose service zone is known.
Screened(model, tool, profile) ==
    /\ tool.box # {} /\ model.unit > 0
    /\ tool.side \in profile.sides /\ tool.turn \in 0..3
    /\ ServiceDepth(model, tool, profile) > 0

\* validate_clearance
ClearanceIssues(model, profile) ==
    LET On(i) == model.entities[i]
        Bounds(i) == World(model, CHOOSE b \in On(i).box : TRUE)
        Zone(t) == Envelope(Bounds(t), WorldSide(On(t)), ServiceDepth(model, On(t), profile))
        screened == {t \in Tools(model, profile) : Screened(model, On(t), profile)}
        shaped == {o \in Obstacles(model, profile) : On(o).box # {}}
    IN Warnings("GEO-01", {{i} : i \in (Tools(model, profile) \ screened) \cup (Obstacles(model, profile) \ shaped)})
         \cup Errors("GEO-01", {{x[1], x[2]} : x \in
                {y \in screened \X shaped : Overlap(Zone(y[1]), Bounds(y[2]), profile.epsilon)}})
-----------------------------------------------------------------------------
(* The worker: a report, or that the input is invalid *)

Report(baseline, candidate, ids, profile) ==
    LET issues == IdsIssues(candidate, ids) \cup IntegrityIssues(candidate, profile)
                    \cup RevisionIssues(baseline, candidate, profile) \cup ClearanceIssues(candidate, profile)
        results == IdsResults(candidate, ids) \cup IntegrityResults(candidate, profile)
                     \cup RevisionResults(baseline, candidate, profile)
                     \cup {Outcome("GEO-01", ClearanceIssues(candidate, profile), "PASSED")}
    IN [results |-> results, issues |-> issues,
        status |-> IF HasErrors(issues) \/ \E r \in results : r.status = "FAILED" THEN "failed_verification"
                   ELSE IF issues # {} \/ \E r \in results : r.status # "PASSED" THEN "needs_confirmation"
                   ELSE "passed"]

\* What is refused before the rules or by them: no IFC text, a baseline of another
\* schema, too many products or vertices, an IDS document that is not one, and an issue
\* that would name more entities than an issue may.
Invalid(baseline, candidate, ids, profile) ==
    LET Drawn(model) == {i \in Tools(model, profile) \cup Obstacles(model, profile) : model.entities[i].box # {}}
    IN \/ ~baseline.parsed \/ ~candidate.parsed \/ ~ids.parsed \/ Len(ids.specifications) = 0
       \/ baseline.schema # profile.schema
       \/ Len(baseline.entities) > profile.maxProducts
       \/ Cardinality(Applicable(candidate, profile)) > profile.maxProducts
       \/ Cardinality(Drawn(candidate)) > profile.maxShapes
       \/ \E group \in SameGuid(candidate) \cup SameKey(candidate, profile) : Cardinality(group) > profile.maxNamed

\* evaluate_openbim_payload and main
WorkerResponse(baseline, candidate, ids, profile) ==
    IF Invalid(baseline, candidate, ids, profile) THEN [ok |-> FALSE, code |-> "DG_OPENBIM_INPUT_INVALID"]
    ELSE [ok |-> TRUE, report |-> Report(baseline, candidate, ids, profile)]
-----------------------------------------------------------------------------
(* The service *)

\* _validate_inputs and resolve_openbim_profile, before the worker is called.
Refusal(job) ==
    IF \E size \in Range(job.sizes) : size = "empty" THEN 422
    ELSE IF \E size \in Range(job.sizes) : size = "large" THEN 413
    ELSE IF ~job.registered THEN 422 ELSE 200

\* run_openbim_evidence, on the worker's response: {} if the call failed.
Served(job, profile, response) ==
    IF response = {} THEN [code |-> 503, report |-> {}]
    ELSE LET r == CHOOSE x \in response : TRUE
         IN IF ~r.ok THEN [code |-> IF r.code = "DG_OPENBIM_INPUT_INVALID" THEN 422 ELSE 503, report |-> {}]
            ELSE IF job.bcf /\ Cardinality(r.report.issues) > profile.maxTopics THEN [code |-> 503, report |-> {}]
            ELSE [code |-> 200, report |-> {r.report}]
=============================================================================
