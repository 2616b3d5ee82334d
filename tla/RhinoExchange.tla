---------------------------- MODULE RhinoExchange ----------------------------
(***************************************************************************)
(* A Rhino exchange made into a frame contract, and the round trip that    *)
(* screens it, draws it, opens the drawing again and releases a bundle     *)
(* (frame_rhino_adapter.py, frame_provenance.py,                           *)
(* frame_roundtrip_service.py, frame_artifacts.py).                        *)
(*                                                                         *)
(* An exchange has a document (id, unit, datum), members (two points in    *)
(* space), supports and loads (a point, a kind; kind "none" restrains or   *)
(* loads nothing), source objects, and a tolerance for merging points.     *)
(* Local coordinates are in parts of a micron, LocalGrid of them to the micron  *)
(* of the contract.                                                        *)
(***************************************************************************)
EXTENDS FrameDrawing

LocalGrid == 4

\* RhinoFrameExchange, as far as the schema says: so many entities at most, numbers for
\* points and the datum.
FrameExchange(e) ==
    /\ \A S \in {DOMAIN e.members, DOMAIN e.supports, DOMAIN e.loads} : IsFiniteSet(S)
    /\ \A m \in DOMAIN e.members : \A k \in 1..2 : e.members[m].points[k] \in Int \X Int \X Int
    /\ e.datum.origin \in Int \X Int \X Int
    /\ e.tolerance \in Nat

\* _quantize_mm: round, which takes a half to the even side.
Quantized(x) ==
    LET below == x \div LocalGrid
        rest == 2 * (x % LocalGrid)
    IN IF rest > LocalGrid \/ (rest = LocalGrid /\ below % 2 = 1) THEN below + 1 ELSE below

\* Units are explicit or refused; the numbers stand for the code's factors.
UnitScale == [mm |-> 1, cm |-> 2]

\* _to_local_mm, for a datum as it is, turned by a quarter, or not usable.
Usable(datum) == datum.axes \in {"straight", "turned"}
Local(e, p) ==
    LET r == [k \in 1..3 |-> (p[k] - e.datum.origin[k]) * UnitScale[e.unit]]
    IN IF e.datum.axes = "straight" THEN r ELSE <<r[2], -r[1], r[3]>>
OutOfPlane(q) == Abs(q[3]) > Epsilon * LocalGrid
Tolerance(e) == e.tolerance * UnitScale[e.unit]
Near(e, p, q) == \A axis \in 1..2 : Abs(p[axis] - q[axis]) <= Tolerance(e)

Ends(e) == {Local(e, e.members[m].points[k]) : m \in DOMAIN e.members, k \in 1..2}

\* Mutant of Ambiguous: any chain of near points may be merged.
NeverAmbiguous(e) == FALSE

\* _cluster_member_points: points that are near are merged, and that must be consistent.
Ambiguous(e) == \E p, q, r \in Ends(e) : Near(e, p, q) /\ Near(e, q, r) /\ ~Near(e, p, r)
Precedes(p, q) == p[1] < q[1] \/ (p[1] = q[1] /\ p[2] <= q[2])
Representative(e, p) ==
    LET Cluster == {q \in Ends(e) : Near(e, p, q)}
    IN CHOOSE q \in Cluster : \A r \in Cluster : Precedes(q, r)
NodeAt(e, p) ==
    LET q == Representative(e, p) IN <<Quantized(q[1]), Quantized(q[2])>>
Collides(e) ==
    \E p, q \in Ends(e) : /\ Representative(e, p) # Representative(e, q)
                          /\ NodeAt(e, p) = NodeAt(e, q)

\* _find_node: the nodes with a member end near the point.
Matches(e, p) == {NodeAt(e, q) : q \in {r \in Ends(e) : Near(e, p, r)}}

Attached(e) == [id \in DOMAIN e.supports \cup DOMAIN e.loads |->
                  Local(e, IF id \in DOMAIN e.supports THEN e.supports[id].point ELSE e.loads[id].point)]
Rejected(e) ==
    \/ ~Usable(e.datum)
    \/ \E p \in Ends(e) \cup {Attached(e)[id] : id \in DOMAIN Attached(e)} : OutOfPlane(p)
    \/ Ambiguous(e) \/ Collides(e)
    \/ \E m \in DOMAIN e.members :
         NodeAt(e, Local(e, e.members[m].points[1])) = NodeAt(e, Local(e, e.members[m].points[2]))
    \/ \E id \in DOMAIN Attached(e) : Cardinality(Matches(e, Attached(e)[id])) # 1

\* build_source_provenance
Provenance(e) ==
    IF DOMAIN e.sources = {} THEN {}
    ELSE {[exchange |-> e.id, document |-> e.document, objects |-> e.sources]}

\* adapt_rhino_frame_exchange, with provenance.
AdaptedContract(e) ==
    LET End(m, k) == NodeAt(e, Local(e, e.members[m].points[k]))
        On(id) == CHOOSE n \in Matches(e, Attached(e)[id]) : TRUE
    IN [nodes |-> [n \in {NodeAt(e, p) : p \in Ends(e)} |-> n],
        members |-> [m \in DOMAIN e.members |->
                       [from |-> End(m, 1), to |-> End(m, 2), section |-> e.members[m].section]],
        supports |-> [s \in DOMAIN e.supports |-> [node |-> On(s), kind |-> e.supports[s].kind]],
        loads |-> [l \in DOMAIN e.loads |-> [node |-> On(l), kind |-> e.loads[l].kind]],
        source |-> Provenance(e), solvable |-> e.solvable, withinLimits |-> e.withinLimits]

AdapterStatus(e, hash) ==
    IF e.unit \notin DOMAIN UnitScale THEN "needs_confirmation"
    ELSE IF Rejected(e) THEN "infeasible"
    ELSE FrameStatus(AdaptedContract(e), {}, hash)

\* _policy_violations: explicit supports, loads and source objects.
PolicyMet(e) ==
    /\ DOMAIN e.supports # {} /\ \A s \in DOMAIN e.supports : e.supports[s].kind # "none"
    /\ DOMAIN e.loads # {} /\ \A l \in DOMAIN e.loads : e.loads[l].kind # "none"
    /\ DOMAIN e.members \cup DOMAIN e.supports \cup DOMAIN e.loads \subseteq DOMAIN e.sources

\* build_frame_roundtrip_bundle's gates on the chain of identities.
Bundled(e, c, drawing, hash) ==
    /\ c.source = Provenance(e) /\ c.source # {}
    /\ VerifyFrame(c, drawing, hash).status = "passed"
    /\ drawing.record = hash

\* run_frame_rhino_roundtrip: what it releases, and whether it passed.
Released(e, c, hash) == {d \in CadAssurance(c, {}, hash) : Bundled(e, c, d, hash)}
RoundTrip(e, hash) == IF PolicyMet(e) /\ AdapterStatus(e, hash) = "ready" THEN Released(e, AdaptedContract(e), hash) ELSE {}
RoundTripStatus(e, status, bundle) ==
    IF bundle # {} THEN "passed" ELSE IF PolicyMet(e) /\ status # "ready" THEN status ELSE "failed"
=============================================================================
