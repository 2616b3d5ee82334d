---------------------------- MODULE EvidenceDesk -----------------------------
(***************************************************************************)
(* A client and the services that answer for files: comparisons of two CAD *)
(* files, OpenBIM evidence, and solid parts that one worker process writes *)
(* and another reads back.  Every call of a worker may fail: its input or  *)
(* output is too large, it runs out of time, it dies, it answers no JSON.  *)
(* The service goes on, stops or answers as its code says; the client may  *)
(* ask again, for the same or for anything else.                           *)
(***************************************************************************)
EXTENDS Integers, Sequences, FiniteSets, Functions

CONSTANTS Jobs,   \* what may be asked for, a set
          Profile, \* the registered OpenBIM profile
          Budget  \* limits of the analysis of DXF files

\* A file is a list of entities or of roots, which are numbered; a hole has a diameter
\* and a centre.
FileTypes(f) ==
    /\ f.format = "dxf" => f.entities \in Seq(Range(f.entities))
    /\ f.format = "ifc" => f.roots \in Seq(Range(f.roots)) /\ \A r \in Range(f.roots) : r.guid \in Nat
Cylinders(s) ==
    s \in Seq(Range(s)) /\ \A x \in Range(s) : x.diameter \in Int /\ x.centre \in Int \X Int

\* A model is a list of entities, of which some have a box in two or three dimensions and
\* a depth, in its own unit.
ModelTypes(f) ==
    /\ f.entities \in Seq(Range(f.entities)) /\ f.unit \in Nat
    /\ \E axes \in {1..2, 1..3} : \A e \in Range(f.entities) :
         e.box \subseteq [1..2 -> [axes -> Int]] /\ e.depth \subseteq Int

ASSUME DeskAssumption ==
    /\ Budget.entities \in Nat /\ Budget.listed \in Nat
    /\ Profile.epsilon \in Nat /\ Profile.depth \in Nat /\ Profile.sides \subseteq {"+X", "+Y", "-X", "-Y"}
    /\ \A x \in Jobs :
         /\ x.kind \in {"compare", "openbim", "solid"}
         /\ x.kind = "compare" => FileTypes(x.baseline) /\ FileTypes(x.candidate)
         /\ x.kind = "openbim" => ModelTypes(x.baseline) /\ ModelTypes(x.candidate)
         /\ x.kind = "solid" =>
              /\ x.contract.tolerance \in Nat /\ Cylinders(x.contract.cylinders)
              /\ \A step \in x.written : Cylinders(step.cylinders)

Artifact == INSTANCE ArtifactEvidence
OpenBim == INSTANCE OpenBimEvidence

VARIABLES job,      \* what was asked for
          replies,  \* what the worker calls made so far returned, {} for a failed one
          response  \* the answer, if there is one

deskVars == <<job, replies, response>>

\* The worker calls of a request, in order, each with what it is for.
Calls ==
    CASE job.kind = "compare" -> Artifact!ComparisonCalls(job.baseline, job.candidate)
      [] job.kind = "openbim" -> IF OpenBim!Refusal(job) = 200 THEN <<<<"evidence", "models">>>> ELSE <<>>
      [] OTHER -> <<<<"generate", "step">>, <<"audit", "step">>>>

\* After a failed call no other is made, unless it was an audit: that is a result.
Broken == \E n \in DOMAIN replies : replies[n] = {} /\ Calls[n][1] # "audit"
Calling == response = {} /\ ~Broken /\ Len(replies) < Len(Calls)

\* What came back for a call: nothing also if it was not made.
Reply(call) == UNION {replies[n] : n \in {k \in DOMAIN replies : Calls[k] = call}}

\* What the worker may return next. What the CAD worker wrote need not be what the
\* contract says, and an OpenBIM worker may say that it could not complete.
Returned ==
    CASE Calls[Len(replies) + 1][1] = "generate" -> job.written
      [] Calls[Len(replies) + 1][1] = "evidence" ->
           {OpenBim!WorkerResponse(job.baseline, job.candidate, job.ids, Profile),
            [ok |-> FALSE, code |-> "DG_OPENBIM_WORKER_FAILED"]}
      [] OTHER -> {"done"}

Comparison ==
    Artifact!Compared(job.baseline, job.candidate,
        {Artifact!Audit(job.baseline, Reply(<<"audit", "baseline">>)),
         Artifact!Audit(job.candidate, Reply(<<"audit", "candidate">>))},
        Reply(<<"index", "baseline">>) # {} /\ Reply(<<"index", "candidate">>) # {})

Solid ==
    [status |-> IF Artifact!SolidPassed(job.contract, Reply(<<"generate", "step">>), Reply(<<"audit", "step">>))
                  THEN "passed" ELSE "failed"]

Evidence ==
    IF OpenBim!Refusal(job) # 200 THEN [code |-> OpenBim!Refusal(job), report |-> {}]
    ELSE OpenBim!Served(job, Profile, Reply(<<"evidence", "models">>))
-----------------------------------------------------------------------------
DeskInit ==
    /\ job \in Jobs
    /\ replies = <<>>
    /\ response = {}

\* _run_worker returns what the worker printed.
WorkerReturns ==
    /\ Calling
    /\ \E value \in Returned : replies' = Append(replies, {value})
    /\ UNCHANGED <<job, response>>

\* _run_worker raises CadWorkerFailure.
WorkerFails ==
    /\ Calling
    /\ replies' = Append(replies, {})
    /\ UNCHANGED <<job, response>>

Respond ==
    /\ response = {} /\ ~Calling
    /\ response' = {CASE job.kind = "compare" -> Comparison [] job.kind = "openbim" -> Evidence [] OTHER -> Solid}
    /\ UNCHANGED <<job, replies>>

\* The client asks again.
Ask ==
    /\ response # {}
    /\ job' \in Jobs
    /\ replies' = <<>>
    /\ response' = {}

DeskNext == WorkerReturns \/ WorkerFails \/ Respond \/ Ask

DeskSpec == DeskInit /\ [][DeskNext]_deskVars
-----------------------------------------------------------------------------
(* Properties.  They are said of the files themselves, not of what a parser kept of them. *)

\* Everything a DXF file shows in its model space, block contents and what no parser
\* measures included, whatever budget there is: how often each entity occurs.
Shown(f) ==
    LET At(e) == {i \in DOMAIN f.entities : f.entities[i].type = e[1] /\ f.entities[i].shape = e[2]}
    IN [e \in {<<x.type, x.shape>> : x \in Range(f.entities)} |-> Cardinality(At(e))]
Opaque(f) == \E e \in Range(f.entities) : e.type \notin Artifact!MeasuredTypes

\* That two drawings are the same is said only if both were read whole, by every call, and
\* are: entity by entity, also where one occurs twice. An audited comparison of models
\* names every product that came, went or changed, unless the list it would be in is full.
ComparisonIsOfWholeFiles ==
    \A a \in response : job.kind = "compare" =>
        LET b == job.baseline
            c == job.candidate
            Guids(f) == {r.guid : r \in Range(f.roots)} \ {0}
            Full(S) == Cardinality(S) = Budget.listed
            Says(f, guid) == {<<r.sign, r.container>> : r \in {x \in Range(f.roots) : x.guid = guid}}
        IN /\ a.same = {TRUE} => Shown(b) = Shown(c) /\ ~Opaque(b) /\ ~Opaque(c)
           /\ a.same # {} => \A n \in DOMAIN replies : Calls[n][1] = "index" => replies[n] # {}
           /\ a.status = "audited" =>
                /\ \A n \in DOMAIN Calls : n \in DOMAIN replies /\ replies[n] # {}
                /\ b.format = c.format
                /\ b.format = "ifc" =>
                     /\ Guids(c) \ Guids(b) \subseteq a.added \/ Full(a.added)
                     /\ Guids(b) \ Guids(c) \subseteq a.deleted \/ Full(a.deleted)
                     /\ Full(a.changed) \/ \A g \in Guids(b) \cap Guids(c) : Says(b, g) = Says(c, g) \/ g \in a.changed

\* The GlobalIds of a model that are not those of one entity only.
InDoubt(model) == UNION (OpenBim!Unidentified(model) \cup OpenBim!SameGuid(model))

PassedReport == \E a \in response : job.kind = "openbim" /\ \E r \in a.report : r.status = "passed"

\* A model whose evidence passed is one project in the profile's schema, every entity has
\* a GlobalId of its own, every product a container of a required type and, if it has a
\* key, no other product has it; of an asset whose identity was never in doubt, the
\* GlobalId and every locked field are as before, or what they became was authorized, if
\* the authorization says so from this to this; and where a tool is serviced there is
\* nothing in the way, as deep as it says in its own unit, but for what is no thicker than
\* the tolerance.
PassedModelConforms ==
    PassedReport =>
      LET b == job.baseline
          c == job.candidate
          Of(model, i) == model.entities[i]
          Allowed(key, field, before, after) ==
              \/ before = after
              \/ \E x \in Profile.authorized :
                   /\ x.key = key /\ x.field = field
                   /\ x.before = {} \/ before \in x.before
                   /\ x.after = {} \/ after \in x.after
          World(i) == OpenBim!World(c, CHOOSE x \in Of(c, i).box : TRUE)
          Thick(i) == \A axis \in DOMAIN World(i)[1] : World(i)[2][axis] - World(i)[1][axis] > Profile.epsilon
          Need(t) == IF Of(c, t).depth = {} THEN Profile.depth ELSE c.unit * (CHOOSE d \in Of(c, t).depth : TRUE)
          \* How far an obstacle reaches into the depth before a side, and along it.
          Clear(t, o) ==
              LET side == OpenBim!WorldSide(Of(c, t))
                  axis == 1 + (side % 2)
                  front == IF side < 2 THEN World(o)[1][axis] - World(t)[2][axis]
                                       ELSE World(t)[1][axis] - World(o)[2][axis]
                  back == IF side < 2 THEN World(t)[2][axis] - World(o)[2][axis]
                                      ELSE World(o)[1][axis] - World(t)[1][axis]
              IN \/ front >= Need(t) - Profile.epsilon \/ back >= -Profile.epsilon
                 \/ \E other \in DOMAIN World(t)[1] \ {axis} :
                      \/ World(o)[1][other] >= World(t)[2][other] - Profile.epsilon
                      \/ World(o)[2][other] <= World(t)[1][other] + Profile.epsilon
      IN /\ c.projects = 1 /\ c.schema = Profile.schema
         /\ Cardinality({e.guid : e \in Range(c.entities)}) = Len(c.entities)
         /\ \A i \in DOMAIN c.entities : Of(c, i).class \in Profile.applicable =>
              /\ Len(Of(c, i).containers) = 1 /\ Of(c, i).containers[1].type \in Profile.containers
              /\ \A k \in OpenBim!Keyed(c, Profile) : Of(c, k).key = Of(c, i).key => k = i
              /\ \A k \in OpenBim!Keyed(b, Profile) \ InDoubt(b) : Of(b, k).key = Of(c, i).key =>
                   /\ Allowed(Of(c, i).key, "GlobalId", Of(b, k).guid, Of(c, i).guid)
                   /\ \A field \in Profile.locked :
                        LET before == OpenBim!Value(Of(b, k), field)
                            after == OpenBim!Value(Of(c, i), field)
                        IN {before, after} \subseteq Profile.valid[field] =>
                             Allowed(Of(c, i).key, field, before, after)
         /\ \A t \in OpenBim!Tools(c, Profile), o \in OpenBim!Obstacles(c, Profile) :
              Thick(t) /\ Thick(o) /\ Need(t) > Profile.epsilon => Clear(t, o)

\* What the development plan promises: of an asset whose GlobalId is not its own, in
\* either model, no rule of the revision says it is as it was.
DuplicatesAreAmbiguous ==
    \A a \in response : job.kind = "openbim" =>
      \A r \in a.report, i \in InDoubt(job.baseline) \cap OpenBim!Assets(job.baseline, Profile) :
        \A k \in OpenBim!Assets(job.candidate, Profile) :
          job.baseline.entities[i].key = job.candidate.entities[k].key =>
            \A rule \in {"REV-02", "REV-03"} : OpenBim!Result(rule, "PASSED") \notin r.results

\* A solid that passed is in the file that was written, and has in it every hole of the
\* contract that is larger than the tolerance, each another one: two holes are never seen
\* in one cylinder, whatever else was drilled.
PassedSolidHasEveryHole ==
    \A a \in response : job.kind = "solid" /\ a.status = "passed" =>
      \E step \in Reply(<<"generate", "step">>) :
        LET c == job.contract
            holes == {n \in DOMAIN c.cylinders : c.cylinders[n].diameter > c.tolerance}
            Is(n, k) ==
                /\ Artifact!Within(c.cylinders[n].diameter, step.cylinders[k].diameter, c.tolerance)
                /\ \A axis \in 1..2 : Artifact!Within(c.cylinders[n].centre[axis], step.cylinders[k].centre[axis], c.tolerance)
        IN /\ step.valid
           /\ \A axis \in 1..3 : Artifact!Within(c.box[axis], step.box[axis], c.tolerance)
           /\ \E where \in Injection(holes, DOMAIN step.cylinders) : \A n \in holes : Is(n, where[n])
=============================================================================
