# Datumguard in TLA+

DatumGuard turns a design contract (a plate, a floor plan, a pipe route, a frame)
into a CAD drawing, measures the drawing again with code that did not draw it,
repairs declared values within bounds, and releases a bundle only for a drawing
that passed. It also audits and compares uploaded CAD files, checks building models
against a registered profile, and verifies solids. A FastAPI service runs all this
behind an admission layer (`src/src/datumguard/operations.py`); a Next.js client edits
contracts and shows verdicts. The modules here model the admission layer, the design
runs with their contracts, drawings and verifiers, the services for files, and the
client workspaces with concurrent requests. TLC checks them on small instances; TLAPS
proves the most important properties (of the gate, the limiter, the flights and their nested
use, the request pipeline, the frame, plate and architecture runs, the repair endpoints, the
plate, piping, plan and frame verifiers and the drawings they are about, the Rhino round trip, comparisons, solids and building models,
the architecture workspace and the readiness poll) for all values of their constants.

Two questions run through the project. Of the parts with concurrency and loops (admission,
runs, workspaces): does every order of events keep the counters, the current contract and
the verdict together? There verifiers and solvers may answer anything. Of the parts that
judge (the verifiers and rules): is what they pass really so, in the whole file and not
only in what they read of it? There the file may be edited, damaged or another one.

## 1. Inventory

Each entry: the state it keeps, its operations, who calls it, what is hard, and what makes
it correct. "-> Module" names the model; entries without one are not modelled (section 8).

### Admission layer (`operations.py`)

- **Heavy-operation gate** -> `HeavyGate`, `PermitPool`. State: `_active`, `_waiting`, an
  `asyncio.Semaphore`. Operations: `acquire` (refuse, take a permit, or wait under
  `asyncio.wait_for`), `GateLease.release`, `snapshot` (read by `/api/v1/ready` and the
  metrics). Hard: a permit is promised to a waiter in one step and counted in another, and
  between the two the timer may fire or newcomers arrive. Correct: no permit lost or made up,
  counters agree with tasks, no lost wakeup, service in order, every caller answered.
- **Rate limiter** -> `RateLimiter`. State: an ordered table of buckets (window start, count,
  last use) bounded by `max_keys`. Operation: `check`, which sweeps, evicts, opens windows and
  counts. Hard: three clocks, eviction, a Retry-After in whole seconds. Correct: a quota per
  window, only eviction forgets a running window, who waits as told is not refused again.
- **Single flight** -> `SingleFlight`. State: a table of `_Flight` objects (event, result, error)
  under a lock. Operation: `run`, on thread-pool threads. Hard: the owner stores, publishes and
  removes in three steps; waiters read a flight that already left the table; waits time out; the
  table may be full. Correct: sharing only among overlapping calls, one owner per key, no hollow
  or foreign answer, every call returns.
- **Operational middleware** -> `RequestPipeline`. State per request: what was sent, the lease,
  the recorded status. Operation: `__call__` (checks, gate, body buffering, application, error
  handlers). Hard: every `send`, `receive` and application step may raise, and the application reads
  its body through the middleware's own counting `receive`. Correct: the permit
  comes back, one response start, one record that never calls a broken response a success. **Request metrics** are inside it.

### Design runs

- **Plate run** (`service.py`, `repair.py`) -> `PlateRun` on `PlateRepair` and `MicronGrid`. State:
  the current contract, the drawing, its verification, the repair history. Hard: three variables
  replaced in turn by a loop, exceptions in the loop, two spellings of one path, ranges that are
  not whole microns, a validation after every write that may change more than was written.
  Correct: only the drawing verified last and passed is bundled, locks hold,
  repairs stay in range and are bounded in number.
- **Architecture run** (`architecture_service.py`) -> `ArchitectureRun`: one change per repair, a
  lock policy that stops repairs, a repair violation that may override the verdict.
- **Frame run** (`frame_service.py`) -> `FrameRun`: a numerical solver in the loop; a repaired
  contract that fails validation stays current while analysis is of the contract before.
- **What the three runs promise alike** -> `BoundedRepair` (abstract).
- **Repair endpoints** (`repair.py` through `/repairs/*` and MCP) -> `RepairSession`. The server keeps
  nothing; a client may apply a proposal late, twice or on an edited contract.

### Contracts, drawings and verifiers

All keep nothing. A client sends a contract (to validate, to draw, to run) or a contract and a
DXF file (to verify). Between drawing and verifying the file is out of the service's hands. Hard:
the writer and the verifier are two programs that must agree on layers, ids and representations;
entities can be moved, copied, deleted, renamed, retyped, put on another layer, or carry the hash of
another contract; a contract may be in inches. Correct: a pass is true of every entity in the file.

- **Plate contract, drawing, verifier** (`core.py`, `artifacts.py`, `verifier.py`, `service.py`)
  -> `PlateVerifier`: preflight, `validate_contract`, `generate_dxf`, `verify_dxf`.
- **Piping** (`piping_core.py`, `piping_artifacts.py`, `piping_service.py`, `piping_verifier.py`)
  -> `PipingVerifier`, also `run_piping_design`.
- **Architecture** (`architecture_core.py`, `architecture_artifacts.py`, `architecture_verifier.py`)
  -> `ArchitectureVerifier`.
- **Frame drawing and CAD assurance** (`frame_dxf.py`, `frame_cad_service.py`) -> `FrameDrawing`.
- **Rhino round trip** (`frame_rhino_adapter.py`, `frame_provenance.py`, `frame_roundtrip_service.py`)
  -> `RhinoExchange`: units, datum, merging of member ends, policy, bundle.
- **The file between them** -> `SerializedDrawing`.

### Services for files

- **Artifact audits and comparisons** (`artifact_service.py`) -> `ArtifactFlights` (their threads: a
  comparison is a flight whose operation calls `audit_artifact` twice, so one thread enters the
  bounded table again from inside) and `ArtifactEvidence` (their verdicts: completeness of a DXF
  reading, audits of DXF, STEP and IFC, what a comparison says).
- **Solid service** (`solid_service.py`, `cad_worker.py`) -> `ArtifactEvidence`: one worker writes a STEP
  file, another audits it, cylinders are matched to the contract's holes.
- **OpenBIM evidence** (`openbim_rules.py`, `ifc_evidence.py`, `openbim_worker.py`, `openbim_service.py`)
  -> `OpenBimEvidence`: IDS, integrity, revision and clearance rules, report, refusals.
- **Worker processes** (`cad_subprocess.py`) -> `EvidenceDesk`: every call of a worker may fail; the
  services go on, stop, or answer what their code says.

### Surfaces

- **HTTP API** (`api.py`), **MCP server** (`mcp_server.py`): stateless; their operations are the actions
  of the sessions above.
- **Readiness client** (`web/lib/api-client.ts`, `use-backend-readiness.ts`) -> `ReadinessPolling`.
- **Architecture and piping workspace** (`web/app/*-workspace.tsx`) -> `ArchitectureWorkspace`,
  `PipingWorkspace` on `EditHistory`. State: draft, undo and redo lists, a drag, the verification and
  its requests. Hard: answers arrive for designs that changed meanwhile. Correct: a pass is shown
  only for the design on the canvas, undo loses nothing.
- **Solver, research code, other workspaces, draft store, CAD integrations, tools**: section 8.

How they interact: a request enters the middleware, which charges the limiter and takes a permit of
the gate; the handler calls one service; audits and comparisons go through the single flight on pool
threads; design runs call validation, drawing, verifier and repair engine synchronously; files are
parsed in worker processes. The readiness client reads the gate's counters; workspaces send one POST
per verification and never retry it. `PROJECT.json` lists the hazards line by line ("hazards").

## 2. Modules

| Module | Kind | Models |
|---|---|---|
| `PermitPool` | abstract | a pool of permits with a queue |
| `HeavyGate` | component | the gate, implements `PermitPool` |
| `SingleFlight` | component | the table of flights |
| `RateLimiter` | component | quotas, sweep, eviction, Retry-After |
| `RequestPipeline` | composition | the middleware around `HeavyGate` (INSTANCE) |
| `ArtifactFlights` | composition | audits nested in comparisons, EXTENDS `SingleFlight` |
| `BoundedRepair` | abstract | judge, repair at most so often, pass or refuse |
| `MicronGrid`, `PlateRepair` | operators | rounding, search grid, propose, apply |
| `PlateRun`, `ArchitectureRun`, `FrameRun` | component | the runs, each implements `BoundedRepair` |
| `RepairSession` | component | a client of the repair endpoints |
| `SerializedDrawing` | operators | a DXF file and what another program may do to it |
| `PlateVerifier`, `PipingVerifier`, `ArchitectureVerifier`, `FrameDrawing` | operators | contract, validation, drawing and verifier of one kind of design |
| `RhinoExchange` | operators | the adapter and round trip, EXTENDS `FrameDrawing` |
| `DrawingExchange` | composition | a client, the drawing services and another CAD program |
| `ArtifactEvidence`, `OpenBimEvidence` | operators | verdicts on files, solids and models |
| `EvidenceDesk` | composition | a client, these services and their failing workers |
| `ServiceSessions` | composition | `RepairSession`, `DrawingExchange` and `EvidenceDesk` side by side |
| `EditHistory` | shared part | draft, undo and redo |
| `ArchitectureWorkspace`, `PipingWorkspace` | component | the workspaces over `EditHistory` |
| `ReadinessPolling` | component | the readiness poll and its hook |
| `OrderLemmas`, `*Proofs` | proofs | section 6 |
| `MC*` | model checking | small instances |

What the plan has left: model the draft store with expiry, upgrade and two tabs; the readiness poll
against the gate's counters; the pipeline in front of the flights (a permit held while a thread waits
in a flight).

## 3. How state and actions correspond to the code

The exact lines of every definition are in `PROJECT.json` ("map").

**HeavyGate.** Tasks run on one event loop, so one action is what a task does between two suspension
points. `active`, `waiting` are the gate's counters; `semValue`, `semWaiters`, `fut` are
`Semaphore._value`, `_waiters` and the futures in it (library code, modelled from CPython's class as
the gate uses it, marked external). `Park` and `Resume*` are the two halves of an `acquire` that
suspends. A future may be granted and then revoked by the timer: `ResumeTimedOut` gives it back.

**SingleFlight.** Threads preempt each other, so each access to shared data is an action; the lookup
and insertion are one because they hold the lock. `Slots` are `_Flight` objects: one may be used again
only when neither the table nor a local variable refers to it, as a garbage collector guarantees.

**RateLimiter.** Time is a counter of ticks, `TicksPerSecond` to a second, so that windows may begin
between whole seconds. `check` is one action (it holds a lock throughout), with its sweep and eviction;
history variables keep what the properties talk about.

**RequestPipeline.** Instantiates the gate over variables of the same names; each action is a step of
the request and at most one of the gate. What a request is like (method, size, quota, capability, weight)
is a choice made when it arrives, and `Refusal` gives the first check that refuses it. An exception of the
application is one of two: `_RequestBodyTooLarge` out of the body it reads, which the middleware answers with 413 or,
after a response start, only records and swallows (`operations.py:818-830`); and any other, which it answers with 500
or records and raises again.

**ArtifactFlights.** Each worker thread has two frames, the outer call of `run` and the one nested in
it, and `Threads` of `SingleFlight` is the set of these frames. The outer operation ends only when the
comparison could. Every step is therefore one of the flights by construction, and what is proved of these holds;
what the nesting itself could go wrong about is `NoCircularWait`: a comparison that waits for an audit while others
wait for it must not close a circle.

**BoundedRepair and the runs.** The design is a function from fields to values. Verification, validation
and solving may answer anything; for `FrameRun` the solver's answer is fixed when a section vector is first
validated, since the solver is deterministic. Values and ranges of plates and plans are counted in half
microns, the coarsest unit in which rounding to microns shows. Exceptions that nothing catches end in
status "raised".

**PlateRepair.** `set_numeric_path` writes one number and validates the contract again (`Written`, `Validated`,
`After`). That changes nothing but for a pattern's direction: `LinearPattern.validate_direction` makes it a unit
vector, so a component written is stored scaled, the other component changes with it, and a direction of length zero
is refused with an error of its own (`RaisesAt`). `Partner` pairs the fields that are components of one direction,
and `Component` scales on the model's grid; `Designs` are the contracts that validation leaves as they are.

**SerializedDrawing and the verifiers.** A file is its release, unit, layer table, entities in file order,
sealed record and whether there is content beside the model space. An entity has layer, form, points,
width and XDATA. Lengths are whole microns, shapes are boxes, distances are taken axis by axis, walls and
routes run along the axes, rooms are rectangles: what a verifier compares with its epsilon of one micron
stays visible, the geometry library does not. `Drawn*` is the writer, `Verify*` the verifier with its stages
in the order of the code: reading (what is skipped, what is a violation and what is kept), remeasuring, rules,
status. Ids of plates are sequences of the parts between double underscores, so that the id which
`expand_features` makes for a copy, `p__2`, may be that of a declared feature, as in the code. Where the code raises instead of answering (`Raises*`, `Unprojectable`), so does the model. A contract's
hash is the number of the first contract that is the same in millimetres.

**DrawingExchange.** The variables are the client's: the contract it holds, its drawing, the number of edits, the
last verdict. `Generate` is `generate_only`, `Verify` is `verify_only` (which does not ask whether the contract
is ready), `RunDesign` the piping run and the frame's CAD assurance, `RunRoundTrip` the Rhino round trip. `EditDrawing`
is the other program: it removes, copies, shifts, stretches or reshapes an entity, gives it the id of another,
takes its XDATA, moves it to another layer, or edits the header, the layer table, the sealed record or the paper space.

**ArtifactEvidence, OpenBimEvidence, EvidenceDesk.** A job lists its worker calls in the order the code makes them;
`WorkerReturns` and `WorkerFails` answer the next, `Respond` computes the answer from the replies that came,
`Ask` is the next request. What a CAD worker wrote need not be what the contract says.

**ServiceSessions.** The server keeps nothing between these requests, so sessions share no state and a behaviour
is that of one client with one service; one module checks them together.

**RepairSession.** The state is the client's: its contract, its policy and the proposals it kept. `SameHash`
compares contracts to a micron, as the hash of the canonical contract does.

**Workspaces.** One event handler is one action. A request carries whether it has the current generation
instead of the number. `ReadinessPolling` counts whole seconds since the poll began; jitter is rounded.

## 4. Runs

| Run | Bounds | What it shows |
|---|---|---|
| `gate` | 4 tasks, 2 permits, 1 waiter | counters honest, no lost wakeup, no overtaking, `PermitPool` implemented, every caller answered though operations need not end |
| `artifact_flights` | 2 workers, 2 files, 3 requests, 2 flights | nothing cached, no hollow answer, no circular wait, no comparison without both audits, every request answered though no wait need time out |
| `limiter` | 3 keys, 2 buckets, 3.5 seconds by halves | the quota of every window, Retry-After kept, only eviction forgets |
| `pipeline` | 3 requests, 1 permit, 1 waiter | the gate is used as specified and given back; the record is what was sent, or an error where the response broke off |
| `frame_run` | 2 members, 3 parameters on 2 free properties, 3 repairs | a pass is of solved sections, repairs are declared and unlocked, `BoundedRepair` implemented |
| `plate_run` | a coordinate with 2 spellings and the 2 components of a direction, 3 repairs | only the verified drawing is bundled, ranges hold, `BoundedRepair` implemented |
| `architecture_run` | 2 paths, 3 repairs | a passed verdict stands, `BoundedRepair` implemented |
| `architecture_workspace` | 3 designs, history of 2 | a pass is shown for the design on the canvas only; undo loses nothing |
| `piping_stale` (violation) | 3 designs, history of 2 | a pass of another design is shown |
| `readiness_polling` | 70 s, 6 s per request, 2 retries | Retry-After kept, newest poll shown, polls end |
| `service_sessions` | a coordinate and a direction by 2 paths, 1 kept proposal; 6 plates and pipings, 4 plans and frames, 86 exchanges, 1 or 2 edits; 20 files to compare, 4 parts with 9 STEP files, 4 baselines by 95 candidates | see below |
| `openbim_duplicates` (violation) | baselines with a GlobalId twice | an asset whose identity is in doubt passes |

`service_sessions` asks of each session what its answers are worth:

- Repairs (`AppliedAsSeen`, `NeverAppliedTwice`): stale and repeated proposals are rejected. Both except the components of
  a direction, of which more would be false of the code (section 7): the first where the other component was written
  before, the second where a proposal changes nothing else.
- Drawings (`PassedPlateConforms`, `PassedPipingConforms`, `PassedPlanConforms`, `PassedFrameDrawingConforms`):
  after any edit, a drawing that passed conforms to the contract. Conformity is stated of the entities
  of the file, not of what the verifier keeps, so a verifier that looks away (skips a layer, takes the first
  of two entities, forgets what is missing) breaks it. Of plans, openings no wider than a micron and clearances
  of columns no greater are left out: the verifier never sees them overlap. `OwnDrawingIsReadable`: the verifier
  can read what the service itself drew of a ready contract exactly if no id that the writer makes, of the metadata
  of a piping or of a copy in a plate's pattern, is one the contract declares (`DrawnApart`); where one is, the contract is
  ready and its drawing never passes (section 7). `PassedPipingConforms` leaves out a piping that has something by
  the id of the metadata (`MetadataApart`). `RoundTripKeepsGeometry`: what a round trip releases is the exchange, member for member,
  with its ends where they were and joined exactly where they were near.
- Files (`ComparisonIsOfWholeFiles`): two drawings are called the same only if both were read whole and
  are the same; an audited comparison of models leaves out no product that came, went or changed.
- Models (`PassedModelConforms`): what a passed report promises, stated of both models. Things no thicker than the
  tolerance, and depths no greater, are left out: they never overlap.
- Solids (`PassedSolidHasEveryHole`): every hole of the contract is another cylinder of the file.

**Why the bounds are enough.** The gate's races need a holder, a task granted but not run, a task behind
it in line and a newcomer: four tasks; with two permits a second permit is freed while the first is
promised. Two workers make four frames: an owner, a waiter and a nested call of each; with two flights the
table fills up and calls run alone. TLC sees one wait for another there; a chain of two waits takes three workers, for which
`NoCircularWait` is a theorem. The limiter has one bucket fewer than keys, so eviction happens, and a horizon
of almost two windows. The pipeline has a holder, a waiter and a third request for the full queue. Frames have
two parameters on one path with different ranges, a coarse step and a locked member; three repairs is the code's
own bound. Plates have two spellings of one coordinate, ranges that start between microns, and a direction on a
grid of four steps to the unit, on which one component scales the other. A history of two
overflows after three edits. Polling has the code's own times. Each family of drawings has a contract in
millimetres, the same in inches (so that hashes must agree), and ones that are infeasible or lack something; a
second edit is allowed to plates, where a copied entity has to be moved onto free ground or deleted afterwards to
be of interest. The exchanges turn, scale and shift the ends of two members through all distances around the
tolerance and all fractions of the micron. Budgets of the analysis are as small as tells them apart. Model pairs vary
one thing at a time, with every distance of an obstacle around the envelope's depth.

A run is not modelled beyond its end, so the runs of finite processes (design runs, limiter horizon, polling)
do not check for deadlock; all others do. The tasks of `pipeline` are
interchangeable and its properties are safety only, so it uses symmetry.

## 5. Fairness

- `gate` (`LoopSpec`): the event loop runs ready tasks and fires timers; operations need not end. `wait_for`
  bounds every wait, and the event loop is asyncio's.
- `artifact_flights` (`FairArtifactSpec`): worker threads are scheduled and operations end (a parser runs in a
  worker process with a time-out); waits need not time out, so no answer depends on `wait_timeout_seconds`.
- `readiness_polling` (`FairPollSpec`): time passes and timers fire; the server need not answer.
- All other runs check safety only, without fairness.

## 6. Proofs

Each theorem module EXTENDS its component and proves `Spec => []IInv` for an inductive invariant, then the
listed properties from it.

- **HeavyGateProofs.** Assumes a finite set of tasks and positive limits. `IInv` joins the type invariant, the
  line (`LineIsParked`), conservation, the counters and `NoLostWakeup`: conservation alone is not inductive,
  because how many futures `_wake_up_next` completes depends on who is in line; the lemmas say what a removal,
  an append and a grant do. From it: types, conservation, counters, no lost wakeup, that nobody
  overtakes (`GrantedFirst`: who is granted a permit was in line before all who wait), and that the gate implements
  `PermitPool` (at most `Limit` holders, whatever the counters say).
- **ArtifactServiceProofs.** Of the flights, `IInv` adds which flight an owner, a waiter and the table may refer to in each phase,
  and that an outcome is set before its event. Of audits and comparisons (`ArtifactFlights`), `ArtifactInv` adds
  that a worker's nested call is under way only while its comparison executes, with the key of the file whose turn
  it is (`AuditsInOrder`). Each step of a worker is a step of one of its two frames, so what is proved of the
  flights holds of audits and comparisons. `NoCircularWaitHolds` follows the waits: who waits for a flight waits for
  its owner; an owner of an audit's flight has nothing nested to wait for; so only the owner of a comparison's flight is
  held up itself, by its audit, and that wait is the last.
  Of the files they are about, the module proves what an answer is worth. `DeskInv` says that an answer is the one
  which the replies make to what was asked, that a part is one its CAD
  worker may have written, and a report one the OpenBIM worker may have made. The rest is about
  the operators. Each call of a comparison is made once (`CallsApart`), so a reply that is not empty means that this
  call was answered and not another one. A drawing that is complete kept every entity it has (`CompleteFile`), so two
  of the same fingerprints are the same and not only as far as they were read (`SameIsWhole`). A list of changes
  that is not full was not cut (`ListedOrFull`: the rank of the first one cut is the length of the list). The
  cylinders taken grow from hole to hole (`TakenStep`, `TakenGrows`), so the holes found are different cylinders
  (`HolesAreApart`). That the recursive function behind them has a value at all is shown by its least failing argument,
  which takes the place of induction. Of building models, a report passed only if no rule found anything and none
  left its status open (`NothingFound`); an asset is compared if its identity is in doubt in neither model, which of
  the baseline's keys only the status `AMBIGUOUS` says (`NoKeyInDoubt`, `AssetsCompared`); and boxes that do not
  overlap are apart along some axis or one of them is thin (`ApartOrThin`), wherefrom the room before each side
  (`EnvelopeIsBeside`). These theorems are of `DeskSpec`, the part of `ServicesSpec` that a client of
  these services takes.
- **RequestPipelineProofs.** Every step of the pipeline is a step or a stutter of the gate, so
  `PipelineImplementsGate` imports the gate's theorems. The pipeline's own invariant relates the phase of a
  request to what was sent and to the gate; `RecordsAreTruthful` follows it through both error handlers, of the body and of
  everything else, before and after a response start. The module also holds the proofs of the other check the middleware
  makes, the limiter. `LimiterInv` says that the table is in the order of last use (`TableInOrder`), which makes its
  first key the least recently seen; that the requests of a key let through within the last window's length are fewer than
  its limit and its bucket's count together, those since the bucket's window began among the counted (`GrantsCounted`);
  and that no promise ends
  before the window it was made in (`PromisesLate`, where rounding up to whole seconds is used). Keeping the order
  through a sweep needs what a filter does to a list; `Only` is a recursive function, proved about by
  **OrderLemmas**' `Selects`.
- **FrameRunProofs.** `IInv` counts proposals and repairs by stage, ties `analysed` to the sections, and keeps
  locks and ranges. From it: no false pass, locks, ranges, growth, and that the run implements `BoundedRepair`.
- **PlateRunProofs.** The heart of `IInv` is `Verification`: at a repair and at the verdict the last verification
  is of the contract as it stands. Bundles follow from it. A repair of a direction may leave the contract as it was;
  that a second drawing is a judgement in the sense of `BoundedRepair` all the same follows from `Counts`, since between a
  repair and the next drawing the loop counts a repair more than it has judged. What a proposal makes of a contract is a
  recursive function; **OrderLemmas** gives that it has a value and how to count up along it (`IteratedExists`,
  `CountingUp`). From this: every stage is a contract (`AfterIs`), a field is as the last change that names it
  wrote it (`WrittenValue`) unless it is a component of a direction, and it keeps its value as long as no change names it
  or its partner (`UntouchedValue`). The ends of the search grid are shown to lie in the declared
  range for every range and step. The repair session needs the same lemmas of the same operators, and states them again.
- **ArchitectureRunProofs.** `Verification` as for plates, and `Refusals`: a refusal ends the loop, and none stands
  beside a passed verification, which keeps a passed verdict from being overridden. The history is followed path
  by path: a move appended links to the last move of its path and leaves all other paths alone. The module goes on
  with the workspace that starts these runs. `HistoryInv` bounds the undo and redo lists *together*: each handler cuts
  its own list to the limit, and only because their sum never exceeds it does an undo or redo cut nothing.
  `CurrentIsOfDraft` says that a request with the current generation is of the design on the canvas, so its answer is.
  Of the readiness poll, `SleepLongEnough` carries the server's Retry-After from the failed attempt over the sleep to
  the next one.
- **ServiceSessionsProofs.** Every session has an invariant of its own. `RepairInv` keeps what a client knows of
  proposals; a proposal accepted changed no value that somebody else had changed, because the first change of a
  field is compared with the contract itself (`AcceptedAsSeen`), and with a field that is no component of a direction
  it makes a contract it does not fit (`AppliedDiffers`).
  `ExchangeInv` says that a pass on show is the verifier's answer on the contract and drawing held. It is not
  enough: that a drawing is *what the verifier takes it for* depends on how it came about. `DrawnInv` adds that
  each entity goes back to one that the service drew from one of the contracts when it was ready (`Traced`): edits
  move, copy, delete, reshape and rename entities, and they lose XDATA, but they do not forge the hash. So a pass,
  which needs an entity with the right hash, is of a drawing of a contract that is the same in millimetres
  (`HashTellsApart`), and what the verifier need not measure (width, number of points, type) is known from there.
  The rest is about the operators: of plates, that each entity of the file is the outline or the only one of its
  feature or copy, with the kind of shape, place and size the dimensions allow (`PlateFaultless`, `PlateMeasured`),
  and that the walk round the cuts finds every pair that is too close (`CutsKeepApart`); of pipings, that entities and
  expected ids are in one-to-one correspondence (`PipingRead`, `PipingComplete`), that where no two neighbouring stops
  are far apart the next one is near from everywhere on the pipe (`NextIsNear`), and that there is a bound at all: a
  contract without one is not ready, and so has no drawing (`ReadyBoundsSpacing`); of frames, that as many
  entities as items, each of an item and none of an item twice, are one for each (a pigeonhole over `Cardinality`,
  which takes the place of the induction over the file); of plans, that entities and expected objects are in one-to-one
  correspondence although a wall is drawn as two (`PlanListed`, `PlanRead`, `WholePlan`), that the strip of a wall that
  passed lies around its centreline and its openings inside it, and that the offset, clear width and gaps
  measured on the file are those the rules compare. What the services drew themselves comes last: each entity of
  `Drawn` is one the reader takes without a fault (`OwnPlateEntities`, `OwnPiping`, `OwnPlan`, `OwnFrameEntities`), no
  id is drawn twice, because the parts of a contract have different ids (`ListedSingle`) and the ids the writer makes are
  apart from them, and what is expected is what
  is written (`ExpectedIsWritten`), so no reading code is among the violations (`OwnDrawingIsReadableHolds`; no
  later stage of a verifier uses one). Conversely, an id that is drawn twice is reported (`OwnPlateIsReadable`,
  `RepeatedPipingIsRejected`). A round trip is proved from the order in which
  it merges the ends of members: an end keeps the first near end before it.

The only assumptions are those the modules declare about their constants (`ASSUME`), which TLC evaluates in the
runs. `ExchangeAssumption` asks that contracts are what their schemas admit: `PlateContract`, `PipingContract`, `PlanContract`,
`FrameContract` and `FrameExchange` say of each that it has finitely many entities, that its lengths are whole numbers,
that a feature of a plate is a circle or a closed outline, that declared ids differ, that a pattern repeats something of the
plate, that the ids of a piping and of a plan are distinct and refer to what they have, that pipes have a
width and the lines of walls and grids a length; and that an inch is at least a unit. `DirectionAssumption` asks of the grid on which directions are scaled what floats
give: a unit vector is not zero and is its own unit vector. `DeskAssumption` asks that a file is a list
of entities or of roots with numbered GlobalIds, that cylinders have a diameter and a centre, and
that the boxes of a model have the same two or three axes.
Nothing is assumed about verifiers, solvers or clients, whose answers are choices in the specifications.

Model-checked only:

- The liveness properties (`EveryCallerAnswered`, `EveryRequestAnswered`, `PollEnds`): liveness under fairness,
  and `ENABLED`, are beyond the prover.
- What a fold over a file computes for every input would be an induction over data, which the installed provers
  cannot instantiate; no listed property needs it beyond the least-argument and counting lemmas above.

No module declares a RECURSIVE operator, which would cost its theorems the SMT backend: histories and proposals are
read through the positions of their entries.

Proved and not run: the types of the gate, the flights and the three runs, one owner per flight, that locked
members and values stay, that repairs only enlarge sections and that no waiter is orphaned (parts of the inductive
invariants).

## 7. Where code and documents disagree

- `piping_stale`: the piping workspace has no request generation, as the architecture workspace has; an answer for
  the design before an edit is shown as the pass of the edited one and its bundle can be downloaded.
- `openbim_duplicates`: the development plan says that the revision comparison of an object with a duplicate
  identity is `ambiguous`. `openbim_rules.py:525-532` leaves an asset out whose GlobalId is duplicated or empty
  in either model, but `ambiguous` (606) looks at the candidate's identity and at duplicate keys only: with the
  duplicate in the baseline alone, REV-02 and REV-03 are PASSED and the asset was never compared.

Observed while modelling, without a run of their own:

- `operations.py:265`: docs/deployment.md:40 bounds the waiters to 4. The test is `active >= limit and waiting >=
  max_waiters`; between a release and the step of the waiter it woke `_active` is below the limit, and newcomers pass
  the test however long the line is. `CountersHonest` and `PermitPool` show that this costs queue length only.
- `architecture_verifier.py:765-846` looks at the declared constraints. A required alignment, orthogonal or
  minimum_clearance is a type that `architecture_models.py:124-126` admits and nothing judges, where docs/TRD.md:353
  allows `passed` only without a violation of what is required. `PassedPlanConforms` promises nothing of them.
- `architecture_verifier.py:671-674`: two openings of which one is no wider than a micron never overlap; 800-817:
  `columns_clear_of_openings` with its default `minimum_clearance` of 0 (or up to a micron) is never violated, even by a
  column that stands in an opening.
- `core.py:235,250` name the copies of a pattern `p` by `p__2`, `p__3` and so on. The schema keeps declared ids apart
  (`models.py:213-221`) but not from these: a feature or an outline called `p__2` beside `p` is ready, since
  `geometry_map` keeps one shape of an id, and its drawing has the id twice and fails with DG_DXF_ID_DUPLICATE.
- A change of one component of a direction may change nothing: (1, 0) with 0.5 written to the first component is
  (1, 0) again after `models.py:113-119`. `apply_repair` (`repair.py:159-185`) then returns the contract it was given,
  with the same hash and the same value before, and accepts the same proposal again; with several changes, the value
  before of a later one is compared with what validation made of the earlier ones. A change that leaves a direction
  without length raises a validation error out of `apply_repair` instead of a rejection.
- `operations.py:818-830`: an application that reads more than the limit after it started its response ends with 413 in the
  metrics; what was started (200, say) is what the client got, nothing more is sent and nothing is raised.
- `piping_verifier.py:99` gives the id "piping-metadata" to the metadata, whatever else has it; the schema
  keeps no feature or note from that id. The drawing of such a piping has the id twice and fails, but once the
  feature's own entity is removed from the file it may pass without the feature.
- `piping_verifier.py:366-371` reads the first constraint of a type, whether required or not.
- `solid_service.py:139-150` records a cylinder that is missing with diameter 0.0, so a hole no larger than the
  tolerance passes without being there; extra cylinders, depths and thicknesses are not measured.
- The plate verifier has no list of what it expects: a hole that nothing dimensions may be removed from the file and
  the rest passes. Violations are made unique by code and entities (`verifier.py:579-587`), so of two such violations
  only the first one's repairability counts.
- `ifc_evidence.py:228`: an obstacle that is flat in some direction (no thicker than `clearance_epsilon_m`, which may be
  0) overlaps nothing, so a sheet through the whole service zone of a tool is not reported.
- `openbim_rules.py:457`: an entity that was no product of the profile before the revision has no asset key there, so
  what was a proxy and became a tool under the same key is not compared.
- A drawing may make a verifier raise instead of answering: a pattern whose source was not read
  (`verifier.py:485-499`), a node or item on an equipment or pipe layer, which has no point (`piping_verifier.py:356`), or
  a segment on the component layer, which has no diameter (665), a projection of an entity
  that is no polygon (`architecture_verifier.py:528`).
- `frame_service.py:747` records a fourth proposal that line 749 never applies, so an exhausted run reports four
  repair proposals, where `max_iterations` says three.
- `service.py:524-538` applies repairs and generates again outside the `try` of the first generation, so a schema or
  geometry error there leaves the run without the verdict that PRD.md describes (status "raised").
- `architecture-workspace.tsx:438` and `:450` invalidate the running request before they look at the history, so undo
  with nothing to undo drops the awaited answer.
- `api-client.ts:242` polls for 70 seconds, where TRD.md and the demo script say 45.

## 8. Not modelled, and why

- Numerical analysis (`frame_solver.py`, `frame_opensees.py`): floating-point linear algebra, out of TLC's reach.
  `FrameRun` lets it answer anything, so what is shown of the run does not depend on it.
- True geometry: diagonal walls and routes, circles as circles, areas of rooms, meshes. The verifiers' comparisons
  are modelled on boxes and axes. A check that tells only curved or slanted shapes apart is left out.
- Parsers and kernels (ezdxf, IfcOpenShell, IfcTester, CadQuery): external; what they answer is an input.
- Previews, reports, BCF topics but for their limit, archives but for what is released, wording, logging, metrics.
- Plates: centre marks, the axis value of an alignment, what `draft_contract` asks, `compare_contracts` (a pure
  difference). Architecture: the superseded reader (`architecture_verifier.py:99-252`) and
  `_run_architecture_design_legacy`, which nothing calls, and the repair endpoints (the policy is the run's).
- `cad_subprocess.py`: its size limits, environment and process group are one event, a failed call.
- `api.py`, `mcp_server.py`: decoding of uploads, files of the MCP tools, the mapping of errors to codes.
- Draft store: planned. Plate form, frame, solid, OpenBIM and artifact pages: forms with one request and one result.
- Surrogate research, experiment tools, CAD integrations: no part of a verdict.
- In modelled parts: `BaseException` inside a flight, cancellation of a request task at shutdown.
