-------------------------- MODULE ArtifactFlights ---------------------------
(***************************************************************************)
(* artifact_service.py on top of BoundedSingleFlight: an audit is one      *)
(* flight, a comparison is a flight whose operation calls the audit of its *)
(* two files, and so enters the same bounded table again from inside.      *)
(***************************************************************************)
EXTENDS SingleFlight, Sequences, Functions

CONSTANTS Workers,  \* threads of the pool that serve audit and compare requests
          Requests  \* the files of an audit, <<f>>, or of a comparison, <<f, g>>,
                    \* told apart by suffix and SHA-256

\* Mutant of FlightKey: the key names the files, however often and in which operation.
FlightKeyOfFiles(r) ==
    IF Range(r) = {r[1]} THEN <<"audit", r[1]>> ELSE <<"compare", r[1], r[2]>>

\* flight_key: the operation and the hashes, in order.
FlightKey(r) == IF Len(r) = 1 THEN <<"audit", r[1]>> ELSE <<"compare", r[1], r[2]>>

\* A comparison runs in two nested calls of run() on one thread.
Outer(w) == <<w, "request">>
Inner(w) == <<w, "audit">>

ASSUME ArtifactAssumption ==
    /\ Threads = Workers \X {"request", "audit"}
    /\ \A r \in Requests : Len(r) \in {1, 2} /\ DOMAIN r = 1..Len(r)
    /\ Keys = {FlightKey(r) : r \in Requests}
                 \cup UNION {{FlightKey(<<f>>) : f \in Range(r)} : r \in Requests}

VARIABLES request, \* what the worker's outer call was asked for
          audits   \* how the audits of the worker's running comparison ended

artifactVars == <<flightVars, request, audits>>

ArtifactInit ==
        /\ Init
        /\ request \in [Workers -> Requests] /\ \A w, v \in Workers : request[w] = request[v]
        /\ audits = [w \in Workers |-> <<>>]

Run(t, k) == BecomeOwner(t, k) \/ Join(t, k) \/ RunAlone(t, k)

Executing(w) == pc[Outer(w)] \in {"owner", "solo"}
Comparing(w) == Executing(w) /\ Len(request[w]) = 2

\* An HTTP request reaches audit_artifact or compare_artifacts on a worker.
Receive(w, r) ==
    /\ Run(Outer(w), FlightKey(r))
    /\ request' = [request EXCEPT ![w] = r]
    /\ UNCHANGED audits

\* _compare_artifacts_uncached audits the baseline, then the candidate.
Audit(w) ==
    /\ Comparing(w)
    /\ pc[Inner(w)] = "idle"
    /\ Len(audits[w]) < 2
    /\ "error" \notin Range(audits[w])
    /\ Run(Inner(w), FlightKey(<<request[w][Len(audits[w]) + 1]>>))
    /\ UNCHANGED <<request, audits>>

\* Mutant of AuditReturns: what the audit raised is taken for its result.
AuditReturnsAnything(w) ==
    /\ \/ Pop(Inner(w)) \/ WaiterReturns(Inner(w))
       \/ \E o \in Outcomes : SoloEnds(Inner(w), o)
    /\ audits' = [audits EXCEPT ![w] = Append(@, "value")]
    /\ UNCHANGED request

\* The nested audit returns to the comparison or raises in it.
AuditReturns(w) ==
    /\ \/ Pop(Inner(w)) \/ WaiterReturns(Inner(w))
       \/ \E o \in Outcomes : SoloEnds(Inner(w), o)
    /\ audits' = [audits EXCEPT ![w] = Append(@, answer'[Inner(w)])]
    /\ UNCHANGED request

\* When the operation of the outer call may be over: an audit when it likes, a
\* comparison after its second audit or with the error an audit raised.
Over(w, o) ==
    \/ Len(request[w]) = 1
    \/ /\ pc[Inner(w)] = "idle"
       /\ IF "error" \in Range(audits[w]) THEN o = "error" ELSE Len(audits[w]) = 2

\* The operation returns or raises in the outer call of run().
End(w, o) ==
    /\ Executing(w) /\ Over(w, o)
    /\ OperationEnds(Outer(w), o) \/ SoloEnds(Outer(w), o)
    /\ audits' = [audits EXCEPT ![w] = <<>>]
    /\ UNCHANGED request

\* Steps of run() in which the operation has no part.
Bookkeeping(w) ==
    /\ \/ Publish(Outer(w)) \/ Pop(Outer(w)) \/ WaiterReturns(Outer(w))
       \/ Publish(Inner(w)) \/ \E o \in Outcomes : OperationEnds(Inner(w), o)
    /\ UNCHANGED <<request, audits>>

WorkerTimesOut(w) ==
    /\ WaitTimesOut(Outer(w)) \/ WaitTimesOut(Inner(w))
    /\ UNCHANGED <<request, audits>>

ServeWorker(w) == Audit(w) \/ AuditReturns(w) \/ Bookkeeping(w)
                  \/ \E o \in Outcomes : End(w, o)

ArtifactNext == \E w \in Workers :
            (\E r \in Requests : Receive(w, r)) \/ ServeWorker(w) \/ WorkerTimesOut(w)

ArtifactSpec == ArtifactInit /\ [][ArtifactNext]_artifactVars

\* Workers are scheduled and parsers end; no wait need time out.
FairArtifactSpec == ArtifactSpec /\ \A w \in Workers : WF_artifactVars(ServeWorker(w))
-----------------------------------------------------------------------------
(* Properties *)

\* Who waits for an outcome that is not published yet, and who has it to publish.
Blocked(t) == pc[t] = "waiting" /\ ~event[cur[t]]
HeldUp(w) == Blocked(Outer(w)) \/ Blocked(Inner(w))
HeldUpBy(w, v) ==
    \E t \in {Outer(w), Inner(w)}, u \in {Outer(v), Inner(v)} :
        Blocked(t) /\ pc[u] \in {"owner", "publish"} /\ cur[u] = cur[t]

\* No circle of requests that wait for each other, although a comparison waits for
\* audits while others wait for it: a request that is held up is held up by one that
\* is at work, or by a comparison whose audit is held up by one that is.
NoCircularWait ==
    \A w \in Workers : HeldUp(w) =>
        \E v \in Workers :
            /\ HeldUpBy(w, v)
            /\ HeldUp(v) => Comparing(v) /\ \E x \in Workers : HeldUpBy(v, x) /\ ~HeldUp(x)

\* A comparison ends with a value only if its last audit did, and that was
\* the candidate's: an audit that failed, in this request or in the flight of
\* another one, never becomes a comparison.
ComparedWhatWasRead ==
    [][\A w \in Workers :
          LET compared == IF pc[Outer(w)] = "owner" THEN outcome'[cur[Outer(w)]]
                                                    ELSE answer'[Outer(w)]
          IN  Comparing(w) /\ ~Executing(w)' /\ compared = "value" =>
                 answer[Inner(w)] = "value" /\ key[Inner(w)] = FlightKey(<<request[w][2]>>)]_artifactVars

\* Every audit and every comparison is answered without a wait timing out.
EveryRequestAnswered == \A w \in Workers : pc[Outer(w)] # "idle" ~> pc[Outer(w)] = "idle"
=============================================================================
