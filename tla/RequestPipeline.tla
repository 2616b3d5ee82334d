-------------------------- MODULE RequestPipeline ---------------------------
(***************************************************************************)
(* OperationalMiddleware.__call__ of operations.py around the heavy gate:  *)
(* every request passes the size, rate, key and capability checks, waits   *)
(* for a permit if it is heavy, has its body buffered if it declared no    *)
(* length, and reaches the application.  Any send, receive or application  *)
(* step may raise, and the handlers and the finally clause must still      *)
(* answer once, release the permit and write one record per request.       *)
(* What a task does between two awaits is one step.                        *)
(***************************************************************************)
EXTENDS Integers, Sequences, FiniteSets

CONSTANTS Tasks, Limit, MaxWaiters   \* as in HeavyGate

ASSUME PipelineAssumption ==
    /\ IsFiniteSet(Tasks)
    /\ Limit \in Nat \ {0}
    /\ MaxWaiters \in Nat \ {0}

VARIABLES active, waiting, semValue, semWaiters, fut, pc,  \* the gate
          stage,    \* where the request is in __call__
          chunked,  \* the request declared no length, so its body is buffered
          reply,    \* the status of the _respond() under way
          sent,     \* the statuses of the response starts given to send()
          broken,   \* an exception ended the request after its response start
          recorded  \* the statuses _record() was called with for the request

gateVars == <<active, waiting, semValue, semWaiters, fut, pc>>
requestVars == <<stage, chunked, reply, sent, broken, recorded>>
pipelineVars == <<gateVars, requestVars>>

Gate == INSTANCE HeavyGate

Stages == {"idle", "gate", "body", "app", "streaming", "reply", "replying",
           "rescue", "rescuing"}
Statuses == {200, 401, 413, 422, 429, 500, 503}

Init ==
    /\ Gate!Init
    /\ stage = [t \in Tasks |-> "idle"]
    /\ chunked = [t \in Tasks |-> FALSE]
    /\ reply = [t \in Tasks |-> 0]
    /\ sent = [t \in Tasks |-> <<>>]
    /\ broken = [t \in Tasks |-> FALSE]
    /\ recorded = [t \in Tasks |-> <<>>]
-----------------------------------------------------------------------------
(* Helpers *)

\* A request as the checks see it; overQuota: a POST that the limiter refuses.
Requests ==
    [tooLong : BOOLEAN, chunked : BOOLEAN, overQuota : BOOLEAN,
     badKey : BOOLEAN, disabled : BOOLEAN, heavy : BOOLEAN]

\* The status of the first check that refuses the request, 0 if none does.  A
\* wrong key is charged to the limiter before it is refused.
Refusal(r) ==
    CASE r.tooLong /\ ~r.chunked -> 413
      [] r.overQuota             -> 429
      [] r.badKey                -> 401
      [] r.disabled              -> 503
      [] OTHER                   -> 0

\* The request object is new: a task keeps nothing of the request before.
Begin(t, buffered) ==
    /\ chunked' = [chunked EXCEPT ![t] = buffered]
    /\ sent' = [sent EXCEPT ![t] = <<>>]
    /\ broken' = [broken EXCEPT ![t] = FALSE]
    /\ recorded' = [recorded EXCEPT ![t] = <<>>]

\* After the permit: buffer the body, or call the application.
AfterGate(buffered) == IF buffered THEN "body" ELSE "app"

\* Mutant of LeaveGate: the lease is not released when an exception is raised on.
LeaveGateIfClean(t) ==
    \/ ~broken'[t] /\ Gate!Release(t)
    \/ Gate!AnswerBusy(t)
    \/ (pc[t] \notin {"holding", "refused"} \/ broken'[t]) /\ UNCHANGED gateVars

\* Mutant of LeaveGate: release() is called without asking for a lease.
LeaveGateUnchecked(t) ==
    \/ Gate!Release(t)
    \/ /\ pc[t] = "refused"
       /\ active' = IF active > 0 THEN active - 1 ELSE 0
       /\ Gate!GrantPermits(semValue + 1, 1, fut)
       /\ pc' = [pc EXCEPT ![t] = "idle"]
       /\ UNCHANGED <<waiting, semWaiters>>
    \/ pc[t] \notin {"holding", "refused"} /\ UNCHANGED gateVars

\* finally: lease.release() if there is a lease.
LeaveGate(t) ==
    \/ Gate!Release(t)
    \/ Gate!AnswerBusy(t)
    \/ pc[t] \notin {"holding", "refused"} /\ UNCHANGED gateVars

\* Mutant of Record: the status of the application's response is not noted.
RecordReply(t, status) ==
    recorded' = [recorded EXCEPT ![t] = Append(@, IF reply[t] # 0 THEN reply[t] ELSE 500)]

\* A 429 is recorded after its _respond(), any other status in the finally.
Record(t, status) == recorded' = [recorded EXCEPT ![t] = Append(@, status)]

\* The request ends: permit, record, and the task is free.
Finish(t, status) ==
    /\ LeaveGate(t)
    /\ Record(t, status)
    /\ stage' = [stage EXCEPT ![t] = "idle"]
    /\ reply' = [reply EXCEPT ![t] = 0]

StartReply(t, where, status) ==
    /\ stage' = [stage EXCEPT ![t] = where]
    /\ reply' = [reply EXCEPT ![t] = status]
-----------------------------------------------------------------------------
(* The checks and the gate *)

\* A check refuses the request; _respond() begins.
Refuse(t) ==
    /\ stage[t] = "idle"
    /\ \E r \in Requests :
        /\ Refusal(r) # 0
        /\ Begin(t, r.chunked)
        /\ StartReply(t, "reply", Refusal(r))
    /\ UNCHANGED gateVars

\* A light request passes the checks.
AdmitLight(t) ==
    /\ stage[t] = "idle"
    /\ \E r \in Requests :
        /\ Refusal(r) = 0 /\ ~r.heavy
        /\ Begin(t, r.chunked)
        /\ stage' = [stage EXCEPT ![t] = AfterGate(r.chunked)]
    /\ UNCHANGED <<gateVars, reply>>

\* A heavy request passes the checks and calls gate.acquire().
AdmitHeavy(t) ==
    /\ stage[t] = "idle"
    /\ \E r \in Requests :
        /\ Refusal(r) = 0 /\ r.heavy
        /\ Begin(t, r.chunked)
        /\ \/ Gate!AcquireAtOnce(t) /\ stage' = [stage EXCEPT ![t] = AfterGate(r.chunked)]
                                    /\ UNCHANGED reply
           \/ Gate!Park(t) /\ stage' = [stage EXCEPT ![t] = "gate"] /\ UNCHANGED reply
           \/ Gate!AcquireRefused(t) /\ StartReply(t, "reply", 503)

\* acquire() returns with a lease.
PermitComes(t) ==
    /\ stage[t] = "gate"
    /\ Gate!ResumeGranted(t)
    /\ stage' = [stage EXCEPT ![t] = AfterGate(chunked[t])]
    /\ UNCHANGED <<chunked, reply, sent, broken, recorded>>

\* acquire() returns None after the timeout.
PermitTimesOut(t) ==
    /\ stage[t] = "gate"
    /\ Gate!ResumeTimedOut(t)
    /\ StartReply(t, "reply", 503)
    /\ UNCHANGED <<chunked, sent, broken, recorded>>

TimerFires(t) == Gate!TimerFires(t) /\ UNCHANGED requestVars
-----------------------------------------------------------------------------
(* The body and the application *)

\* The last message of a body within the limit, or a disconnect, was buffered.
BodyComplete(t) ==
    /\ stage[t] = "body"
    /\ stage' = [stage EXCEPT ![t] = "app"]
    /\ UNCHANGED <<gateVars, chunked, reply, sent, broken, recorded>>

\* limited_receive raises _RequestBodyTooLarge, or receive() raises: nothing was
\* sent yet, so the handler responds.
BodyFails(t) ==
    /\ stage[t] = "body"
    /\ \E status \in {413, 500} : StartReply(t, "rescue", status)
    /\ UNCHANGED <<gateVars, chunked, sent, broken, recorded>>

\* The application starts its response.
AppStarts(t) ==
    /\ stage[t] = "app"
    /\ \E status \in {200, 422, 503} : sent' = [sent EXCEPT ![t] = Append(@, status)]
    /\ stage' = [stage EXCEPT ![t] = "streaming"]
    /\ UNCHANGED <<gateVars, chunked, reply, broken, recorded>>

\* The application returns after its response.
AppEnds(t) ==
    /\ stage[t] = "streaming"
    /\ UNCHANGED <<chunked, sent, broken>>
    /\ Finish(t, sent[t][Len(sent[t])])

\* What ends the application: an error of its own, or _RequestBodyTooLarge from
\* limited_receive, through which it reads a body that was not buffered.
Failures(t) == {500} \cup (IF chunked[t] THEN {} ELSE {413})

\* The application raises before it started a response: the handler responds.
AppRaises(t) ==
    /\ stage[t] = "app"
    /\ \E status \in Failures(t) : StartReply(t, "rescue", status)
    /\ UNCHANGED <<gateVars, chunked, sent, broken, recorded>>

\* The application or its send() raises after the start: status_code becomes that
\* of the handler, which raises the exception again through the finally clause if
\* it is not _RequestBodyTooLarge, and sends nothing in either case.
AppBreaks(t) ==
    /\ stage[t] = "streaming"
    /\ broken' = [broken EXCEPT ![t] = TRUE]
    /\ \E status \in Failures(t) : Finish(t, status)
    /\ UNCHANGED <<chunked, sent>>
-----------------------------------------------------------------------------
(* _respond(): a start message, then a body message, each of which may fail *)

SendStart(t) ==
    /\ \/ stage[t] = "reply" /\ stage' = [stage EXCEPT ![t] = "replying"]
       \/ stage[t] = "rescue" /\ stage' = [stage EXCEPT ![t] = "rescuing"]
    /\ sent' = [sent EXCEPT ![t] = Append(@, reply[t])]
    /\ UNCHANGED <<gateVars, chunked, reply, broken, recorded>>

\* The response is complete; __call__ returns.
SendBody(t) ==
    /\ stage[t] \in {"replying", "rescuing"}
    /\ UNCHANGED <<chunked, sent, broken>>
    /\ Finish(t, reply[t])

\* send() raises in the try block: tracked_send had noted the start, so the
\* handler raises again with status_code 500.
ReplyBreaks(t) ==
    /\ stage[t] = "replying"
    /\ broken' = [broken EXCEPT ![t] = TRUE]
    /\ Finish(t, 500)
    /\ UNCHANGED <<chunked, sent>>

\* send() raises in a handler: status_code stays what tracked_send noted.
RescueBreaks(t) ==
    /\ stage[t] = "rescuing"
    /\ broken' = [broken EXCEPT ![t] = TRUE]
    /\ Finish(t, reply[t])
    /\ UNCHANGED <<chunked, sent>>

Serve(t) ==
    \/ PermitComes(t) \/ PermitTimesOut(t)
    \/ BodyComplete(t) \/ BodyFails(t)
    \/ AppStarts(t) \/ AppEnds(t) \/ AppRaises(t) \/ AppBreaks(t)
    \/ SendStart(t) \/ SendBody(t) \/ ReplyBreaks(t) \/ RescueBreaks(t)

Next == \E t \in Tasks :
    Refuse(t) \/ AdmitLight(t) \/ AdmitHeavy(t) \/ TimerFires(t) \/ Serve(t)

Spec == Init /\ [][Next]_pipelineVars
-----------------------------------------------------------------------------
(* Properties *)

TypeOK ==
    /\ stage \in [Tasks -> Stages]
    /\ chunked \in [Tasks -> BOOLEAN]
    /\ reply \in [Tasks -> Statuses \cup {0}]
    /\ sent \in [Tasks -> Seq(Statuses)]
    /\ broken \in [Tasks -> BOOLEAN]
    /\ recorded \in [Tasks -> Seq(Statuses)]

\* A request that has ended, however it ended, left neither a permit, nor a
\* place in the line, nor a count in the gate; one that waits for its permit
\* is in the line.
GateFollowsRequest ==
    \A t \in Tasks :
        /\ stage[t] = "idle" => pc[t] = "idle"
        /\ stage[t] = "gate" <=> pc[t] = "parked"
        /\ pc[t] = "refused" => stage[t] \in {"reply", "replying"} /\ reply[t] = 503
        /\ pc[t] = "holding" => stage[t] \in {"body", "app", "streaming", "rescue", "rescuing"}

\* A response is started at most once per request, on every error path.
OneResponse == \A t \in Tasks : Len(sent[t]) <= 1

\* Every request that ended was recorded exactly once, rate-limited ones too,
\* although two places of the code record and one of them skips 429.
RecordedOnce ==
    \A t \in Tasks :
        IF stage[t] = "idle" /\ sent[t] # <<>> THEN Len(recorded[t]) = 1 ELSE recorded[t] = <<>>

\* The metrics count the status the client got; a request that an exception ended
\* after its response start counts as the error that ended it, a body too large
\* (413) or a failure (500), and never as the success the client saw begin.
RecordIsTruthful ==
    \A t \in Tasks : recorded[t] # <<>> =>
        IF broken[t] THEN recorded[t] \in {<<413>>, <<500>>} ELSE recorded[t] = sent[t]

\* The middleware uses the gate as the gate is specified: one acquire and one
\* release per heavy request, whatever was raised in between.
ImplementsGate == Gate!Spec
=============================================================================
