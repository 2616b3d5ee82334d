------------------------ MODULE RequestPipelineProofs ------------------------
(***************************************************************************)
(* Proofs about operations.py outside the gate.  RequestPipeline: each of  *)
(* its steps is a step of the gate or leaves the gate alone, so what       *)
(* HeavyGateProofs proves of the gate holds of the middleware as well; and *)
(* on every path a request starts one response, is recorded once, and      *)
(* leaves the gate.  RateLimiter: the sweep and the eviction keep the      *)
(* table in the order of last use, and the windows of its keys account for *)
(* what was let through.                                                   *)
(***************************************************************************)
EXTENDS RequestPipeline, RateLimiter, OrderLemmas, TLAPS

GateLaws == INSTANCE HeavyGateProofs

\* The middleware changes the gate only as the gate allows.
LEMMA StepIsGateStep == [Next]_pipelineVars => [Gate!Next]_gateVars
<1> SUFFICES ASSUME [Next]_pipelineVars PROVE [Gate!Next]_gateVars
  OBVIOUS
<1>1. CASE UNCHANGED pipelineVars
  BY <1>1 DEF pipelineVars
<1>2. ASSUME NEW t \in Tasks, Refuse(t) \/ AdmitLight(t)
      PROVE  UNCHANGED gateVars
  BY <1>2 DEF Refuse, AdmitLight, gateVars
<1>3. ASSUME NEW t \in Tasks, AdmitHeavy(t) \/ TimerFires(t)
      PROVE  Gate!Next
  BY <1>3 DEF AdmitHeavy, TimerFires, Gate!Next, Gate!Acquire
<1>4. ASSUME NEW t \in Tasks, LeaveGate(t)
      PROVE  [Gate!Next]_gateVars
  BY <1>4 DEF LeaveGate, Gate!Next
<1>5. ASSUME NEW t \in Tasks, Serve(t)
      PROVE  [Gate!Next]_gateVars
  <2>1. CASE PermitComes(t) \/ PermitTimesOut(t)
    BY <2>1 DEF PermitComes, PermitTimesOut, Gate!Next, Gate!Resume
  <2>2. CASE BodyComplete(t) \/ BodyFails(t) \/ AppStarts(t) \/ AppRaises(t) \/ SendStart(t)
    BY <2>2 DEF BodyComplete, BodyFails, AppStarts, AppRaises, SendStart, gateVars
  <2>3. CASE AppEnds(t) \/ AppBreaks(t) \/ SendBody(t) \/ ReplyBreaks(t) \/ RescueBreaks(t)
    BY <2>3, <1>4 DEF AppEnds, AppBreaks, SendBody, ReplyBreaks, RescueBreaks, Finish
  <2> QED  BY <1>5, <2>1, <2>2, <2>3 DEF Serve
<1> QED  BY <1>1, <1>2, <1>3, <1>5 DEF Next

\* The middleware is a correct user of the gate: one acquire and one release per
\* heavy request, whatever is raised between them.
THEOREM PipelineImplementsGate == Spec => ImplementsGate
<1>1. Init => Gate!Init  BY DEF Init
<1>2. [Next]_pipelineVars => [Gate!Next]_Gate!gateVars
  BY StepIsGateStep DEF gateVars, Gate!gateVars
<1> QED  BY <1>1, <1>2, PTL DEF Spec, ImplementsGate, Gate!Spec

-----------------------------------------------------------------------------
(* GateLaws is the gate once more, with its theorems; the lemmas below say   *)
(* that its operators are those of Gate.                                     *)

LEMMA SameCardinality ==
    ASSUME NEW S PROVE Gate!Cardinality(S) = GateLaws!Cardinality(S)
  BY DEF Gate!Cardinality, GateLaws!Cardinality

LEMMA SameGrant ==
    ASSUME NEW v, NEW n, NEW f
    PROVE  Gate!GrantPermits(v, n, f) <=> GateLaws!GrantPermits(v, n, f)
<1>1. ASSUME NEW P PROVE Gate!Woken(n, P) = GateLaws!Woken(n, P)
  BY SameCardinality DEF Gate!Woken, GateLaws!Woken, Gate!InLineBefore, GateLaws!InLineBefore
<1> QED  BY <1>1, SameCardinality DEF Gate!GrantPermits, GateLaws!GrantPermits

LEMMA SameLeave ==
    ASSUME NEW t PROVE Gate!LeaveLine(t) <=> GateLaws!LeaveLine(t)
  BY DEF Gate!LeaveLine, GateLaws!LeaveLine, Gate!RemoveAt, GateLaws!RemoveAt

LEMMA SameActions ==
    ASSUME NEW t \in Tasks
    PROVE  /\ Gate!Acquire(t) <=> GateLaws!Acquire(t)
           /\ Gate!TimerFires(t) <=> GateLaws!TimerFires(t)
           /\ Gate!Resume(t) <=> GateLaws!Resume(t)
           /\ Gate!Release(t) <=> GateLaws!Release(t)
           /\ Gate!AnswerBusy(t) <=> GateLaws!AnswerBusy(t)
<1>1. Gate!AcquireAtOnce(t) <=> GateLaws!AcquireAtOnce(t)
  BY DEF Gate!AcquireAtOnce, GateLaws!AcquireAtOnce, Gate!Locked, GateLaws!Locked,
         Gate!Saturated, GateLaws!Saturated
<1>2. Gate!Park(t) <=> GateLaws!Park(t)
  BY DEF Gate!Park, GateLaws!Park, Gate!Locked, GateLaws!Locked,
         Gate!Saturated, GateLaws!Saturated
<1>3. Gate!AcquireRefused(t) <=> GateLaws!AcquireRefused(t)
  BY DEF Gate!AcquireRefused, GateLaws!AcquireRefused, Gate!Saturated, GateLaws!Saturated
<1>4. Gate!ResumeGranted(t) <=> GateLaws!ResumeGranted(t)
  BY SameGrant, SameLeave DEF Gate!ResumeGranted, GateLaws!ResumeGranted
<1>5. Gate!ResumeTimedOut(t) <=> GateLaws!ResumeTimedOut(t)
  BY SameGrant, SameLeave DEF Gate!ResumeTimedOut, GateLaws!ResumeTimedOut
<1>6. Gate!Release(t) <=> GateLaws!Release(t)
  BY SameGrant DEF Gate!Release, GateLaws!Release
<1>7. Gate!TimerFires(t) <=> GateLaws!TimerFires(t)
  BY DEF Gate!TimerFires, GateLaws!TimerFires
<1>8. Gate!AnswerBusy(t) <=> GateLaws!AnswerBusy(t)
  BY DEF Gate!AnswerBusy, GateLaws!AnswerBusy
<1> QED
  BY <1>1, <1>2, <1>3, <1>4, <1>5, <1>6, <1>7, <1>8
  DEF Gate!Acquire, GateLaws!Acquire, Gate!Resume, GateLaws!Resume

LEMMA SameSpec == Gate!Spec => GateLaws!Spec
<1>1. Gate!Init => GateLaws!Init
  BY DEF Gate!Init, GateLaws!Init
<1>2. [Gate!Next]_Gate!gateVars => [GateLaws!Next]_GateLaws!gateVars
  BY SameActions DEF Gate!Next, GateLaws!Next, Gate!gateVars, GateLaws!gateVars
<1> QED  BY <1>1, <1>2, PTL DEF Gate!Spec, GateLaws!Spec

\* No permit is lost or made up by any error path of the middleware.
THEOREM PipelineConservesPermits == Spec => []Gate!PermitConservation
<1>1. GateLaws!GateAssumption
  BY PipelineAssumption DEF GateLaws!GateAssumption, IsFiniteSet, GateLaws!IsFiniteSet
<1>2. GateLaws!Spec => []GateLaws!PermitConservation
  BY <1>1, GateLaws!PermitsConserved
<1>3. GateLaws!PermitConservation => Gate!PermitConservation
  BY SameCardinality
  DEF Gate!PermitConservation, GateLaws!PermitConservation, Gate!Promised, GateLaws!Promised,
      Gate!WithFuture, GateLaws!WithFuture, Gate!Holders, GateLaws!Holders,
      Gate!TasksAt, GateLaws!TasksAt
<1>4. Spec => GateLaws!Spec
  BY PipelineImplementsGate, SameSpec DEF ImplementsGate
<1> QED  BY <1>2, <1>3, <1>4, PTL

\* The counters that /ready and /metrics report agree with the requests that run
\* and wait, whatever errors the requests before them ended with.
THEOREM PipelineCountersHonest == Spec => []Gate!CountersHonest
<1>1. GateLaws!GateAssumption
  BY PipelineAssumption DEF GateLaws!GateAssumption, IsFiniteSet, GateLaws!IsFiniteSet
<1>2. GateLaws!Spec => []GateLaws!CountersHonest
  BY <1>1, GateLaws!CountersAreHonest
<1>3. GateLaws!CountersHonest => Gate!CountersHonest
  BY SameCardinality
  DEF Gate!CountersHonest, GateLaws!CountersHonest, Gate!Holders, GateLaws!Holders,
      Gate!TasksAt, GateLaws!TasksAt
<1>4. Spec => GateLaws!Spec
  BY PipelineImplementsGate, SameSpec DEF ImplementsGate
<1> QED  BY <1>2, <1>3, <1>4, PTL
-----------------------------------------------------------------------------
(* What a request has sent and recorded at each stage of its way *)

PhaseType == pc \in [Tasks -> Gate!Phases]

\* Nothing was recorded before the end; a response was started once in the stages
\* after the start and not before; and a request that ended did both once.
SentOf(t) ==
    /\ stage[t] # "idle" => recorded[t] = <<>> /\ broken[t] = FALSE
    /\ stage[t] \in {"gate", "body", "app", "reply", "rescue"} => sent[t] = <<>>
    /\ stage[t] \in {"reply", "replying", "rescue", "rescuing"} => reply[t] \in Statuses
    /\ stage[t] \in {"rescue", "rescuing"} => reply[t] \in {413, 500}
    /\ stage[t] \in {"replying", "rescuing"} => sent[t] = <<reply[t]>>
    /\ stage[t] = "streaming" => \E status \in Statuses : sent[t] = <<status>>
    /\ stage[t] = "idle" =>
        \/ sent[t] = <<>> /\ recorded[t] = <<>>
        \/ \E status \in Statuses :
            /\ sent[t] = <<status>>
            /\ \/ broken[t] = FALSE /\ recorded[t] = <<status>>
               \/ broken[t] = TRUE /\ recorded[t] \in {<<413>>, <<500>>}

SentByStage == \A t \in Tasks : SentOf(t)

\* GateFollowsRequest, of one request.
GateOf(t) ==
    /\ stage[t] = "idle" => pc[t] = "idle"
    /\ stage[t] = "gate" <=> pc[t] = "parked"
    /\ pc[t] = "refused" => stage[t] \in {"reply", "replying"} /\ reply[t] = 503
    /\ pc[t] = "holding" => stage[t] \in {"body", "app", "streaming", "rescue", "rescuing"}

IInv == TypeOK /\ PhaseType /\ SentByStage /\ GateFollowsRequest

\* A step of one request leaves what is said of the others.
LEMMA OneRequestChanges ==
    ASSUME IInv, NEW t \in Tasks, TypeOK', PhaseType', SentOf(t)', GateOf(t)',
           \A u \in Tasks \ {t} :
               /\ stage'[u] = stage[u] /\ reply'[u] = reply[u] /\ sent'[u] = sent[u]
               /\ recorded'[u] = recorded[u] /\ broken'[u] = broken[u] /\ pc'[u] = pc[u]
    PROVE  IInv'
<1>1. ASSUME NEW u \in Tasks PROVE SentOf(u)'
  BY DEF IInv, SentByStage, SentOf
<1>2. ASSUME NEW u \in Tasks PROVE GateOf(u)'
  BY DEF IInv, GateFollowsRequest, GateOf
<1> QED  BY <1>1, <1>2 DEF IInv, SentByStage, GateFollowsRequest, GateOf

\* SentByStage says more than the two properties about records.
LEMMA RecordsFollow ==
    IInv => OneResponse /\ RecordedOnce /\ RecordIsTruthful
<1> SUFFICES ASSUME IInv, NEW t \in Tasks
             PROVE  /\ Len(sent[t]) <= 1
                    /\ IF stage[t] = "idle" /\ sent[t] # <<>>
                         THEN Len(recorded[t]) = 1 ELSE recorded[t] = <<>>
                    /\ recorded[t] # <<>> =>
                         IF broken[t] THEN recorded[t] \in {<<413>>, <<500>>}
                         ELSE recorded[t] = sent[t]
  BY DEF OneResponse, RecordedOnce, RecordIsTruthful
<1>1. CASE stage[t] = "idle" /\ sent[t] # <<>>
  <2>1. PICK status \in Statuses :
            /\ sent[t] = <<status>>
            /\ \/ broken[t] = FALSE /\ recorded[t] = <<status>>
               \/ broken[t] = TRUE /\ recorded[t] \in {<<413>>, <<500>>}
    BY <1>1 DEF IInv, SentByStage, SentOf
  <2>2. Len(sent[t]) = 1 /\ Len(recorded[t]) = 1
    BY <2>1
  <2> QED  BY <1>1, <2>1, <2>2
<1>2. CASE stage[t] = "idle" /\ sent[t] = <<>>
  BY <1>2 DEF IInv, SentByStage, SentOf
<1>3. CASE stage[t] # "idle"
  <2>1. recorded[t] = <<>>
    BY <1>3 DEF IInv, SentByStage, SentOf
  <2>2. stage[t] \in Stages
    BY DEF IInv, TypeOK
  <2>3. sent[t] = <<>> \/ \E status : sent[t] = <<status>>
    BY <1>3, <2>2 DEF IInv, SentByStage, SentOf, Stages
  <2>4. Len(sent[t]) <= 1
    <3>1. CASE sent[t] = <<>>
      BY <3>1
    <3>2. ASSUME NEW status, sent[t] = <<status>> PROVE Len(sent[t]) <= 1
      BY <3>2
    <3> QED  BY <2>3, <3>1, <3>2
  <2> QED  BY <1>3, <2>1, <2>4
<1> QED  BY <1>1, <1>2, <1>3

\* An exception ends the request after its start, with the status of its handler.
BreaksOff(t, status) ==
    /\ broken' = [broken EXCEPT ![t] = TRUE]
    /\ \E first \in Statuses : sent[t] = <<first>>
    /\ status \in {413, 500}

\* A request that ends after its response keeps what its stage says.
LEMMA FinishStep ==
    ASSUME IInv, NEW t \in Tasks, NEW status \in Statuses, Finish(t, status),
           stage[t] # "idle", stage[t] # "gate",
           sent' = sent, chunked' = chunked,
           \/ broken' = [broken EXCEPT ![t] = FALSE] /\ sent[t] = <<status>>
           \/ BreaksOff(t, status)
    PROVE  IInv'
<1> USE DEF IInv
<1>1. pc' = [pc EXCEPT ![t] = "idle"]
  <2>1. pc[t] \in {"holding", "refused", "idle"}
    BY DEF GateFollowsRequest, PhaseType, Gate!Phases
  <2> QED
    BY <2>1
    DEF Finish, LeaveGate, Gate!Release, Gate!AnswerBusy, gateVars, PhaseType
<1>2. recorded' = [recorded EXCEPT ![t] = <<status>>]
  <2>1. recorded[t] = <<>>
    BY DEF SentByStage, SentOf
  <2>2. Append(recorded[t], status) = <<status>>
    BY <2>1
  <2> QED  BY <2>2 DEF Finish, Record
<1>3. /\ stage' = [stage EXCEPT ![t] = "idle"]
      /\ reply' = [reply EXCEPT ![t] = 0]
  BY DEF Finish
<1>4. TypeOK'
  <2>1. <<status>> \in Seq(Statuses)
    OBVIOUS
  <2>2. recorded' \in [Tasks -> Seq(Statuses)]
    BY <1>2, <2>1 DEF TypeOK
  <2>3. broken' \in [Tasks -> BOOLEAN]
    <3>1. CASE broken' = [broken EXCEPT ![t] = FALSE]
      BY <3>1 DEF TypeOK
    <3>2. CASE broken' = [broken EXCEPT ![t] = TRUE]
      BY <3>2 DEF TypeOK
    <3> QED  BY <3>1, <3>2 DEF BreaksOff
  <2> QED  BY <1>3, <2>2, <2>3 DEF TypeOK, Stages
<1>5. PhaseType'
  BY <1>1 DEF PhaseType, Gate!Phases
<1>6. \A u \in Tasks \ {t} :
          /\ stage'[u] = stage[u] /\ reply'[u] = reply[u] /\ sent'[u] = sent[u]
          /\ recorded'[u] = recorded[u] /\ broken'[u] = broken[u] /\ pc'[u] = pc[u]
  <2>1. \A u \in Tasks \ {t} : broken'[u] = broken[u]
    <3>1. CASE broken' = [broken EXCEPT ![t] = FALSE]
      BY <3>1 DEF TypeOK
    <3>2. CASE broken' = [broken EXCEPT ![t] = TRUE]
      BY <3>2 DEF TypeOK
    <3> QED  BY <3>1, <3>2 DEF BreaksOff
  <2> QED  BY <1>1, <1>2, <1>3, <2>1 DEF TypeOK, PhaseType
<1>7. /\ stage'[t] = "idle" /\ sent'[t] = sent[t] /\ recorded'[t] = <<status>>
      /\ pc'[t] = "idle"
  BY <1>1, <1>2, <1>3 DEF TypeOK, PhaseType
<1>8. \E first \in Statuses :
          /\ sent'[t] = <<first>>
          /\ \/ broken'[t] = FALSE /\ recorded'[t] = <<first>>
             \/ broken'[t] = TRUE /\ recorded'[t] \in {<<413>>, <<500>>}
  <2>1. CASE broken' = [broken EXCEPT ![t] = FALSE] /\ sent[t] = <<status>>
    <3>1. broken'[t] = FALSE
      BY <2>1 DEF TypeOK
    <3> QED  BY <1>7, <2>1, <3>1
  <2>2. CASE BreaksOff(t, status)
    <3>1. broken'[t] = TRUE
      BY <2>2 DEF TypeOK, BreaksOff
    <3>2. (\E first \in Statuses : sent[t] = <<first>>) /\ status \in {413, 500}
      BY <2>2 DEF BreaksOff
    <3>3. <<status>> \in {<<413>>, <<500>>}
      BY <3>2
    <3>4. PICK first \in Statuses : sent'[t] = <<first>>
      BY <1>7, <3>2
    <3>5. recorded'[t] \in {<<413>>, <<500>>}
      BY <1>7, <3>3
    <3> QED  BY <3>1, <3>4, <3>5
  <2> QED  BY <2>1, <2>2
<1>9. SentOf(t)' /\ GateOf(t)'
  BY <1>7, <1>8 DEF SentOf, GateOf
<1> QED  BY <1>4, <1>5, <1>6, <1>9, OneRequestChanges

LEMMA RefusalIsStatus ==
    ASSUME NEW r \in Requests PROVE Refusal(r) \in Statuses \cup {0}
  BY DEF Refusal, Statuses

\* A request that takes a stage before its response, and what the gate then says
\* of its task: all that Refuse, AdmitLight, AdmitHeavy and the gate's answers do.
LEMMA EnterStep ==
    ASSUME IInv, NEW t \in Tasks, NEW where \in Stages, NEW phase \in Gate!Phases,
           NEW status \in Statuses \cup {0},
           stage' = [stage EXCEPT ![t] = where],
           reply' = [reply EXCEPT ![t] = status],
           pc' = [pc EXCEPT ![t] = phase],
           chunked' \in [Tasks -> BOOLEAN],
           sent' = [sent EXCEPT ![t] = <<>>],
           recorded' = [recorded EXCEPT ![t] = <<>>],
           broken' = [broken EXCEPT ![t] = FALSE],
           \/ where \in {"body", "app"} /\ phase \in {"idle", "holding"}
           \/ where = "gate" /\ phase = "parked"
           \/ where = "reply" /\ phase = "idle" /\ status # 0
           \/ where = "reply" /\ phase = "refused" /\ status = 503
           \/ where = "rescue" /\ phase \in {"idle", "holding"} /\ status \in {413, 500}
    PROVE  IInv'
<1> USE DEF IInv
<1>1. TypeOK'
  <2>1. <<>> \in Seq(Statuses)
    OBVIOUS
  <2>2. broken' \in [Tasks -> BOOLEAN]
    BY DEF TypeOK
  <2> QED  BY <2>1, <2>2 DEF TypeOK
<1>2. PhaseType'
  BY DEF PhaseType
<1>3. \A u \in Tasks \ {t} :
          /\ stage'[u] = stage[u] /\ reply'[u] = reply[u] /\ sent'[u] = sent[u]
          /\ recorded'[u] = recorded[u] /\ broken'[u] = broken[u] /\ pc'[u] = pc[u]
  BY DEF TypeOK, PhaseType
<1>4. /\ stage'[t] = where /\ reply'[t] = status /\ sent'[t] = <<>>
      /\ recorded'[t] = <<>> /\ pc'[t] = phase /\ broken'[t] = FALSE
  BY DEF TypeOK, PhaseType
<1>5. SentOf(t)' /\ GateOf(t)'
  BY <1>4 DEF SentOf, GateOf, Statuses
<1> QED  BY <1>1, <1>2, <1>3, <1>5, OneRequestChanges

\* A request that begins has sent and recorded nothing.
LEMMA BeginStep ==
    ASSUME IInv, NEW t \in Tasks, Refuse(t) \/ AdmitLight(t) \/ AdmitHeavy(t)
    PROVE  IInv'
<1>1. PICK buffered \in BOOLEAN : Begin(t, buffered)
  BY DEF Refuse, AdmitLight, AdmitHeavy, Requests
<1>2. /\ chunked' \in [Tasks -> BOOLEAN]
      /\ sent' = [sent EXCEPT ![t] = <<>>]
      /\ recorded' = [recorded EXCEPT ![t] = <<>>]
      /\ broken' = [broken EXCEPT ![t] = FALSE]
  BY <1>1 DEF Begin, IInv, TypeOK
<1>3. stage[t] = "idle" /\ pc[t] = "idle"
  BY DEF Refuse, AdmitLight, AdmitHeavy, IInv, GateFollowsRequest
<1>4. reply[t] \in Statuses \cup {0} /\ reply = [reply EXCEPT ![t] = reply[t]]
  BY DEF IInv, TypeOK
<1>5. pc = [pc EXCEPT ![t] = "idle"]
  BY <1>3 DEF IInv, PhaseType
<1>6. {"body", "app", "gate", "reply"} \subseteq Stages
  BY DEF Stages
<1>7. {"idle", "holding", "parked", "refused"} \subseteq Gate!Phases
  BY DEF Gate!Phases
<1>8. 503 \in Statuses
  BY DEF Statuses
<1>9. CASE Refuse(t)
  <2>1. PICK r \in Requests : Refusal(r) # 0 /\ StartReply(t, "reply", Refusal(r))
    BY <1>9 DEF Refuse
  <2>2. pc' = pc
    BY <1>9 DEF Refuse, gateVars
  <2>3. Refusal(r) \in Statuses \cup {0}
    BY RefusalIsStatus
  <2> QED
    BY <1>2, <1>5, <1>6, <1>7, <2>1, <2>2, <2>3, EnterStep DEF StartReply
<1>10. CASE AdmitLight(t)
  <2>1. PICK where \in {"body", "app"} : stage' = [stage EXCEPT ![t] = where]
    BY <1>10 DEF AdmitLight, AfterGate
  <2>2. pc' = pc /\ reply' = reply
    BY <1>10 DEF AdmitLight, gateVars
  <2> QED
    BY <1>2, <1>4, <1>5, <1>6, <1>7, <2>1, <2>2, EnterStep
<1>11. CASE AdmitHeavy(t)
  <2>1. PICK r \in Requests :
            \/ Gate!AcquireAtOnce(t) /\ stage' = [stage EXCEPT ![t] = AfterGate(r.chunked)]
                                     /\ UNCHANGED reply
            \/ Gate!Park(t) /\ stage' = [stage EXCEPT ![t] = "gate"] /\ UNCHANGED reply
            \/ Gate!AcquireRefused(t) /\ StartReply(t, "reply", 503)
    BY <1>11 DEF AdmitHeavy
  <2>2. CASE Gate!AcquireAtOnce(t) /\ stage' = [stage EXCEPT ![t] = AfterGate(r.chunked)]
                                   /\ UNCHANGED reply
    <3>1. AfterGate(r.chunked) \in {"body", "app"}
      BY DEF AfterGate
    <3>2. pc' = [pc EXCEPT ![t] = "holding"]
      BY <2>2 DEF Gate!AcquireAtOnce
    <3> QED  BY <1>2, <1>4, <1>6, <1>7, <2>2, <3>1, <3>2, EnterStep
  <2>3. CASE Gate!Park(t) /\ stage' = [stage EXCEPT ![t] = "gate"] /\ UNCHANGED reply
    <3>1. pc' = [pc EXCEPT ![t] = "parked"]
      BY <2>3 DEF Gate!Park
    <3> QED  BY <1>2, <1>4, <1>6, <1>7, <2>3, <3>1, EnterStep
  <2>4. CASE Gate!AcquireRefused(t) /\ StartReply(t, "reply", 503)
    <3>1. pc' = [pc EXCEPT ![t] = "refused"]
      BY <2>4 DEF Gate!AcquireRefused
    <3>2. stage' = [stage EXCEPT ![t] = "reply"] /\ reply' = [reply EXCEPT ![t] = 503]
      BY <2>4 DEF StartReply
    <3> QED  BY <1>2, <1>6, <1>7, <1>8, <3>1, <3>2, EnterStep
  <2> QED  BY <2>1, <2>2, <2>3, <2>4
<1> QED  BY <1>9, <1>10, <1>11

\* A request that has begun and sent nothing yet.
LEMMA NothingSentYet ==
    ASSUME IInv, NEW t \in Tasks, stage[t] \in {"gate", "body", "app"},
           UNCHANGED <<chunked, sent, broken, recorded>>
    PROVE  /\ chunked' \in [Tasks -> BOOLEAN]
           /\ sent' = [sent EXCEPT ![t] = <<>>]
           /\ recorded' = [recorded EXCEPT ![t] = <<>>]
           /\ broken' = [broken EXCEPT ![t] = FALSE]
           /\ reply[t] \in Statuses \cup {0}
           /\ reply = [reply EXCEPT ![t] = reply[t]]
<1>1. sent[t] = <<>> /\ recorded[t] = <<>> /\ broken[t] = FALSE
  BY DEF IInv, SentByStage, SentOf
<1>2. broken = [broken EXCEPT ![t] = FALSE]
  BY <1>1 DEF IInv, TypeOK
<1> QED  BY <1>1, <1>2 DEF IInv, TypeOK

\* The gate answers a parked request, with a permit or without.
LEMMA GateAnswersStep ==
    ASSUME IInv, NEW t \in Tasks, PermitComes(t) \/ PermitTimesOut(t) \/ TimerFires(t)
    PROVE  IInv'
<1>1. CASE PermitComes(t)
  <2>1. PICK where \in {"body", "app"} : stage' = [stage EXCEPT ![t] = where]
    BY <1>1 DEF PermitComes, AfterGate
  <2>2. pc' = [pc EXCEPT ![t] = "holding"]
    BY <1>1 DEF PermitComes, Gate!ResumeGranted
  <2>3. /\ stage[t] = "gate"
        /\ UNCHANGED <<chunked, reply, sent, broken, recorded>>
    BY <1>1 DEF PermitComes
  <2>4. where \in Stages /\ "holding" \in Gate!Phases
    BY DEF Stages, Gate!Phases
  <2>5. /\ chunked' \in [Tasks -> BOOLEAN]
        /\ sent' = [sent EXCEPT ![t] = <<>>]
        /\ recorded' = [recorded EXCEPT ![t] = <<>>]
        /\ broken' = [broken EXCEPT ![t] = FALSE]
        /\ reply[t] \in Statuses \cup {0}
        /\ reply' = [reply EXCEPT ![t] = reply[t]]
    BY <2>3, NothingSentYet
  <2> QED  BY <2>1, <2>2, <2>4, <2>5, EnterStep
<1>2. CASE PermitTimesOut(t)
  <2>1. /\ stage' = [stage EXCEPT ![t] = "reply"]
        /\ reply' = [reply EXCEPT ![t] = 503]
        /\ pc' = [pc EXCEPT ![t] = "refused"]
    BY <1>2 DEF PermitTimesOut, Gate!ResumeTimedOut, StartReply
  <2>2. /\ stage[t] = "gate"
        /\ UNCHANGED <<chunked, sent, broken, recorded>>
    BY <1>2 DEF PermitTimesOut
  <2>3. "reply" \in Stages /\ "refused" \in Gate!Phases /\ 503 \in Statuses
    BY DEF Stages, Gate!Phases, Statuses
  <2>4. /\ chunked' \in [Tasks -> BOOLEAN]
        /\ sent' = [sent EXCEPT ![t] = <<>>]
        /\ recorded' = [recorded EXCEPT ![t] = <<>>]
        /\ broken' = [broken EXCEPT ![t] = FALSE]
    BY <2>2, NothingSentYet
  <2> QED  BY <2>1, <2>3, <2>4, EnterStep
<1>3. CASE TimerFires(t)
  BY <1>3
  DEF TimerFires, Gate!TimerFires, requestVars, IInv, TypeOK, PhaseType, SentByStage, SentOf,
      GateFollowsRequest
<1> QED  BY <1>1, <1>2, <1>3

\* The body is buffered, or fails; the application raises before it sent.
LEMMA BodyStep ==
    ASSUME IInv, NEW t \in Tasks, BodyComplete(t) \/ BodyFails(t) \/ AppRaises(t)
    PROVE  IInv'
<1>1. /\ stage[t] \in {"body", "app"}
      /\ UNCHANGED <<pc, chunked, sent, broken, recorded>>
  BY DEF BodyComplete, BodyFails, AppRaises, gateVars
<1>2. pc[t] \in {"idle", "holding"} /\ pc[t] \in Gate!Phases /\ pc' = [pc EXCEPT ![t] = pc[t]]
  BY <1>1 DEF IInv, GateFollowsRequest, PhaseType, Gate!Phases
<1>3. CASE BodyComplete(t)
  <2>1. stage' = [stage EXCEPT ![t] = "app"] /\ reply' = reply /\ "app" \in Stages
    BY <1>3 DEF BodyComplete, Stages
  <2>2. /\ chunked' \in [Tasks -> BOOLEAN]
        /\ sent' = [sent EXCEPT ![t] = <<>>]
        /\ recorded' = [recorded EXCEPT ![t] = <<>>]
        /\ broken' = [broken EXCEPT ![t] = FALSE]
        /\ reply[t] \in Statuses \cup {0}
        /\ reply' = [reply EXCEPT ![t] = reply[t]]
    BY <1>1, <2>1, NothingSentYet
  <2> QED  BY <1>2, <2>1, <2>2, EnterStep
<1>4. CASE BodyFails(t) \/ AppRaises(t)
  <2>1. PICK status \in {413, 500} : StartReply(t, "rescue", status)
    BY <1>4 DEF BodyFails, AppRaises, Failures
  <2>2. stage' = [stage EXCEPT ![t] = "rescue"] /\ reply' = [reply EXCEPT ![t] = status]
    BY <2>1 DEF StartReply
  <2>3. /\ chunked' \in [Tasks -> BOOLEAN]
        /\ sent' = [sent EXCEPT ![t] = <<>>]
        /\ recorded' = [recorded EXCEPT ![t] = <<>>]
        /\ broken' = [broken EXCEPT ![t] = FALSE]
    BY <1>1, NothingSentYet
  <2>4. "rescue" \in Stages /\ status \in Statuses \cup {0}
    BY DEF Stages, Statuses
  <2> DEFINE phase == pc[t]
  <2>5. phase \in Gate!Phases /\ phase \in {"idle", "holding"} /\ pc' = [pc EXCEPT ![t] = phase]
    BY <1>2
  <2>6. status \in {413, 500}
    OBVIOUS
  <2> HIDE DEF phase
  <2> QED  BY <2>2, <2>3, <2>4, <2>5, <2>6, EnterStep
<1> QED  BY <1>3, <1>4

\* A response is started, by the application or by the middleware.
LEMMA StartStep ==
    ASSUME IInv, NEW t \in Tasks, AppStarts(t) \/ SendStart(t)
    PROVE  IInv'
<1> USE DEF IInv
<1>1. UNCHANGED <<pc, chunked, reply, broken, recorded>> /\ broken'[t] = FALSE
  BY DEF AppStarts, SendStart, gateVars, SentByStage, SentOf
<1>2. \E where \in {"streaming", "replying", "rescuing"}, status \in Statuses :
          /\ stage' = [stage EXCEPT ![t] = where]
          /\ sent' = [sent EXCEPT ![t] = Append(sent[t], status)]
          /\ \/ where = "streaming" /\ stage[t] = "app"
             \/ where = "replying" /\ stage[t] = "reply" /\ status = reply[t]
             \/ where = "rescuing" /\ stage[t] = "rescue" /\ status = reply[t]
  <2>1. CASE AppStarts(t)
    <3>1. PICK status \in {200, 422, 503} : sent' = [sent EXCEPT ![t] = Append(sent[t], status)]
      BY <2>1 DEF AppStarts
    <3>2. status \in Statuses
      BY DEF Statuses
    <3>3. stage[t] = "app" /\ stage' = [stage EXCEPT ![t] = "streaming"]
      BY <2>1 DEF AppStarts
    <3> WITNESS "streaming" \in {"streaming", "replying", "rescuing"}
    <3> WITNESS status \in Statuses
    <3> QED  BY <3>1, <3>3
  <2>2. CASE SendStart(t)
    <3>1. reply[t] \in Statuses
      BY <2>2 DEF SendStart, SentByStage, SentOf
    <3>2. sent' = [sent EXCEPT ![t] = Append(sent[t], reply[t])]
      BY <2>2 DEF SendStart
    <3>3. \/ stage[t] = "reply" /\ stage' = [stage EXCEPT ![t] = "replying"]
          \/ stage[t] = "rescue" /\ stage' = [stage EXCEPT ![t] = "rescuing"]
      BY <2>2 DEF SendStart
    <3> QED  BY <3>1, <3>2, <3>3
  <2> QED  BY <2>1, <2>2
<1>3. PICK where \in {"streaming", "replying", "rescuing"}, status \in Statuses :
          /\ stage' = [stage EXCEPT ![t] = where]
          /\ sent' = [sent EXCEPT ![t] = Append(sent[t], status)]
          /\ \/ where = "streaming" /\ stage[t] = "app"
             \/ where = "replying" /\ stage[t] = "reply" /\ status = reply[t]
             \/ where = "rescuing" /\ stage[t] = "rescue" /\ status = reply[t]
  BY <1>2
<1>4. sent' = [sent EXCEPT ![t] = <<status>>]
  <2>1. sent[t] = <<>>
    BY <1>3 DEF SentByStage, SentOf
  <2>2. Append(sent[t], status) = <<status>>
    BY <2>1
  <2> QED  BY <1>3, <2>2
<1>5. TypeOK'
  <2>1. <<status>> \in Seq(Statuses)
    OBVIOUS
  <2> QED  BY <1>1, <1>3, <1>4, <2>1 DEF TypeOK, Stages
<1>6. PhaseType'
  BY <1>1 DEF PhaseType
<1>7. \A u \in Tasks \ {t} :
          /\ stage'[u] = stage[u] /\ reply'[u] = reply[u] /\ sent'[u] = sent[u]
          /\ recorded'[u] = recorded[u] /\ broken'[u] = broken[u] /\ pc'[u] = pc[u]
  BY <1>1, <1>3, <1>4 DEF TypeOK
<1>8. /\ stage'[t] = where /\ sent'[t] = <<status>> /\ recorded'[t] = recorded[t]
      /\ reply'[t] = reply[t] /\ pc'[t] = pc[t] /\ broken'[t] = FALSE
  BY <1>1, <1>3, <1>4 DEF TypeOK
<1>9. SentOf(t)' /\ GateOf(t)'
  BY <1>3, <1>8 DEF SentByStage, SentOf, GateFollowsRequest, GateOf
<1> QED  BY <1>5, <1>6, <1>7, <1>9, OneRequestChanges

\* No exception has ended a request that is under way.
LEMMA NotBroken ==
    ASSUME IInv, NEW t \in Tasks, stage[t] # "idle"
    PROVE  broken[t] = FALSE /\ broken = [broken EXCEPT ![t] = FALSE]
<1>1. broken[t] = FALSE
  BY DEF IInv, SentByStage, SentOf
<1> QED  BY <1>1 DEF IInv, TypeOK

\* The request ends, with its response complete or broken off.
LEMMA EndStep ==
    ASSUME IInv, NEW t \in Tasks,
           AppEnds(t) \/ AppBreaks(t) \/ SendBody(t) \/ ReplyBreaks(t) \/ RescueBreaks(t)
    PROVE  IInv'
<1>1. CASE AppEnds(t) \/ AppBreaks(t)
  <2>1. PICK first \in Statuses : sent[t] = <<first>>
    BY <1>1 DEF AppEnds, AppBreaks, IInv, SentByStage, SentOf
  <2>2. sent[t][Len(sent[t])] = first
    BY <2>1
  <2>3. {413, 500} \subseteq Statuses /\ Failures(t) \subseteq {413, 500}
    BY DEF Statuses, Failures
  <2>4. CASE AppEnds(t)
    <3>1. broken' = [broken EXCEPT ![t] = FALSE]
      BY <2>4, NotBroken DEF AppEnds
    <3> QED  BY <2>1, <2>2, <2>4, <3>1, FinishStep DEF AppEnds
  <2>5. CASE AppBreaks(t)
    <3>1. PICK status \in {413, 500} : Finish(t, status)
      BY <2>3, <2>5 DEF AppBreaks
    <3>2. BreaksOff(t, status) /\ status \in Statuses
      BY <2>1, <2>3, <2>5 DEF AppBreaks, BreaksOff
    <3>3. /\ stage[t] # "idle" /\ stage[t] # "gate"
          /\ sent' = sent /\ chunked' = chunked
      BY <2>5 DEF AppBreaks
    <3> QED  BY <3>1, <3>2, <3>3, FinishStep
  <2> QED  BY <1>1, <2>4, <2>5
<1>2. CASE SendBody(t) \/ ReplyBreaks(t) \/ RescueBreaks(t)
  <2>1. reply[t] \in Statuses /\ sent[t] = <<reply[t]>>
    BY <1>2 DEF SendBody, ReplyBreaks, RescueBreaks, IInv, SentByStage, SentOf
  <2>2. 500 \in Statuses
    BY DEF Statuses
  <2>3. CASE SendBody(t)
    <3>1. broken' = [broken EXCEPT ![t] = FALSE]
      BY <2>3, NotBroken DEF SendBody
    <3> QED  BY <2>1, <2>3, <3>1, FinishStep DEF SendBody
  <2>4. CASE ReplyBreaks(t)
    <3>1. BreaksOff(t, 500)
      BY <2>1, <2>4 DEF ReplyBreaks, BreaksOff
    <3>2. /\ stage[t] # "idle" /\ stage[t] # "gate" /\ Finish(t, 500)
          /\ sent' = sent /\ chunked' = chunked
      BY <2>4 DEF ReplyBreaks
    <3> QED  BY <2>2, <3>1, <3>2, FinishStep
  <2>5. CASE RescueBreaks(t)
    <3>1. reply[t] \in {413, 500}
      BY <2>5 DEF RescueBreaks, IInv, SentByStage, SentOf
    <3>2. BreaksOff(t, reply[t])
      BY <2>1, <2>5, <3>1 DEF RescueBreaks, BreaksOff
    <3> QED  BY <2>1, <2>5, <3>2, FinishStep DEF RescueBreaks
  <2> QED  BY <1>2, <2>3, <2>4, <2>5
<1> QED  BY <1>1, <1>2

LEMMA InitIInv == Init => IInv
<1> SUFFICES ASSUME Init PROVE IInv
  OBVIOUS
<1>1. <<>> \in Seq(Statuses)
  OBVIOUS
<1> QED
  BY <1>1
  DEF Init, Gate!Init, IInv, TypeOK, Stages, PhaseType, Gate!Phases, SentByStage, SentOf,
      GateFollowsRequest

LEMMA NextIInv == IInv /\ [Next]_pipelineVars => IInv'
<1> SUFFICES ASSUME IInv, [Next]_pipelineVars PROVE IInv'
  OBVIOUS
<1>1. CASE UNCHANGED pipelineVars
  BY <1>1
  DEF pipelineVars, gateVars, requestVars, IInv, TypeOK, PhaseType, SentByStage, SentOf,
      GateFollowsRequest
<1>2. ASSUME NEW t \in Tasks,
             Refuse(t) \/ AdmitLight(t) \/ AdmitHeavy(t) \/ TimerFires(t) \/ Serve(t)
      PROVE  IInv'
  BY <1>2, BeginStep, GateAnswersStep, BodyStep, StartStep, EndStep DEF Serve
<1> QED  BY <1>1, <1>2 DEF Next

\* The middleware's invariant, for every number of requests and every gate.
THEOREM PipelineInvariant == Spec => []IInv
  BY InitIInv, NextIInv, PTL DEF Spec

\* No request that ended holds or waits for a permit, whatever it ended with.
THEOREM RequestsLeaveTheGate == Spec => []GateFollowsRequest
<1>1. IInv => GateFollowsRequest  BY DEF IInv
<1> QED  BY <1>1, PipelineInvariant, PTL

\* No error path starts a second response.
THEOREM ResponsesStartOnce == Spec => []OneResponse
  BY RecordsFollow, PipelineInvariant, PTL

\* Every request that ended was recorded once.
THEOREM RequestsRecordedOnce == Spec => []RecordedOnce
  BY RecordsFollow, PipelineInvariant, PTL

\* The recorded status is the one sent, or 500 for a response that broke off.
THEOREM RecordsAreTruthful == Spec => []RecordIsTruthful
  BY RecordsFollow, PipelineInvariant, PTL

-----------------------------------------------------------------------------
(* The rate limiter: what Only selects, and arithmetic *)


\* Rounding down loses less than the divisor.
LEMMA DivisionRounds ==
    ASSUME NEW x \in Int, NEW t \in Nat, t > 0
    PROVE  x \div t \in Int /\ t * (x \div t) >= x - t + 1
  BY SMT

\* Only(s, T) has the elements of s in T, in their order.
LEMMA OnlySelects ==
    ASSUME NEW S, NEW s \in Seq(S), NEW T
    PROVE  /\ Only(s, T) \in Seq(S)
           /\ \E at : Selects(Only(s, T), at, s, T, Len(s))
<1> DEFINE is(f) == f = [n \in 0..Len(s) |->
                           IF n = 0 THEN <<>> ELSE IF s[n] \in T THEN Append(f[n - 1], s[n]) ELSE f[n - 1]]
           first == CHOOSE f : is(f)
<1>1. Len(s) \in Nat
  BY LenProperties
<1>2. Only(s, T) = first[Len(s)]
  BY Zenon DEF Only
<1>3. \E f : is(f)
  <2>1. PICK f : SelectsTo(f, s, T, Len(s))
    BY <1>1, SelectionExists
  <2>2. is(f)
    BY <2>1, Zenon DEF SelectsTo
  <2> HIDE DEF is
  <2> QED  BY <2>2
<1>4. is(first)
  <2> HIDE DEF is
  <2> QED  BY <1>3, Zenon
<1>5. SelectsTo(first, s, T, Len(s))
  <2> HIDE DEF first
  <2> QED  BY <1>4, Zenon DEF SelectsTo
<1> HIDE DEF first
<1> QED  BY <1>2, <1>5, Selected

\* The constants, in ticks.
LEMMA LimiterNumbers ==
    /\ Window \in Nat /\ Window >= 1 /\ Ttl \in Nat /\ Ttl >= Window
    /\ MaxKeys \in Nat /\ MaxKeys >= 1 /\ TicksPerSecond \in Nat /\ TicksPerSecond >= 1
    /\ \A k \in Keys : LimitOf[k] \in Nat /\ LimitOf[k] >= 1
<1>1. /\ WindowSeconds \in Nat /\ WindowSeconds >= 1 /\ TtlSeconds \in Nat /\ MaxKeys \in Nat /\ MaxKeys >= 1
      /\ TicksPerSecond \in Nat /\ TicksPerSecond >= 1
      /\ \A k \in Keys : LimitOf[k] \in Nat /\ LimitOf[k] >= 1
  BY LimiterAssumption
<1>2. \A a, b, t \in Nat : a >= b /\ t >= 1 /\ b >= 1 => a * t \in Nat /\ b * t \in Nat /\ a * t >= b * t /\ b * t >= 1
  BY SMT
<1>3. LargerOf(TtlSeconds, WindowSeconds) \in Nat /\ LargerOf(TtlSeconds, WindowSeconds) >= WindowSeconds
  BY <1>1 DEF LargerOf
<1> QED  BY <1>1, <1>2, <1>3 DEF Window, Ttl

\* A refused client that waits as told comes back after the window.
LEMMA WaitIsEnough ==
    ASSUME NEW e \in Nat, e < Window
    PROVE  RetryAfter(e) * TicksPerSecond \in Nat /\ e + RetryAfter(e) * TicksPerSecond >= Window
<1> DEFINE t == TicksPerSecond
           w == Window
           x == w - e + t - 1
           q == x \div t
           r == RetryAfter(e)
<1>1. t \in Nat /\ t >= 1 /\ w \in Nat
  BY LimiterNumbers
<1>2. r = LargerOf(1, q)
  BY Zenon DEF RetryAfter
<1> HIDE DEF t, w, r
<1>3. x \in Int
  BY <1>1
<1>4. q \in Int /\ t * q >= x - t + 1
  BY <1>1, <1>3, DivisionRounds
<1> HIDE DEF q
<1>5. r \in Nat /\ r >= q /\ r >= 1
  BY <1>2, <1>4 DEF LargerOf
<1>6. r * t \in Nat /\ r * t >= t * q
  BY <1>1, <1>4, <1>5, SMT
<1>7. e + r * t >= w
  <2> DEFINE a == r * t
             b == t * q
  <2>1. a \in Nat /\ b \in Int /\ a >= b /\ b >= x - t + 1
    BY <1>1, <1>4, <1>6
  <2> HIDE DEF a, b
  <2>2. e + a >= w
    BY <1>1, <2>1
  <2> QED  BY <2>2 DEF a
<1> QED  BY <1>6, <1>7 DEF r, t, w

-----------------------------------------------------------------------------
(* The table *)

\* The keys of q are distinct, and in the order of their last use.
ByLastUse(q, seen) ==
    \A i, j \in 1..Len(q) : i < j => q[i] # q[j] /\ seen[q[i]] <= seen[q[j]]

\* A table stays in order when keys are taken out.
LEMMA OnlyInTable ==
    ASSUME NEW q \in Seq(Keys), NEW seen \in [Keys -> Nat], ByLastUse(q, seen), NEW T
    PROVE  LET r == Only(q, T)
           IN /\ r \in Seq(Keys) /\ ByLastUse(r, seen) /\ Len(r) <= Len(q)
              /\ ToSet(r) = ToSet(q) \cap T
              /\ Len(r) = Len(q) => r = q
              /\ \A k \in ToSet(q) : k \notin T => Len(r) < Len(q)
<1> DEFINE r == Only(q, T)
           n == Len(q)
           m == Len(r)
<1>1. r \in Seq(Keys) /\ \E at : Selects(r, at, q, T, n)
  BY OnlySelects
<1>2. PICK at : Selects(r, at, q, T, n)
  BY <1>1
<1>3. m \in Nat /\ n \in Nat /\ DOMAIN r = 1..m /\ DOMAIN q = 1..n
  BY <1>1, LenProperties
<1> HIDE DEF r
<1>4. /\ at \in [1..m -> 1..n]
      /\ \A i \in 1..m : r[i] = q[at[i]] /\ r[i] \in T /\ i <= at[i] /\ m - i <= n - at[i]
      /\ \A i, j \in 1..m : i < j => at[i] < at[j]
      /\ \A j \in 1..n : q[j] \in T => \E i \in 1..m : at[i] = j
      /\ m <= n
      /\ (\E j \in 1..n : q[j] \notin T) => m < n
  BY <1>2, Zenon DEF Selects, m
<1> HIDE DEF m, n
<1>5. ByLastUse(r, seen)
  <2>1. \A i, j \in 1..m : i < j => at[i] \in 1..n /\ at[j] \in 1..n /\ at[i] < at[j]
    BY <1>4
  <2>2. \A i, j \in 1..n : i < j => q[i] # q[j] /\ seen[q[i]] <= seen[q[j]]
    BY Zenon DEF ByLastUse, n
  <2>3. ASSUME NEW i \in 1..m, NEW j \in 1..m, i < j PROVE r[i] # r[j] /\ seen[r[i]] <= seen[r[j]]
    <3>1. r[i] = q[at[i]] /\ r[j] = q[at[j]]
      BY <1>4
    <3>2. at[i] \in 1..n /\ at[j] \in 1..n /\ at[i] < at[j]
      BY <2>1, <2>3
    <3> QED  BY <2>2, <3>1, <3>2
  <2> QED  BY <2>3, Zenon DEF ByLastUse, m
<1>6. ToSet(r) = ToSet(q) \cap T
  <2>1. ToSet(r) = {r[i] : i \in 1..m} /\ ToSet(q) = {q[i] : i \in 1..n}
    BY <1>3 DEF ToSet
  <2>2. \A i \in 1..m : at[i] \in 1..n /\ r[i] = q[at[i]] /\ r[i] \in T
    BY <1>4
  <2>3. ASSUME NEW k \in ToSet(q), k \in T PROVE k \in ToSet(r)
    <3>1. PICK j \in 1..n : q[j] = k
      BY <2>1, <2>3
    <3>2. PICK i \in 1..m : at[i] = j
      BY <1>4, <2>3, <3>1
    <3> QED  BY <2>1, <2>2, <3>1, <3>2
  <2>4. ASSUME NEW k \in ToSet(r) PROVE k \in ToSet(q) /\ k \in T
    BY <2>1, <2>2, <2>4
  <2> QED  BY <2>3, <2>4
<1>7. ASSUME m = n PROVE r = q
  <2>1. \A i \in 1..m : at[i] \in 1..n /\ i <= at[i] /\ m - i <= n - at[i]
    BY <1>4
  <2>2. ASSUME NEW i \in 1..m PROVE at[i] = i
    BY <1>3, <1>7, <2>1
  <2>3. \A i \in 1..m : r[i] = q[i]
    BY <1>4, <2>2
  <2> QED  BY <1>1, <1>3, <1>7, <2>3, SeqEqual DEF m, n, r
<1>8. ASSUME NEW k \in ToSet(q), k \notin T PROVE m < n
  <2>1. \E j \in 1..n : q[j] = k
    BY <1>3 DEF ToSet
  <2> QED  BY <1>4, <1>8, <2>1
<1> QED  BY <1>1, <1>4, <1>5, <1>6, <1>7, <1>8 DEF r, m, n

\* Room is made at the cost of the least recently used.
LEMMA EvictedInTable ==
    ASSUME NEW q \in Seq(Keys), NEW seen \in [Keys -> Nat], ByLastUse(q, seen), Len(q) <= MaxKeys
    PROVE  /\ Evicted(q) \in Seq(Keys) /\ ByLastUse(Evicted(q), seen) /\ Len(Evicted(q)) < MaxKeys
           /\ ToSet(Evicted(q)) \subseteq ToSet(q)
           /\ \A k \in ToSet(q) \ ToSet(Evicted(q)) :
                /\ Len(q) = MaxKeys /\ Len(Evicted(q)) = MaxKeys - 1
                /\ \A j \in ToSet(q) : seen[k] <= seen[j]
<1> DEFINE n == Len(q)
           e == Evicted(q)
           M == MaxKeys
<1>1. n \in Nat /\ DOMAIN q = 1..n /\ M \in Nat /\ M >= 1 /\ n <= M
      /\ \A i \in 1..n : q[i] \in Keys
  BY LenProperties, LimiterNumbers, ElementOfSeq
<1>2. \A i, j \in 1..n : i < j => q[i] # q[j] /\ seen[q[i]] <= seen[q[j]]
  BY Zenon DEF ByLastUse
<1> HIDE DEF n, M
<1>3. CASE n < M
  <2>1. e = q
    BY <1>3, Zenon DEF Evicted, n, M
  <2> HIDE DEF e
  <2> QED  BY <1>3, <2>1 DEF e, n, M
<1>4. CASE ~(n < M)
  <2> DEFINE s == SubSeq(q, 2, n)
             m == Len(s)
  <2>1. n = M /\ n - M + 2 = 2
    BY <1>1, <1>4
  <2>2. e = SubSeq(q, n - M + 2, n)
    BY <1>4, Zenon DEF Evicted, n, M
  <2>3. e = s
    <3> HIDE DEF e
    <3> QED  BY <2>1, <2>2
  <2>4. /\ s \in Seq(Keys) /\ m = n - 1
        /\ \A i \in 1..m : s[i] = q[i + 1]
        /\ DOMAIN s = 1..m
    <3>1. s \in Seq(Keys) /\ m = (IF 2 <= n THEN n - 2 + 1 ELSE 0) /\ \A i \in 1..(n - 2 + 1) : s[i] = q[2 + i - 1]
      <4>1. 2 \in 1..(n + 1) /\ n \in (2 - 1)..Len(q)
        BY <1>1, <2>1 DEF n
      <4>3. \A i \in 2..n : q[i] \in Keys
        BY <1>1
      <4>2. /\ s \in Seq(Keys) /\ m = (IF 2 <= n THEN n - 2 + 1 ELSE 0)
            /\ \A i \in 1..(n - 2 + 1) : s[i] = q[2 + i - 1]
        BY <1>1, <4>1, <4>3, SubSeqProperties DEF n
      <4> QED  BY <4>2
    <3>2. DOMAIN s = 1..m
      BY <3>1, LenProperties
    <3> HIDE DEF s, m
    <3>3. m = n - 1
      BY <1>1, <2>1, <3>1
    <3>4. ASSUME NEW i \in 1..m PROVE s[i] = q[i + 1]
      <4>1. i \in 1..(n - 2 + 1) /\ 2 + i - 1 = i + 1
        BY <1>1, <3>3
      <4> QED  BY <3>1, <4>1
    <3> QED  BY <3>1, <3>2, <3>3, <3>4
  <2> HIDE DEF e, s, m
  <2>5. ByLastUse(s, seen)
    <3>1. \A i \in 1..m : i + 1 \in 1..n
      BY <1>1, <2>4
    <3>2. \A i, j \in 1..m : i < j => i + 1 < j + 1
      BY <1>1, <2>4
    <3>3. ASSUME NEW i \in 1..m, NEW j \in 1..m, i < j PROVE s[i] # s[j] /\ seen[s[i]] <= seen[s[j]]
      <4>1. s[i] = q[i + 1] /\ s[j] = q[j + 1] /\ i + 1 \in 1..n /\ j + 1 \in 1..n /\ i + 1 < j + 1
        BY <2>4, <3>1, <3>2, <3>3
      <4> QED  BY <1>2, <4>1
    <3> QED  BY <3>3, Zenon DEF ByLastUse, m
  <2>6. ToSet(q) = {q[i] : i \in 1..n} /\ ToSet(s) = {s[i] : i \in 1..m}
    BY <1>1, <2>4 DEF ToSet
  <2>7. ToSet(s) \subseteq ToSet(q)
    <3>1. \A i \in 1..m : i + 1 \in 1..n
      BY <1>1, <2>4
    <3> QED  BY <2>4, <2>6, <3>1
  <2>8. ASSUME NEW k \in ToSet(q), k \notin ToSet(s)
        PROVE  \A j \in ToSet(q) : seen[k] <= seen[j]
    <3>1. PICK i \in 1..n : k = q[i]
      BY <2>6
    <3>2. i = 1
      <4>1. ASSUME i - 1 \in 1..m PROVE k \in ToSet(s)
        <5>1. s[i - 1] = q[i - 1 + 1] /\ i - 1 + 1 = i
          BY <2>4, <4>1
        <5> QED  BY <2>6, <3>1, <4>1, <5>1
      <4>2. i = 1 \/ i - 1 \in 1..m
        BY <1>1, <2>4
      <4> QED  BY <2>8, <4>1, <4>2
    <3>3. ASSUME NEW j \in ToSet(q) PROVE seen[k] <= seen[j]
      <4>1. PICK l \in 1..n : j = q[l]
        BY <2>6
      <4>2. seen[j] \in Nat
        BY <1>1, <4>1
      <4> QED  BY <1>2, <3>1, <3>2, <4>1, <4>2
    <3> QED  BY <3>3
  <2> QED  BY <1>1, <2>1, <2>3, <2>4, <2>5, <2>7, <2>8 DEF e, n, m, M
<1> QED  BY <1>3, <1>4

\* A key that was just used goes to the end.
LEMMA UsedLast ==
    ASSUME NEW q \in Seq(Keys), NEW seen \in [Keys -> Nat], ByLastUse(q, seen),
           NEW k \in Keys, k \notin ToSet(q), NEW t \in Nat, \A j \in ToSet(q) : seen[j] <= t
    PROVE  /\ Append(q, k) \in Seq(Keys) /\ Len(Append(q, k)) = Len(q) + 1
           /\ ToSet(Append(q, k)) = ToSet(q) \cup {k}
           /\ ByLastUse(Append(q, k), [seen EXCEPT ![k] = t])
<1> DEFINE r == Append(q, k)
           n == Len(q)
           m == Len(r)
           last == [seen EXCEPT ![k] = t]
<1>1. n \in Nat /\ DOMAIN q = 1..n /\ \A i \in 1..n : q[i] \in Keys
  BY LenProperties, ElementOfSeq
<1>2. /\ r \in Seq(Keys) /\ m = n + 1 /\ r[n + 1] = k
      /\ \A i \in 1..n : r[i] = q[i]
  BY AppendProperties
<1>3. DOMAIN r = 1..m
  BY <1>2, LenProperties
<1>4. last[k] = t /\ \A j \in Keys : j # k => last[j] = seen[j]
  OBVIOUS
<1> HIDE DEF r, n, m, last
<1>5. ToSet(q) = {q[i] : i \in 1..n} /\ ToSet(r) = {r[i] : i \in 1..m}
  BY <1>1, <1>3 DEF ToSet
<1>6. \A i \in 1..m : i = n + 1 \/ i \in 1..n
  BY <1>1, <1>2
<1>7. \A i \in 1..n : i \in 1..m /\ n + 1 \in 1..m
  BY <1>1, <1>2
<1>8. ToSet(r) = ToSet(q) \cup {k}
  <2>1. n + 1 \in 1..m
    BY <1>1, <1>2
  <2> QED  BY <1>2, <1>5, <1>6, <1>7, <2>1
<1>9. ByLastUse(r, last)
  <2>1. \A i, j \in 1..n : i < j => q[i] # q[j] /\ seen[q[i]] <= seen[q[j]]
    BY Zenon DEF ByLastUse, n
  <2>2. \A i \in 1..n : q[i] # k /\ last[q[i]] = seen[q[i]] /\ seen[q[i]] <= t
    BY <1>1, <1>4, <1>5
  <2>3. \A i, j \in 1..m : i < j => i \in 1..n /\ (j = n + 1 \/ j \in 1..n)
    BY <1>1, <1>2
  <2>4. ASSUME NEW i \in 1..m, NEW j \in 1..m, i < j PROVE r[i] # r[j] /\ last[r[i]] <= last[r[j]]
    <3>1. i \in 1..n /\ r[i] = q[i]
      BY <1>2, <2>3, <2>4
    <3>2. CASE j = n + 1
      BY <1>2, <1>4, <2>2, <3>1, <3>2
    <3>3. CASE j \in 1..n
      <4>1. r[j] = q[j] /\ last[r[i]] = seen[q[i]] /\ last[r[j]] = seen[q[j]]
        BY <1>2, <2>2, <3>1, <3>3
      <4> QED  BY <2>1, <2>4, <3>1, <3>3, <4>1
    <3> QED  BY <2>3, <2>4, <3>2, <3>3
  <2> QED  BY <2>4, Zenon DEF ByLastUse, m
<1> QED  BY <1>2, <1>8, <1>9 DEF r, n, m, last

-----------------------------------------------------------------------------
(* The quota of one key *)

\* What the requests let through, g, owe to a window that began at s with c of them, the last
\* use of the key at u, its limit l, and the time t.
Fits(g, s, c, u, l, t) ==
    /\ Len(g) <= l - 1 + c
    /\ \A i \in 1..Len(g) : t - Window < g[i] /\ g[i] <= u /\ (g[i] > s => Len(g) - i + 2 <= c)

\* The first request of a new key.
LEMMA FitsOne ==
    ASSUME NEW l \in Nat, l >= 1, NEW t \in Nat
    PROVE  Fits(<<t>>, t, 1, t, l, t)
<1>1. Len(<<t>>) = 1 /\ \A i \in 1..1 : <<t>>[i] = t
  OBVIOUS
<1>2. Window \in Nat /\ Window >= 1
  BY LimiterNumbers
<1> QED  BY <1>1, <1>2 DEF Fits

\* A refused request is a use too.
LEMMA FitsLater ==
    ASSUME NEW g \in Seq(Nat), NEW s \in Nat, NEW c \in Nat, NEW u \in Nat, NEW l \in Nat, NEW t \in Nat,
           Fits(g, s, c, u, l, t), NEW v \in Nat, u <= v
    PROVE  Fits(g, s, c, v, l, t)
<1> DEFINE n == Len(g)
<1>1. n \in Nat /\ \A i \in 1..n : g[i] \in Nat
  BY LenProperties, ElementOfSeq
<1>2. /\ n <= l - 1 + c
      /\ \A i \in 1..n : t - Window < g[i] /\ g[i] <= u /\ (g[i] > s => n - i + 2 <= c)
  BY Zenon DEF Fits
<1> HIDE DEF n
<1>3. \A i \in 1..n : g[i] <= v
  BY <1>1, <1>2
<1> QED  BY <1>2, <1>3, Zenon DEF Fits, n

\* One more time at the end.
LEMMA OneMore ==
    ASSUME NEW g \in Seq(Nat), NEW t \in Nat
    PROVE  LET q == g \o <<t>> n == Len(g)
           IN  q \in Seq(Nat) /\ n \in Nat /\ Len(q) = n + 1 /\ q[n + 1] = t
               /\ \A i \in 1..n : q[i] = g[i] /\ g[i] \in Nat
<1>1. g \o <<t>> = Append(g, t)
  BY AppendIsConcat
<1>2. Len(g) \in Nat /\ \A i \in 1..Len(g) : g[i] \in Nat
  BY LenProperties, ElementOfSeq
<1>3. /\ Append(g, t) \in Seq(Nat) /\ Len(Append(g, t)) = Len(g) + 1 /\ Append(g, t)[Len(g) + 1] = t
      /\ \A i \in 1..Len(g) : Append(g, t)[i] = g[i]
  BY AppendProperties
<1> QED  BY <1>1, <1>2, <1>3

\* One more in the same window.
LEMMA FitsCount ==
    ASSUME NEW g \in Seq(Nat), NEW s \in Nat, NEW c \in Nat, NEW u \in Nat, NEW l \in Nat, NEW t \in Nat,
           Fits(g, s, c, u, l, t), u <= t, c >= 1
    PROVE  Fits(g \o <<t>>, s, c + 1, t, l, t)
<1> DEFINE n == Len(g)
           q == g \o <<t>>
           w == Window
           m == Len(q)
<1>1. n \in Nat /\ m = n + 1 /\ q[n + 1] = t /\ \A i \in 1..n : q[i] = g[i] /\ g[i] \in Nat
  BY OneMore
<1>2. /\ n <= l - 1 + c
      /\ \A i \in 1..n : t - w < g[i] /\ g[i] <= u /\ (g[i] > s => n - i + 2 <= c)
  BY Zenon DEF Fits
<1>3. w \in Nat /\ w >= 1
  BY LimiterNumbers
<1> HIDE DEF n, q, w, m
<1>4. m <= l - 1 + (c + 1)
  BY <1>1, <1>2
<1>5. ASSUME NEW i \in 1..m
      PROVE  t - w < q[i] /\ q[i] <= t /\ (q[i] > s => m - i + 2 <= c + 1)
  <2>1. CASE i = n + 1
    BY <1>1, <1>3, <2>1
  <2>2. CASE i \in 1..n
    <3>1. q[i] = g[i] /\ g[i] \in Nat /\ t - w < g[i] /\ g[i] <= u /\ (g[i] > s => n - i + 2 <= c)
      BY <1>1, <1>2, <2>2
    <3> QED  BY <1>1, <1>3, <2>2, <3>1
  <2> QED  BY <1>1, <2>1, <2>2
<1> QED  BY <1>4, <1>5, Zenon DEF Fits, m, q, w

\* The first of a new window.
LEMMA FitsRenew ==
    ASSUME NEW g \in Seq(Nat), NEW s \in Nat, NEW c \in Nat, NEW u \in Nat, NEW l \in Nat, NEW t \in Nat,
           Fits(g, s, c, u, l, t), u <= t, c <= l, l >= 1, t - s >= Window
    PROVE  Fits(g \o <<t>>, t, 1, t, l, t)
<1> DEFINE n == Len(g)
           q == g \o <<t>>
           w == Window
           m == Len(q)
<1>1. n \in Nat /\ m = n + 1 /\ q[n + 1] = t /\ \A i \in 1..n : q[i] = g[i] /\ g[i] \in Nat
  BY OneMore
<1>2. /\ n <= l - 1 + c
      /\ \A i \in 1..n : t - w < g[i] /\ g[i] <= u /\ (g[i] > s => n - i + 2 <= c)
  BY Zenon DEF Fits
<1>3. w \in Nat /\ w >= 1 /\ t - s >= w
  BY LimiterNumbers
<1> HIDE DEF n, q, w, m
<1>4. m <= l - 1 + 1
  <2>1. CASE n = 0
    BY <1>1, <2>1
  <2>2. CASE n # 0
    <3>1. 1 \in 1..n
      BY <1>1, <2>2
    <3>2. g[1] \in Nat /\ t - w < g[1] /\ (g[1] > s => n - 1 + 2 <= c)
      BY <1>1, <1>2, <3>1
    <3>3. g[1] > s
      BY <1>3, <3>2
    <3> QED  BY <1>1, <3>2, <3>3
  <2> QED  BY <2>1, <2>2
<1>5. ASSUME NEW i \in 1..m
      PROVE  t - w < q[i] /\ q[i] <= t /\ (q[i] > t => m - i + 2 <= 1)
  <2>1. CASE i = n + 1
    BY <1>1, <1>3, <2>1
  <2>2. CASE i \in 1..n
    <3>1. q[i] = g[i] /\ g[i] \in Nat /\ t - w < g[i] /\ g[i] <= u
      BY <1>1, <1>2, <2>2
    <3> QED  BY <1>3, <3>1
  <2> QED  BY <1>1, <2>1, <2>2
<1> QED  BY <1>4, <1>5, Zenon DEF Fits, m, q, w

\* Time passes.
LEMMA FitsTick ==
    ASSUME NEW g \in Seq(Nat), NEW s \in Nat, NEW c \in Nat, NEW u \in Nat, NEW l \in Nat, NEW t \in Nat,
           Fits(g, s, c, u, l, t), NEW v \in Nat
    PROVE  Fits(Only(g, (v - Window + 1)..v), s, c, u, l, v)
<1> DEFINE T == (v - Window + 1)..v
           n == Len(g)
           q == Only(g, T)
           w == Window
           m == Len(q)
<1>1. q \in Seq(Nat) /\ \E at : Selects(q, at, g, T, n)
  BY OnlySelects
<1>2. PICK at : Selects(q, at, g, T, n)
  BY <1>1
<1>3. m \in Nat /\ n \in Nat /\ \A i \in 1..n : g[i] \in Nat
  BY <1>1, LenProperties, ElementOfSeq
<1>4. /\ n <= l - 1 + c
      /\ \A i \in 1..n : t - w < g[i] /\ g[i] <= u /\ (g[i] > s => n - i + 2 <= c)
  BY Zenon DEF Fits
<1>5. w \in Nat
  BY LimiterNumbers
<1> HIDE DEF q
<1>6. /\ at \in [1..m -> 1..n]
      /\ \A i \in 1..m : q[i] = g[at[i]] /\ q[i] \in T /\ m - i <= n - at[i]
      /\ m <= n
  BY <1>2, Zenon DEF Selects, m
<1>7. T = (v - w + 1)..v
  OBVIOUS
<1> HIDE DEF n, w, m, T
<1>8. m <= l - 1 + c
  BY <1>3, <1>4, <1>6
<1>9. ASSUME NEW i \in 1..m
      PROVE  v - w < q[i] /\ q[i] <= u /\ (q[i] > s => m - i + 2 <= c)
  <2> DEFINE j == at[i]
  <2>1. j \in 1..n /\ q[i] = g[j] /\ q[i] \in T /\ m - i <= n - j
    BY <1>6
  <2> HIDE DEF j
  <2>2. g[j] \in Nat /\ g[j] <= u /\ (g[j] > s => n - j + 2 <= c)
    BY <1>3, <1>4, <2>1
  <2> QED  BY <1>3, <1>5, <1>7, <2>1, <2>2
<1> QED  BY <1>8, <1>9, Zenon DEF Fits, m, q, w, T

-----------------------------------------------------------------------------
(* The invariant *)

\* What is in the table, and since when.
LimiterTypes ==
    /\ now \in Nat /\ lastCleanup \in Nat
    /\ order \in Seq(Keys)
    /\ started \in [Keys -> Nat] /\ count \in [Keys -> Nat] /\ lastSeen \in [Keys -> Nat]
    /\ promise \in [Keys -> Nat]
    /\ grants \in [Keys -> Seq(Nat)]

\* The table is never over its size, holds a key once, and has the least recently used first.
TableInOrder == Len(order) <= MaxKeys /\ ByLastUse(order, lastSeen)

\* A window began no later than its key was last used, and has counted within the limit.
WindowsPast ==
    \A k \in Held : started[k] <= lastSeen[k] /\ lastSeen[k] <= now /\ count[k] \in 1..LimitOf[k]

\* Who was told to wait was told to wait past the end of the window.
PromisesLate ==
    \A k \in Held : promise[k] # 0 => promise[k] >= started[k] + Window

\* The window of a key in the table accounts for what was let through in the last interval;
\* for a key that is not there nothing was.
GrantsCounted ==
    \A k \in Keys : IF k \in Held THEN Fits(grants[k], started[k], count[k], lastSeen[k], LimitOf[k], now)
                    ELSE grants[k] = <<>>

LimiterInv == LimiterTypes /\ TableInOrder /\ WindowsPast /\ PromisesLate /\ GrantsCounted

\* The empty table.
LEMMA LimiterStarts == LimiterInit => LimiterInv
<1> SUFFICES ASSUME LimiterInit PROVE LimiterInv
  OBVIOUS
<1>1. <<>> \in Seq(Keys) /\ <<>> \in Seq(Nat) /\ Len(<<>>) = 0 /\ Held = {}
  BY DEF LimiterInit, Held, ToSet
<1>2. LimiterTypes
  BY <1>1, LimiterNumbers DEF LimiterInit, LimiterTypes
<1>3. TableInOrder
  BY <1>1, LimiterNumbers DEF LimiterInit, TableInOrder, ByLastUse
<1>4. WindowsPast /\ PromisesLate /\ GrantsCounted
  BY <1>1 DEF LimiterInit, WindowsPast, PromisesLate, GrantsCounted
<1> QED  BY <1>2, <1>3, <1>4 DEF LimiterInv

\* What the sweep leaves, and what it may drop.
LEMMA SweptInTable ==
    ASSUME LimiterInv
    PROVE  /\ Swept \in Seq(Keys) /\ ByLastUse(Swept, lastSeen) /\ Len(Swept) <= Len(order)
           /\ ToSet(Swept) \subseteq Held /\ Held \subseteq Keys
           /\ Len(Swept) = Len(order) => Swept = order
           /\ \A k \in Held \ ToSet(Swept) : now - lastSeen[k] >= Ttl
<1> DEFINE T == {k \in Held : now - lastSeen[k] < Ttl}
<1>1. /\ order \in Seq(Keys) /\ lastSeen \in [Keys -> Nat] /\ ByLastUse(order, lastSeen) /\ now \in Nat
      /\ Len(order) \in Nat
  BY LenProperties DEF LimiterInv, LimiterTypes, TableInOrder
<1>2. Held = ToSet(order) /\ Held \subseteq Keys
  <2>1. \A i \in DOMAIN order : order[i] \in Keys
    BY <1>1, LenProperties, ElementOfSeq
  <2> QED  BY <2>1 DEF Held, ToSet
<1>3. CASE SweepDue
  <2>1. Swept = Only(order, T)
    BY <1>3, Zenon DEF Swept
  <2> HIDE DEF T
  <2>2. /\ Swept \in Seq(Keys) /\ ByLastUse(Swept, lastSeen) /\ Len(Swept) <= Len(order)
        /\ ToSet(Swept) = Held \cap T
        /\ Len(Swept) = Len(order) => Swept = order
    BY <1>1, <1>2, <2>1, OnlyInTable
  <2>3. Ttl \in Nat
    BY LimiterNumbers
  <2>4. \A k \in Held \ ToSet(Swept) : now - lastSeen[k] >= Ttl
    <3>1. \A k \in Held \ ToSet(Swept) : ~(now - lastSeen[k] < Ttl)
      BY <2>2 DEF T
    <3>2. \A k \in Held : lastSeen[k] \in Nat
      BY <1>1, <1>2
    <3> QED  BY <1>1, <2>3, <3>1, <3>2
  <2> QED  BY <1>2, <2>2, <2>4
<1>4. CASE ~SweepDue
  <2>1. Swept = order
    BY <1>4, Zenon DEF Swept
  <2> QED  BY <1>1, <1>2, <2>1
<1> QED  BY <1>3, <1>4

\* What was let through for a key that is not in the table is forgotten, or longer ago than a window.
LEMMA IdleIsEmpty ==
    ASSUME LimiterInv, NEW k \in Keys, k \notin ToSet(Swept)
    PROVE  grants[k] = <<>>
<1>1. CASE k \notin Held
  BY <1>1 DEF LimiterInv, GrantsCounted
<1>2. CASE k \in Held
  <2> DEFINE g == grants[k]
             n == Len(g)
             u == lastSeen[k]
             w == Window
  <2>1. g \in Seq(Nat) /\ now \in Nat /\ u \in Nat /\ w \in Nat /\ Ttl \in Nat /\ Ttl >= w
    BY LimiterNumbers DEF LimiterInv, LimiterTypes
  <2>2. now - u >= Ttl
    BY <1>2, SweptInTable
  <2>3. Fits(g, started[k], count[k], u, LimitOf[k], now)
    BY <1>2, Zenon DEF LimiterInv, GrantsCounted
  <2>4. n \in Nat /\ \A i \in 1..n : g[i] \in Nat
    BY <2>1, LenProperties, ElementOfSeq
  <2>5. \A i \in 1..n : now - w < g[i] /\ g[i] <= u
    BY <2>3, Zenon DEF Fits
  <2> HIDE DEF g, n, u, w
  <2>6. n = 0
    <3>1. ASSUME n # 0 PROVE FALSE
      <4>1. 1 \in 1..n
        BY <2>4, <3>1
      <4>2. g[1] \in Nat /\ now - w < g[1] /\ g[1] <= u
        BY <2>4, <2>5, <4>1
      <4> QED  BY <2>1, <2>2, <4>2
    <3> QED  BY <3>1
  <2>7. g = <<>>
    BY <2>1, <2>6, EmptySeq DEF n
  <2> QED  BY <2>7 DEF g
<1> QED  BY <1>1, <1>2

\* A use of a key that is in the table.
LEMMA TouchInTable ==
    ASSUME LimiterInv, NEW k \in Keys, Touch(k)
    PROVE  /\ order' \in Seq(Keys) /\ Len(order') <= MaxKeys /\ ByLastUse(order', lastSeen')
           /\ Held' = ToSet(Swept) /\ k \in Held /\ k \in Held' /\ Held' \subseteq Held
           /\ lastSeen' \in [Keys -> Nat] /\ lastSeen'[k] = now
           /\ \A j \in Keys : j # k => lastSeen'[j] = lastSeen[j]
           /\ lastCleanup' \in Nat
<1> DEFINE q == Swept
           r == Only(q, Held \ {k})
<1>1. /\ order \in Seq(Keys) /\ lastSeen \in [Keys -> Nat] /\ now \in Nat /\ lastCleanup \in Nat
      /\ Len(order) \in Nat /\ Len(order) <= MaxKeys
  BY LenProperties DEF LimiterInv, LimiterTypes, TableInOrder
<1>2. /\ q \in Seq(Keys) /\ ByLastUse(q, lastSeen) /\ Len(q) <= Len(order) /\ ToSet(q) \subseteq Held
      /\ Held \subseteq Keys
  BY SweptInTable
<1>3. k \in ToSet(q) /\ order' = Append(r, k) /\ lastSeen' = [lastSeen EXCEPT ![k] = now]
      /\ lastCleanup' \in {lastCleanup, now}
  BY DEF Touch, Sweep
<1> HIDE DEF q
<1>4. /\ r \in Seq(Keys) /\ ByLastUse(r, lastSeen) /\ Len(r) < Len(q) /\ ToSet(r) = ToSet(q) \cap (Held \ {k})
  BY <1>1, <1>2, <1>3, OnlyInTable
<1> HIDE DEF r
<1>5. k \notin ToSet(r) /\ \A j \in ToSet(r) : lastSeen[j] <= now
  BY <1>2, <1>4 DEF LimiterInv, WindowsPast
<1>6. /\ order' \in Seq(Keys) /\ Len(order') = Len(r) + 1 /\ ToSet(order') = ToSet(r) \cup {k}
      /\ ByLastUse(order', lastSeen')
  BY <1>1, <1>3, <1>4, <1>5, UsedLast
<1>7. Len(order') <= MaxKeys
  <2> DEFINE a == Len(r)
             b == Len(q)
             d == Len(order)
  <2>1. a \in Nat /\ b \in Nat /\ d \in Nat /\ MaxKeys \in Nat
    BY <1>1, <1>2, <1>4, LenProperties, LimiterNumbers
  <2>2. a < b /\ b <= d /\ d <= MaxKeys /\ Len(order') = a + 1
    BY <1>1, <1>2, <1>4, <1>6
  <2> HIDE DEF a, b, d
  <2> QED  BY <2>1, <2>2
<1>8. Held' = ToSet(q)
  <2>1. Held' = ToSet(order')
    BY DEF Held
  <2> QED  BY <1>2, <1>3, <1>4, <1>6, <2>1
<1> QED  BY <1>1, <1>2, <1>3, <1>6, <1>7, <1>8 DEF q

\* A new key, and whom it takes the place of.
LEMMA NewInTable ==
    ASSUME LimiterInv, NEW k \in Keys, CheckNew(k)
    PROVE  /\ order' \in Seq(Keys) /\ Len(order') <= MaxKeys /\ ByLastUse(order', lastSeen')
           /\ Held' = ToSet(Evicted(Swept)) \cup {k} /\ ToSet(Evicted(Swept)) \subseteq ToSet(Swept)
           /\ k \notin ToSet(Evicted(Swept))
           /\ \A j \in ToSet(Swept) \ ToSet(Evicted(Swept)) :
                /\ Len(order) = MaxKeys /\ Len(order') = MaxKeys /\ Swept = order
                /\ \A i \in Held : lastSeen[j] <= lastSeen[i]
<1> DEFINE q == Swept
           r == Evicted(q)
           d == Len(order)
           n == Len(q)
           m == Len(r)
           M == MaxKeys
<1>1. /\ order \in Seq(Keys) /\ lastSeen \in [Keys -> Nat] /\ now \in Nat
      /\ d \in Nat /\ d <= M
  BY LenProperties DEF LimiterInv, LimiterTypes, TableInOrder
<1>2. /\ q \in Seq(Keys) /\ ByLastUse(q, lastSeen) /\ n <= d /\ ToSet(q) \subseteq Held
      /\ Held \subseteq Keys /\ (n = d => q = order)
  BY SweptInTable
<1>3. k \notin ToSet(q) /\ order' = Append(r, k) /\ lastSeen' = [lastSeen EXCEPT ![k] = now]
  BY DEF CheckNew
<1>4. n \in Nat /\ M \in Nat
  BY <1>2, LenProperties, LimiterNumbers
<1> HIDE DEF q
<1>5. n <= M
  <2> HIDE DEF n, d, M
  <2> QED  BY <1>1, <1>2, <1>4
<1>6. /\ r \in Seq(Keys) /\ ByLastUse(r, lastSeen) /\ m < M /\ ToSet(r) \subseteq ToSet(q)
      /\ \A j \in ToSet(q) \ ToSet(r) : n = M /\ m = M - 1 /\ \A i \in ToSet(q) : lastSeen[j] <= lastSeen[i]
  BY <1>1, <1>2, <1>5, EvictedInTable
<1> HIDE DEF r
<1>7. m \in Nat
  BY <1>6, LenProperties
<1>8. k \notin ToSet(r) /\ \A j \in ToSet(r) : lastSeen[j] <= now
  BY <1>2, <1>3, <1>6 DEF LimiterInv, WindowsPast
<1>9. /\ order' \in Seq(Keys) /\ Len(order') = m + 1 /\ ToSet(order') = ToSet(r) \cup {k}
      /\ ByLastUse(order', lastSeen')
  BY <1>1, <1>3, <1>6, <1>8, UsedLast
<1> HIDE DEF n, m, d, M
<1>10. Len(order') <= M
  BY <1>4, <1>6, <1>7, <1>9
<1>11. ASSUME NEW j \in ToSet(q) \ ToSet(r)
       PROVE  d = M /\ Len(order') = M /\ q = order /\ \A i \in Held : lastSeen[j] <= lastSeen[i]
  <2>1. n = M /\ m = M - 1
    BY <1>6
  <2>2. d = M /\ Len(order') = M /\ n = d
    BY <1>1, <1>2, <1>4, <1>9, <2>1
  <2>3. q = order
    BY <1>2, <2>2
  <2> QED  BY <1>6, <2>2, <2>3 DEF Held
<1>12. Held' = ToSet(r) \cup {k}
  BY <1>9 DEF Held
<1> QED  BY <1>6, <1>8, <1>9, <1>10, <1>11, <1>12 DEF q, r, d, M

-----------------------------------------------------------------------------
(* The steps *)

\* A key without a bucket gets one.
LEMMA NewStep ==
    ASSUME LimiterInv, NEW k \in Keys, CheckNew(k)
    PROVE  LimiterInv'
<1> DEFINE kept == ToSet(Evicted(Swept))
           evicted == Held \ (kept \cup (Held \ ToSet(Swept)))
<1>1. LimiterTypes /\ WindowsPast /\ PromisesLate /\ GrantsCounted /\ now' = now
  BY DEF LimiterInv, CheckNew
<1>2. /\ Swept \in Seq(Keys) /\ ToSet(Swept) \subseteq Held /\ Held \subseteq Keys
      /\ kept \subseteq ToSet(Swept) /\ Held' = kept \cup {k} /\ k \notin kept /\ k \notin ToSet(Swept)
      /\ order' \in Seq(Keys) /\ Len(order') <= MaxKeys /\ ByLastUse(order', lastSeen')
  BY SweptInTable, NewInTable DEF CheckNew
<1>3. /\ started' = [started EXCEPT ![k] = now] /\ count' = [count EXCEPT ![k] = 1]
      /\ lastSeen' = [lastSeen EXCEPT ![k] = now] /\ lastCleanup' \in {now, lastCleanup}
      /\ promise' = [j \in Keys |-> IF j \in evicted \/ j \in {k} THEN 0 ELSE promise[j]]
      /\ grants' = [j \in Keys |-> (IF j \in evicted THEN <<>> ELSE grants[j])
                                      \o (IF j \in {k} THEN <<now>> ELSE <<>>)]
  BY Zenon DEF CheckNew, Sweep, Remember
<1> HIDE DEF kept
<1>4. evicted = ToSet(Swept) \ kept /\ k \notin evicted
  BY <1>2
<1> HIDE DEF evicted
<1>5. grants[k] = <<>>
  BY <1>2, IdleIsEmpty
<1>6. /\ <<now>> \in Seq(Nat) /\ <<>> \in Seq(Nat) /\ <<>> \o <<now>> = <<now>> /\ <<>> \o <<>> = <<>>
      /\ \A g \in Seq(Nat) : g \o <<>> = g
  BY <1>1, ConcatEmptySeq DEF LimiterTypes
<1>7. /\ grants'[k] = <<now>>
      /\ \A j \in Keys : j # k => grants'[j] = IF j \in evicted THEN <<>> ELSE grants[j]
  <2>1. \A j \in Keys : grants[j] \in Seq(Nat)
    BY <1>1 DEF LimiterTypes
  <2>2. grants'[k] = <<>> \o <<now>>
    BY <1>3, <1>4, <1>5
  <2>3. ASSUME NEW j \in Keys, j # k
        PROVE  grants'[j] = IF j \in evicted THEN <<>> ELSE grants[j]
    <3>1. grants'[j] = (IF j \in evicted THEN <<>> ELSE grants[j]) \o <<>>
      BY <1>3, <2>3
    <3>2. (IF j \in evicted THEN <<>> ELSE grants[j]) \in Seq(Nat)
      BY <1>6, <2>1
    <3> QED  BY <1>6, <3>1, <3>2
  <2> QED  BY <1>6, <2>2, <2>3
<1>8. LimiterTypes'
  <2>1. grants' \in [Keys -> Seq(Nat)]
    <3>1. ASSUME NEW j \in Keys PROVE grants'[j] \in Seq(Nat)
      BY <1>1, <1>6, <1>7 DEF LimiterTypes
    <3> QED  BY <1>3, <3>1
  <2>2. promise' \in [Keys -> Nat]
    BY <1>1, <1>3 DEF LimiterTypes
  <2>3. /\ started' \in [Keys -> Nat] /\ count' \in [Keys -> Nat] /\ lastSeen' \in [Keys -> Nat]
        /\ lastCleanup' \in Nat /\ now' \in Nat
    BY <1>1, <1>3 DEF LimiterTypes
  <2> QED  BY <1>2, <2>1, <2>2, <2>3 DEF LimiterTypes
<1>9. TableInOrder'
  BY <1>2 DEF TableInOrder
<1>10. /\ started'[k] = now /\ count'[k] = 1 /\ lastSeen'[k] = now /\ promise'[k] = 0
       /\ \A j \in Keys : j # k => /\ started'[j] = started[j] /\ count'[j] = count[j] /\ lastSeen'[j] = lastSeen[j]
                                   /\ promise'[j] \in {0, promise[j]}
  BY <1>1, <1>3 DEF LimiterTypes
<1>11. \A j \in Keys : (j \in kept => j \in Held /\ j # k /\ j \notin evicted)
                       /\ (j \in Held' <=> j = k \/ j \in kept)
  BY <1>2, <1>4
<1>12. LimitOf[k] \in Nat /\ LimitOf[k] >= 1 /\ now \in Nat
  BY <1>1, LimiterNumbers DEF LimiterTypes
<1>13. WindowsPast'
  <2>1. ASSUME NEW j \in Held'
        PROVE  started'[j] <= lastSeen'[j] /\ lastSeen'[j] <= now' /\ count'[j] \in 1..LimitOf[j]
    <3>1. CASE j = k
      BY <1>1, <1>10, <1>12, <3>1
    <3>2. CASE j # k
      <4>1. j \in Held /\ j \in Keys
        BY <1>2, <1>11, <2>1, <3>2
      <4> QED  BY <1>1, <1>10, <3>2, <4>1 DEF WindowsPast
    <3> QED  BY <3>1, <3>2
  <2> QED  BY <2>1 DEF WindowsPast
<1>14. PromisesLate'
  <2>1. ASSUME NEW j \in Held', promise'[j] # 0 PROVE promise'[j] >= started'[j] + Window
    <3>1. j # k
      BY <1>10, <2>1
    <3>2. j \in Held /\ j \in Keys
      BY <1>2, <1>11, <2>1, <3>1
    <3> QED  BY <1>1, <1>10, <2>1, <3>1, <3>2 DEF PromisesLate
  <2>2. Window' = Window
    BY DEF Window
  <2> QED  BY <2>1, <2>2 DEF PromisesLate
<1>15. GrantsCounted'
  <2>1. ASSUME NEW j \in Keys
        PROVE  IF j \in Held' THEN Fits(grants'[j], started'[j], count'[j], lastSeen'[j], LimitOf[j], now)
               ELSE grants'[j] = <<>>
    <3>1. CASE j = k
      <4>1. Fits(<<now>>, now, 1, now, LimitOf[k], now)
        BY <1>12, FitsOne
      <4> QED  BY <1>2, <1>7, <1>10, <3>1, <4>1
    <3>2. CASE j \in kept
      <4>1. j # k /\ j \in Held /\ j \in Held' /\ j \notin evicted
        BY <1>11, <3>2
      <4>2. Fits(grants[j], started[j], count[j], lastSeen[j], LimitOf[j], now)
        BY <1>1, <4>1, Zenon DEF GrantsCounted
      <4> QED  BY <1>7, <1>10, <4>1, <4>2
    <3>3. CASE j # k /\ j \notin kept
      <4>1. j \notin Held'
        BY <1>11, <3>3
      <4>2. j \notin evicted => j \notin ToSet(Swept)
        BY <1>4, <3>3
      <4> QED  BY <1>7, <3>3, <4>1, <4>2, IdleIsEmpty
    <3> QED  BY <3>1, <3>2, <3>3
  <2> QED  BY <1>1, <2>1, Zenon DEF GrantsCounted
<1> QED  BY <1>8, <1>9, <1>13, <1>14, <1>15 DEF LimiterInv

\* A request let through for a key of the table: its window, first or not, fits what went before.
LEMMA CountedStep ==
    ASSUME LimiterInv, NEW k \in Keys, Touch(k), Remember({k}, Held), now' = now,
           NEW s \in Nat, NEW c \in 1..LimitOf[k], s <= now,
           started' = [started EXCEPT ![k] = s], count' = [count EXCEPT ![k] = c],
           Fits(grants[k] \o <<now>>, s, c, now, LimitOf[k], now)
    PROVE  LimiterInv'
<1>1. LimiterTypes /\ WindowsPast /\ PromisesLate /\ GrantsCounted
  BY DEF LimiterInv
<1>2. /\ order' \in Seq(Keys) /\ Len(order') <= MaxKeys /\ ByLastUse(order', lastSeen')
      /\ Held' = ToSet(Swept) /\ k \in Held /\ k \in Held' /\ Held' \subseteq Held
      /\ lastSeen' \in [Keys -> Nat] /\ lastSeen'[k] = now
      /\ \A j \in Keys : j # k => lastSeen'[j] = lastSeen[j]
      /\ lastCleanup' \in Nat
  BY TouchInTable
<1>3. /\ promise' = [j \in Keys |-> IF j \in {k} THEN 0 ELSE promise[j]]
      /\ grants' = [j \in Keys |-> grants[j] \o (IF j \in {k} THEN <<now>> ELSE <<>>)]
  BY DEF Remember
<1>4. now \in Nat /\ grants \in [Keys -> Seq(Nat)] /\ Held \subseteq Keys
  BY <1>1, SweptInTable DEF LimiterTypes
<1>5. /\ grants'[k] = grants[k] \o <<now>> /\ grants'[k] \in Seq(Nat)
      /\ \A j \in Keys : j # k => grants'[j] = grants[j]
  <2>1. \A g \in Seq(Nat) : g \o <<>> = g
    BY ConcatEmptySeq
  <2>2. grants[k] \o <<now>> \in Seq(Nat)
    BY <1>4, OneMore
  <2>3. ASSUME NEW j \in Keys, j # k PROVE grants'[j] = grants[j]
    <3>1. grants'[j] = grants[j] \o <<>> /\ grants[j] \in Seq(Nat)
      BY <1>3, <1>4, <2>3
    <3> QED  BY <2>1, <3>1
  <2> QED  BY <1>3, <2>2, <2>3
<1>6. /\ started'[k] = s /\ count'[k] = c /\ promise'[k] = 0
      /\ \A j \in Keys : j # k => started'[j] = started[j] /\ count'[j] = count[j] /\ promise'[j] = promise[j]
  BY <1>1, <1>3 DEF LimiterTypes
<1>7. LimiterTypes'
  <2>1. grants' \in [Keys -> Seq(Nat)]
    BY <1>3, <1>4, <1>5
  <2>2. c \in Nat /\ promise' \in [Keys -> Nat]
    BY <1>1, <1>3, LimiterNumbers DEF LimiterTypes
  <2>3. started' \in [Keys -> Nat] /\ count' \in [Keys -> Nat]
    BY <1>1, <2>2 DEF LimiterTypes
  <2> QED  BY <1>2, <1>4, <2>1, <2>2, <2>3 DEF LimiterTypes
<1>8. TableInOrder'
  BY <1>2 DEF TableInOrder
<1>9. WindowsPast'
  <2>1. ASSUME NEW j \in Held'
        PROVE  started'[j] <= lastSeen'[j] /\ lastSeen'[j] <= now' /\ count'[j] \in 1..LimitOf[j]
    <3>1. CASE j = k
      BY <1>2, <1>4, <1>6, <3>1
    <3>2. CASE j # k
      <4>1. j \in Held /\ j \in Keys
        BY <1>2, <1>4, <2>1
      <4> QED  BY <1>1, <1>2, <1>6, <3>2, <4>1 DEF WindowsPast
    <3> QED  BY <3>1, <3>2
  <2> QED  BY <2>1 DEF WindowsPast
<1>10. PromisesLate'
  <2>1. ASSUME NEW j \in Held', promise'[j] # 0 PROVE promise'[j] >= started'[j] + Window
    <3>1. j # k /\ j \in Held /\ j \in Keys
      BY <1>2, <1>4, <1>6, <2>1
    <3> QED  BY <1>1, <1>6, <2>1, <3>1 DEF PromisesLate
  <2>2. Window' = Window
    BY DEF Window
  <2> QED  BY <2>1, <2>2 DEF PromisesLate
<1>11. GrantsCounted'
  <2>1. ASSUME NEW j \in Keys
        PROVE  IF j \in Held' THEN Fits(grants'[j], started'[j], count'[j], lastSeen'[j], LimitOf[j], now)
               ELSE grants'[j] = <<>>
    <3>1. CASE j = k
      BY <1>2, <1>5, <1>6, <3>1
    <3>2. CASE j # k /\ j \in Held'
      <4>1. Fits(grants[j], started[j], count[j], lastSeen[j], LimitOf[j], now)
        BY <1>1, <1>2, <3>2 DEF GrantsCounted
      <4> QED  BY <1>2, <1>5, <1>6, <3>2, <4>1
    <3>3. CASE j # k /\ j \notin Held'
      <4>1. grants[j] = <<>>
        BY <1>2, <3>3, IdleIsEmpty
      <4> QED  BY <1>5, <3>3, <4>1
    <3> QED  BY <3>1, <3>2, <3>3
  <2> QED  BY <2>1, Zenon DEF GrantsCounted
<1> QED  BY <1>7, <1>8, <1>9, <1>10, <1>11 DEF LimiterInv

\* What the invariant says of one key of the table.
LEMMA HeldFacts ==
    ASSUME LimiterInv, NEW k \in Held
    PROVE  /\ k \in Keys /\ grants[k] \in Seq(Nat) /\ now \in Nat /\ started[k] \in Nat /\ count[k] \in Nat
           /\ lastSeen[k] \in Nat /\ promise[k] \in Nat /\ LimitOf[k] \in Nat /\ LimitOf[k] >= 1
           /\ started[k] <= lastSeen[k] /\ lastSeen[k] <= now /\ count[k] >= 1 /\ count[k] <= LimitOf[k]
           /\ promise[k] # 0 => promise[k] >= started[k] + Window
           /\ Fits(grants[k], started[k], count[k], lastSeen[k], LimitOf[k], now)
<1>1. k \in Keys
  BY SweptInTable
<1>2. /\ grants[k] \in Seq(Nat) /\ now \in Nat /\ started[k] \in Nat /\ count[k] \in Nat
      /\ lastSeen[k] \in Nat /\ promise[k] \in Nat
  BY <1>1 DEF LimiterInv, LimiterTypes
<1>3. LimitOf[k] \in Nat /\ LimitOf[k] >= 1
  BY <1>1, LimiterNumbers
<1>4. started[k] <= lastSeen[k] /\ lastSeen[k] <= now /\ count[k] \in 1..LimitOf[k]
  BY DEF LimiterInv, WindowsPast
<1>5. promise[k] # 0 => promise[k] >= started[k] + Window
  BY DEF LimiterInv, PromisesLate
<1>6. Fits(grants[k], started[k], count[k], lastSeen[k], LimitOf[k], now)
  BY <1>1, Zenon DEF LimiterInv, GrantsCounted
<1> QED  BY <1>1, <1>2, <1>3, <1>4, <1>5, <1>6

\* A new window.
LEMMA RenewStep ==
    ASSUME LimiterInv, NEW k \in Keys, CheckRenew(k)
    PROVE  LimiterInv'
<1>1. /\ Touch(k) /\ Elapsed(k) >= Window /\ started' = [started EXCEPT ![k] = now]
      /\ count' = [count EXCEPT ![k] = 1] /\ Remember({k}, Held) /\ now' = now
  BY DEF CheckRenew
<1>2. k \in Held
  BY <1>1, TouchInTable
<1>3. Fits(grants[k] \o <<now>>, now, 1, now, LimitOf[k], now)
  BY <1>1, <1>2, HeldFacts, FitsRenew DEF Elapsed
<1>4. now \in Nat /\ 1 \in 1..LimitOf[k] /\ now <= now
  BY <1>2, HeldFacts
<1> QED  BY <1>1, <1>3, <1>4, CountedStep

\* One more in the window.
LEMMA CountStep ==
    ASSUME LimiterInv, NEW k \in Keys, CheckCount(k)
    PROVE  LimiterInv'
<1>1. /\ Touch(k) /\ count[k] < LimitOf[k] /\ UNCHANGED <<now, started>>
      /\ count' = [count EXCEPT ![k] = count[k] + 1] /\ Remember({k}, Held)
  BY DEF CheckCount
<1>2. k \in Held
  BY <1>1, TouchInTable
<1>3. Fits(grants[k] \o <<now>>, started[k], count[k] + 1, now, LimitOf[k], now)
  BY <1>2, HeldFacts, FitsCount
<1>4. started[k] \in Nat /\ count[k] + 1 \in 1..LimitOf[k] /\ started[k] <= now
  BY <1>1, <1>2, HeldFacts
<1>5. started' = [started EXCEPT ![k] = started[k]]
  BY <1>1 DEF LimiterInv, LimiterTypes
<1> QED  BY <1>1, <1>3, <1>4, <1>5, CountedStep

\* A refusal moves the key to the end of the table and promises an end of its window.
LEMMA RefuseStep ==
    ASSUME LimiterInv, NEW k \in Keys, CheckRefuse(k)
    PROVE  LimiterInv'
<1> DEFINE wait == RetryAfter(Elapsed(k)) * TicksPerSecond
<1>1. /\ Touch(k) /\ Elapsed(k) < Window /\ promise' = [promise EXCEPT ![k] = now + wait]
      /\ UNCHANGED <<now, started, count, grants>>
  BY DEF CheckRefuse
<1>2. /\ order' \in Seq(Keys) /\ Len(order') <= MaxKeys /\ ByLastUse(order', lastSeen')
      /\ Held' = ToSet(Swept) /\ k \in Held /\ k \in Held' /\ Held' \subseteq Held
      /\ lastSeen' \in [Keys -> Nat] /\ lastSeen'[k] = now
      /\ \A j \in Keys : j # k => lastSeen'[j] = lastSeen[j]
      /\ lastCleanup' \in Nat
  BY <1>1, TouchInTable
<1>3. wait \in Nat /\ now + wait >= started[k] + Window
  <2> DEFINE e == Elapsed(k)
             w == Window
  <2>1. e \in Nat /\ e < w /\ w \in Nat /\ now \in Nat /\ started[k] \in Nat /\ e = now - started[k]
    BY <1>1, <1>2, HeldFacts, LimiterNumbers DEF Elapsed
  <2>2. wait \in Nat /\ e + wait >= w
    BY <2>1, WaitIsEnough
  <2> HIDE DEF wait, e, w
  <2>3. now + wait >= started[k] + w
    BY <2>1, <2>2
  <2> QED  BY <2>2, <2>3 DEF w
<1> HIDE DEF wait
<1>4. /\ promise'[k] = now + wait /\ \A j \in Keys : j # k => promise'[j] = promise[j]
      /\ promise' \in [Keys -> Nat]
  BY <1>1, <1>3 DEF LimiterInv, LimiterTypes
<1>5. LimiterTypes'
  BY <1>1, <1>2, <1>4 DEF LimiterInv, LimiterTypes
<1>6. TableInOrder'
  BY <1>2 DEF TableInOrder
<1>7. WindowsPast'
  <2>1. ASSUME NEW j \in Held'
        PROVE  started[j] <= lastSeen'[j] /\ lastSeen'[j] <= now /\ count[j] \in 1..LimitOf[j]
    <3>1. j \in Held /\ j \in Keys
      BY <1>2, HeldFacts
    <3>2. started[j] <= lastSeen[j] /\ lastSeen[j] <= now /\ count[j] \in 1..LimitOf[j]
      BY <3>1 DEF LimiterInv, WindowsPast
    <3>3. started[j] \in Nat /\ lastSeen[j] \in Nat /\ now \in Nat
      BY <3>1, HeldFacts
    <3>4. lastSeen'[j] \in {now, lastSeen[j]}
      BY <1>2, <3>1
    <3> QED  BY <3>2, <3>3, <3>4
  <2> QED  BY <1>1, <2>1 DEF WindowsPast
<1>8. PromisesLate'
  <2>1. ASSUME NEW j \in Held', promise'[j] # 0 PROVE promise'[j] >= started[j] + Window
    <3>1. j \in Held /\ j \in Keys
      BY <1>2, HeldFacts
    <3>2. CASE j = k
      BY <1>3, <1>4, <3>2
    <3>3. CASE j # k
      BY <1>4, <2>1, <3>1, <3>3, HeldFacts
    <3> QED  BY <3>2, <3>3
  <2>2. Window' = Window
    BY DEF Window
  <2> QED  BY <1>1, <2>1, <2>2 DEF PromisesLate
<1>9. GrantsCounted'
  <2>1. ASSUME NEW j \in Keys
        PROVE  IF j \in Held' THEN Fits(grants[j], started[j], count[j], lastSeen'[j], LimitOf[j], now)
               ELSE grants[j] = <<>>
    <3>1. CASE j \in Held'
      <4>1. j \in Held
        BY <1>2, <3>1
      <4>2. lastSeen'[j] \in Nat /\ lastSeen[j] <= lastSeen'[j]
        <5>1. lastSeen'[j] \in {now, lastSeen[j]}
          BY <1>2
        <5> QED  BY <4>1, <5>1, HeldFacts
      <4>3. Fits(grants[j], started[j], count[j], lastSeen'[j], LimitOf[j], now)
        BY <4>1, <4>2, HeldFacts, FitsLater
      <4> QED  BY <3>1, <4>3
    <3>2. CASE j \notin Held'
      BY <1>2, <3>2, IdleIsEmpty
    <3> QED  BY <3>1, <3>2
  <2> QED  BY <1>1, <2>1, Zenon DEF GrantsCounted
<1> QED  BY <1>5, <1>6, <1>7, <1>8, <1>9 DEF LimiterInv

\* Time passes: only what was let through grows old.
LEMMA TickStep ==
    ASSUME LimiterInv, Tick
    PROVE  LimiterInv'
<1>1. /\ now' = now + 1 /\ UNCHANGED <<order, started, count, lastSeen, lastCleanup, promise>>
      /\ grants' = [k \in Keys |-> Only(grants[k], (now' - Window + 1)..now')]
  BY DEF Tick, buckets
<1>2. now \in Nat /\ now' \in Nat /\ grants \in [Keys -> Seq(Nat)] /\ Held' = Held /\ Window' = Window
  BY <1>1 DEF LimiterInv, LimiterTypes, Held, Window
<1>3. ASSUME NEW k \in Keys PROVE grants'[k] \in Seq(Nat)
  <2>1. grants'[k] = Only(grants[k], (now' - Window + 1)..now') /\ grants[k] \in Seq(Nat)
    BY <1>1, <1>2
  <2> QED  BY <2>1, OnlySelects
<1>4. LimiterTypes'
  BY <1>1, <1>2, <1>3 DEF LimiterInv, LimiterTypes
<1>5. TableInOrder' /\ PromisesLate'
  BY <1>1, <1>2 DEF LimiterInv, TableInOrder, PromisesLate
<1>6. WindowsPast'
  <2>1. \A k \in Held : started[k] <= lastSeen[k] /\ lastSeen[k] <= now + 1 /\ count[k] \in 1..LimitOf[k]
    <3>1. ASSUME NEW k \in Held PROVE lastSeen[k] <= now + 1
      BY HeldFacts
    <3> QED  BY <3>1 DEF LimiterInv, WindowsPast
  <2> QED  BY <1>1, <1>2, <2>1 DEF WindowsPast
<1>7. GrantsCounted'
  <2>1. ASSUME NEW k \in Keys
        PROVE  IF k \in Held THEN Fits(grants'[k], started[k], count[k], lastSeen[k], LimitOf[k], now')
               ELSE grants'[k] = <<>>
    <3> DEFINE T == (now' - Window + 1)..now'
    <3>1. grants'[k] = Only(grants[k], T)
      BY <1>1
    <3>2. CASE k \in Held
      <4>1. Fits(Only(grants[k], T), started[k], count[k], lastSeen[k], LimitOf[k], now')
        BY <1>2, <3>2, HeldFacts, FitsTick
      <4> HIDE DEF T
      <4> QED  BY <3>1, <3>2, <4>1
    <3>3. CASE k \notin Held
      <4>1. grants[k] = <<>>
        BY <3>3 DEF LimiterInv, GrantsCounted
      <4> HIDE DEF T
      <4>2. Only(<<>>, T) \in Seq(Nat) /\ \E at : Selects(Only(<<>>, T), at, <<>>, T, Len(<<>>))
        <5>1. <<>> \in Seq(Nat)
          OBVIOUS
        <5> QED  BY <5>1, OnlySelects
      <4>3. Len(Only(<<>>, T)) = 0
        <5> DEFINE m == Len(Only(<<>>, T))
        <5>1. m \in Nat
          BY <4>2, LenProperties
        <5>2. \E at : Selects(Only(<<>>, T), at, <<>>, T, 0)
          <6>1. Len(<<>>) = 0
            OBVIOUS
          <6> QED  BY <4>2, <6>1
        <5>3. m <= 0
          BY <5>2, Zenon DEF Selects
        <5> HIDE DEF m
        <5>4. m = 0
          BY <5>1, <5>3
        <5> QED  BY <5>4 DEF m
      <4>4. Only(<<>>, T) = <<>>
        BY <4>2, <4>3, EmptySeq
      <4> QED  BY <3>1, <3>3, <4>1, <4>4
    <3> QED  BY <3>2, <3>3
  <2> QED  BY <1>1, <1>2, <2>1, Zenon DEF GrantsCounted
<1> QED  BY <1>4, <1>5, <1>6, <1>7 DEF LimiterInv

-----------------------------------------------------------------------------
(* What the limiter promises *)

\* check() of BoundedRateLimiter keeps its table bounded, in the order of last use, and its
\* counts in step with what it let through, for every table size, window and sweep interval.
THEOREM LimiterInvariant == LimiterSpec => []LimiterInv
<1>1. LimiterInit => LimiterInv
  BY LimiterStarts
<1>2. LimiterInv /\ [LimiterNext]_limiterVars => LimiterInv'
  <2> SUFFICES ASSUME LimiterInv, [LimiterNext]_limiterVars PROVE LimiterInv'
    OBVIOUS
  <2>1. CASE UNCHANGED limiterVars
    BY <2>1 DEF limiterVars, buckets, LimiterInv, LimiterTypes, TableInOrder, WindowsPast, PromisesLate,
                GrantsCounted, Held
  <2>2. CASE Tick
    BY <2>2, TickStep
  <2>3. ASSUME NEW k \in Keys, Check(k) PROVE LimiterInv'
    BY <2>3, NewStep, RenewStep, RefuseStep, CountStep, Zenon DEF Check
  <2> QED  BY <2>1, <2>2, <2>3 DEF LimiterNext
<1> QED  BY <1>1, <1>2, PTL DEF LimiterSpec

\* However the requests are timed against the windows, the sweeps and the refusals, at most
\* 2 * limit - 1 of a key get through in an interval of one window's length.
THEOREM QuotaHolds == LimiterSpec => []SlidingQuota
<1>1. LimiterInv => SlidingQuota
  <2> SUFFICES ASSUME LimiterInv, NEW k \in Keys PROVE Len(grants[k]) <= 2 * LimitOf[k] - 1
    BY DEF SlidingQuota
  <2>1. CASE k \in Held
    <3> DEFINE n == Len(grants[k])
    <3>1. n <= LimitOf[k] - 1 + count[k]
      BY <2>1, HeldFacts, Zenon DEF Fits
    <3>2. n \in Nat
      BY <2>1, HeldFacts, LenProperties
    <3> HIDE DEF n
    <3>3. n <= 2 * LimitOf[k] - 1
      BY <2>1, <3>1, <3>2, HeldFacts
    <3> QED  BY <3>3 DEF n
  <2>2. CASE k \notin Held
    <3>1. grants[k] = <<>> /\ Len(<<>>) = 0
      BY <2>2 DEF LimiterInv, GrantsCounted
    <3> QED  BY <3>1, LimiterNumbers
  <2> QED  BY <2>1, <2>2
<1> QED  BY <1>1, LimiterInvariant, PTL

\* A refused client that waits as long as Retry-After said finds its window over.
THEOREM PromiseHolds == LimiterSpec => []PromiseKept
<1>1. LimiterInv => PromiseKept
  <2> SUFFICES ASSUME LimiterInv, NEW k \in Held, promise[k] # 0, now >= promise[k]
               PROVE  now - started[k] >= Window
    BY DEF PromiseKept, Elapsed
  <2> DEFINE w == Window
  <2>1. /\ promise[k] \in Nat /\ started[k] \in Nat /\ now \in Nat /\ w \in Nat
        /\ promise[k] >= started[k] + w
    BY HeldFacts, LimiterNumbers
  <2> HIDE DEF w
  <2>2. now - started[k] >= w
    BY <2>1
  <2> QED  BY <2>2 DEF w
<1> QED  BY <1>1, LimiterInvariant, PTL

\* A running window is forgotten only by the eviction from a full table, and then it is the
\* least recently used.
THEOREM EvictionOnlyForgets == LimiterSpec => OnlyEvictionForgets
<1> DEFINE Forgetting ==
             \A k \in Held : k \notin ToSet(order') /\ now - started[k] < Window =>
               /\ Len(order) = MaxKeys /\ Len(order') = MaxKeys
               /\ \A j \in Held : lastSeen[k] <= lastSeen[j]
<1>1. LimiterInv /\ [LimiterNext]_limiterVars => [Forgetting]_limiterVars
  <2> SUFFICES ASSUME LimiterInv, LimiterNext,
                      NEW k \in Held, k \notin ToSet(order'), now - started[k] < Window
               PROVE  /\ Len(order) = MaxKeys /\ Len(order') = MaxKeys
                      /\ \A j \in Held : lastSeen[k] <= lastSeen[j]
    BY Zenon
  <2>1. k \in ToSet(Swept)
    <3>1. k \in ToSet(Swept) \/ now - lastSeen[k] >= Ttl
      BY SweptInTable
    <3>2. ~(now - lastSeen[k] >= Ttl)
      <4> DEFINE w == Window
                 l == Ttl
      <4>1. w \in Nat /\ l \in Nat /\ l >= w
        BY LimiterNumbers
      <4>2. now - started[k] < w
        OBVIOUS
      <4> HIDE DEF w, l
      <4>3. ~(now - lastSeen[k] >= l)
        BY <4>1, <4>2, HeldFacts
      <4> QED  BY <4>3 DEF l
    <3> QED  BY <3>1, <3>2
  <2>2. k \notin Held'
    BY DEF Held
  <2>3. ASSUME Tick PROVE FALSE
    BY <2>2, <2>3 DEF Tick, buckets, Held
  <2>4. ASSUME NEW j \in Keys, Touch(j) PROVE FALSE
    BY <2>1, <2>2, <2>4, TouchInTable
  <2>5. PICK j \in Keys : CheckNew(j)
    BY <2>3, <2>4, Zenon DEF LimiterNext, Check, CheckRenew, CheckRefuse, CheckCount
  <2>6. k \notin ToSet(Evicted(Swept))
    BY <2>2, <2>5, NewInTable
  <2> QED  BY <2>1, <2>5, <2>6, NewInTable
<1> QED  BY <1>1, LimiterInvariant, PTL DEF LimiterSpec, OnlyEvictionForgets
=============================================================================
