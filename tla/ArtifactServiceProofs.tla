------------------------ MODULE ArtifactServiceProofs ------------------------
(***************************************************************************)
(* Proofs about the services for files: the flights of artifact_service.py *)
(* and what it, solid_service.py and openbim_service.py say of the files.  *)
(*                                                                         *)
(* The invariant of SingleFlight ties every _Flight object to the threads  *)
(* that refer to it: an owner's object has its owner's key and is in the   *)
(* table under it until the pop, a waiter's object keeps the key it was    *)
(* made for because objects in use are never made anew, and the event is   *)
(* set only after the outcome was stored.  Audits and comparisons are then *)
(* shown to use the flights as these theorems ask, and since each runs     *)
(* under the key of its request, never to wait for each other in a circle. *)
(*                                                                         *)
(* That of EvidenceDesk says that an answer is the one to what was asked,  *)
(* as far as the workers replied; what an answer says of files, solids and *)
(* building models then follows from these alone.                          *)
(***************************************************************************)
EXTENDS ArtifactFlights, EvidenceDesk, OrderLemmas, FiniteSetTheorems, SequenceTheorems, TLAPS

\* Each thread inside run() owns an object that the table holds under its key.
OwnersRegistered ==
    \A t \in Threads : pc[t] \in Inside =>
        cur[t] # NoFlight /\ keyOf[cur[t]] = key[t] /\ table[key[t]] = cur[t]

\* An entry is stored under the key its object was made for.
TableKeyed == \A k \in Registered : keyOf[table[k]] = k

\* An object whose event is set has an outcome; an owner that has yet to store
\* it or to publish it has not set the event, and one that will pop has.
EventAfterOutcome ==
    /\ \A s \in Slots : event[s] => outcome[s] # "unset"
    /\ \A t \in Threads : pc[t] \in {"publish", "pop"} => outcome[cur[t]] # "unset"
    /\ \A t \in Threads : pc[t] = "pop" => event[cur[t]]

\* Only threads inside run() or waiting refer to an object.
IdleRefersToNothing ==
    \A t \in Threads : pc[t] \in {"idle", "solo"} => cur[t] = NoFlight

IInv ==
    /\ TypeOK
    /\ OwnersRegistered
    /\ TableKeyed
    /\ EventAfterOutcome
    /\ IdleRefersToNothing
    /\ NeverCached
    /\ OneOwnerPerKey
    /\ NoHollowAnswer
    /\ AnswerIsForMyKey
    /\ NoOrphanedWaiter
-----------------------------------------------------------------------------
\* A new owner takes an object nobody refers to.
LEMMA BecomeOwnerStep ==
    ASSUME IInv, NEW t \in Threads, NEW k \in Keys, BecomeOwner(t, k)
    PROVE  IInv'
<1> USE FlightAssumption DEF Outcomes, Inside, Phases, Registered
<1>1. TypeOK'
    BY DEF IInv, BecomeOwner, TypeOK
<1>2. OwnersRegistered'
    BY DEF IInv, BecomeOwner, TypeOK, OwnersRegistered, Referenced
<1>3. TableKeyed'
    BY DEF IInv, BecomeOwner, TypeOK, TableKeyed, Referenced
<1>4. EventAfterOutcome'
    BY DEF IInv, BecomeOwner, TypeOK, EventAfterOutcome, Referenced
<1>5. IdleRefersToNothing'
    BY DEF IInv, BecomeOwner, TypeOK, IdleRefersToNothing
<1>6. NeverCached'
    BY DEF IInv, BecomeOwner, TypeOK, NeverCached
<1>7. OneOwnerPerKey'
    BY DEF IInv, BecomeOwner, TypeOK, OwnersRegistered, OneOwnerPerKey
<1>8. NoHollowAnswer'
    BY DEF IInv, BecomeOwner, TypeOK, NoHollowAnswer
<1>9. AnswerIsForMyKey'
    BY DEF IInv, BecomeOwner, TypeOK, AnswerIsForMyKey, Referenced
<1>10. NoOrphanedWaiter'
    BY DEF IInv, BecomeOwner, TypeOK, NoOrphanedWaiter
<1> QED  BY <1>1, <1>2, <1>3, <1>4, <1>5, <1>6, <1>7, <1>8, <1>9, <1>10 DEF IInv

\* A newcomer joins a flight whose owner is still inside run().
LEMMA JoinStep ==
    ASSUME IInv, NEW t \in Threads, NEW k \in Keys, Join(t, k)
    PROVE  IInv'
<1> USE FlightAssumption DEF Outcomes, Inside, Phases, Registered
<1>1. TypeOK'
    BY DEF IInv, Join, TypeOK
<1>2. OwnersRegistered'
    BY DEF IInv, Join, TypeOK, OwnersRegistered
<1>3. TableKeyed'
    BY DEF IInv, Join, TypeOK, TableKeyed
<1>4. EventAfterOutcome'
    BY DEF IInv, Join, TypeOK, EventAfterOutcome
<1>5. IdleRefersToNothing'
    BY DEF IInv, Join, TypeOK, IdleRefersToNothing
<1>6. NeverCached'
    BY DEF IInv, Join, TypeOK, NeverCached
<1>7. OneOwnerPerKey'
    BY DEF IInv, Join, TypeOK, OneOwnerPerKey
<1>8. NoHollowAnswer'
    BY DEF IInv, Join, TypeOK, NoHollowAnswer
<1>9. AnswerIsForMyKey'
    BY DEF IInv, Join, TypeOK, TableKeyed, AnswerIsForMyKey
<1>10. NoOrphanedWaiter'
    BY DEF IInv, Join, TypeOK, TableKeyed, EventAfterOutcome, IdleRefersToNothing,
           NeverCached, NoOrphanedWaiter
<1> QED  BY <1>1, <1>2, <1>3, <1>4, <1>5, <1>6, <1>7, <1>8, <1>9, <1>10 DEF IInv

\* An unshared run touches no flight.
LEMMA RunAloneStep ==
    ASSUME IInv, NEW t \in Threads, NEW k \in Keys, RunAlone(t, k)
    PROVE  IInv'
<1> USE FlightAssumption DEF Outcomes, Inside, Phases, Registered
<1>1. TypeOK'
    BY DEF IInv, RunAlone, TypeOK
<1>2. OwnersRegistered'
    BY DEF IInv, RunAlone, TypeOK, OwnersRegistered
<1>3. TableKeyed'
    BY DEF IInv, RunAlone, TypeOK, TableKeyed
<1>4. EventAfterOutcome'
    BY DEF IInv, RunAlone, TypeOK, EventAfterOutcome
<1>5. IdleRefersToNothing'
    BY DEF IInv, RunAlone, TypeOK, IdleRefersToNothing
<1>6. NeverCached'
    BY DEF IInv, RunAlone, TypeOK, NeverCached
<1>7. OneOwnerPerKey'
    BY DEF IInv, RunAlone, TypeOK, OneOwnerPerKey
<1>8. NoHollowAnswer'
    BY DEF IInv, RunAlone, TypeOK, NoHollowAnswer
<1>9. AnswerIsForMyKey'
    BY DEF IInv, RunAlone, TypeOK, AnswerIsForMyKey
<1>10. NoOrphanedWaiter'
    BY DEF IInv, RunAlone, TypeOK, NoOrphanedWaiter
<1> QED  BY <1>1, <1>2, <1>3, <1>4, <1>5, <1>6, <1>7, <1>8, <1>9, <1>10 DEF IInv

\* The owner stores the outcome.
LEMMA OperationEndsStep ==
    ASSUME IInv, NEW t \in Threads, NEW o \in Outcomes, OperationEnds(t, o)
    PROVE  IInv'
<1> USE FlightAssumption DEF Outcomes, Inside, Phases, Registered
<1>1. TypeOK'
    BY DEF IInv, OperationEnds, TypeOK
<1>2. OwnersRegistered'
    BY DEF IInv, OperationEnds, TypeOK, OwnersRegistered
<1>3. TableKeyed'
    BY DEF IInv, OperationEnds, TypeOK, TableKeyed
<1>4. EventAfterOutcome'
    BY DEF IInv, OperationEnds, TypeOK, OwnersRegistered, EventAfterOutcome
<1>5. IdleRefersToNothing'
    BY DEF IInv, OperationEnds, TypeOK, IdleRefersToNothing
<1>6. NeverCached'
    BY DEF IInv, OperationEnds, TypeOK, NeverCached
<1>7. OneOwnerPerKey'
    BY DEF IInv, OperationEnds, TypeOK, OneOwnerPerKey
<1>8. NoHollowAnswer'
    BY DEF IInv, OperationEnds, TypeOK, NoHollowAnswer
<1>9. AnswerIsForMyKey'
    BY DEF IInv, OperationEnds, TypeOK, AnswerIsForMyKey
<1>10. NoOrphanedWaiter'
    BY DEF IInv, OperationEnds, TypeOK, NoOrphanedWaiter
<1> QED  BY <1>1, <1>2, <1>3, <1>4, <1>5, <1>6, <1>7, <1>8, <1>9, <1>10 DEF IInv

\* The event is set after the outcome.
LEMMA PublishStep ==
    ASSUME IInv, NEW t \in Threads, Publish(t)
    PROVE  IInv'
<1> USE FlightAssumption DEF Outcomes, Inside, Phases, Registered
<1>1. TypeOK'
    BY DEF IInv, Publish, TypeOK
<1>2. OwnersRegistered'
    BY DEF IInv, Publish, TypeOK, OwnersRegistered
<1>3. TableKeyed'
    BY DEF IInv, Publish, TypeOK, TableKeyed
<1>4. EventAfterOutcome'
    BY DEF IInv, Publish, TypeOK, OwnersRegistered, EventAfterOutcome
<1>5. IdleRefersToNothing'
    BY DEF IInv, Publish, TypeOK, IdleRefersToNothing
<1>6. NeverCached'
    BY DEF IInv, Publish, TypeOK, NeverCached
<1>7. OneOwnerPerKey'
    BY DEF IInv, Publish, TypeOK, OneOwnerPerKey
<1>8. NoHollowAnswer'
    BY DEF IInv, Publish, TypeOK, NoHollowAnswer
<1>9. AnswerIsForMyKey'
    BY DEF IInv, Publish, TypeOK, AnswerIsForMyKey
<1>10. NoOrphanedWaiter'
    BY DEF IInv, Publish, TypeOK, AnswerIsForMyKey, NoOrphanedWaiter
<1> QED  BY <1>1, <1>2, <1>3, <1>4, <1>5, <1>6, <1>7, <1>8, <1>9, <1>10 DEF IInv

\* The owner removes its own entry.
LEMMA PopStep ==
    ASSUME IInv, NEW t \in Threads, Pop(t)
    PROVE  IInv'
<1> USE FlightAssumption DEF Outcomes, Inside, Phases, Registered
<1>1. TypeOK'
    BY DEF IInv, Pop, TypeOK, OwnersRegistered
<1>2. OwnersRegistered'
    BY DEF IInv, Pop, TypeOK, OwnersRegistered, OneOwnerPerKey
<1>3. TableKeyed'
    BY DEF IInv, Pop, TypeOK, TableKeyed
<1>4. EventAfterOutcome'
    BY DEF IInv, Pop, TypeOK, EventAfterOutcome
<1>5. IdleRefersToNothing'
    BY DEF IInv, Pop, TypeOK, IdleRefersToNothing
<1>6. NeverCached'
    BY DEF IInv, Pop, TypeOK, NeverCached
<1>7. OneOwnerPerKey'
    BY DEF IInv, Pop, TypeOK, OneOwnerPerKey
<1>8. NoHollowAnswer'
    BY DEF IInv, Pop, TypeOK, EventAfterOutcome, NoHollowAnswer
<1>9. AnswerIsForMyKey'
    BY DEF IInv, Pop, TypeOK, AnswerIsForMyKey
<1>10. NoOrphanedWaiter'
    BY DEF IInv, Pop, TypeOK, NoOrphanedWaiter
<1> QED  BY <1>1, <1>2, <1>3, <1>4, <1>5, <1>6, <1>7, <1>8, <1>9, <1>10 DEF IInv

\* A waiter reads an outcome that was published.
LEMMA WaiterReturnsStep ==
    ASSUME IInv, NEW t \in Threads, WaiterReturns(t)
    PROVE  IInv'
<1> USE FlightAssumption DEF Outcomes, Inside, Phases, Registered
<1>1. TypeOK'
    BY DEF IInv, WaiterReturns, TypeOK, AnswerIsForMyKey
<1>2. OwnersRegistered'
    BY DEF IInv, WaiterReturns, TypeOK, OwnersRegistered
<1>3. TableKeyed'
    BY DEF IInv, WaiterReturns, TypeOK, TableKeyed
<1>4. EventAfterOutcome'
    BY DEF IInv, WaiterReturns, TypeOK, EventAfterOutcome
<1>5. IdleRefersToNothing'
    BY DEF IInv, WaiterReturns, TypeOK, IdleRefersToNothing
<1>6. NeverCached'
    BY DEF IInv, WaiterReturns, TypeOK, NeverCached
<1>7. OneOwnerPerKey'
    BY DEF IInv, WaiterReturns, TypeOK, OneOwnerPerKey
<1>8. NoHollowAnswer'
    BY DEF IInv, WaiterReturns, TypeOK, EventAfterOutcome, NoHollowAnswer, AnswerIsForMyKey
<1>9. AnswerIsForMyKey'
    BY DEF IInv, WaiterReturns, TypeOK, AnswerIsForMyKey
<1>10. NoOrphanedWaiter'
    BY DEF IInv, WaiterReturns, TypeOK, NoOrphanedWaiter
<1> QED  BY <1>1, <1>2, <1>3, <1>4, <1>5, <1>6, <1>7, <1>8, <1>9, <1>10 DEF IInv

\* A waiter that gives up drops its reference.
LEMMA WaitTimesOutStep ==
    ASSUME IInv, NEW t \in Threads, WaitTimesOut(t)
    PROVE  IInv'
<1> USE FlightAssumption DEF Outcomes, Inside, Phases, Registered
<1>1. TypeOK'
    BY DEF IInv, WaitTimesOut, TypeOK
<1>2. OwnersRegistered'
    BY DEF IInv, WaitTimesOut, TypeOK, OwnersRegistered
<1>3. TableKeyed'
    BY DEF IInv, WaitTimesOut, TypeOK, TableKeyed
<1>4. EventAfterOutcome'
    BY DEF IInv, WaitTimesOut, TypeOK, EventAfterOutcome
<1>5. IdleRefersToNothing'
    BY DEF IInv, WaitTimesOut, TypeOK, IdleRefersToNothing
<1>6. NeverCached'
    BY DEF IInv, WaitTimesOut, TypeOK, NeverCached
<1>7. OneOwnerPerKey'
    BY DEF IInv, WaitTimesOut, TypeOK, OneOwnerPerKey
<1>8. NoHollowAnswer'
    BY DEF IInv, WaitTimesOut, TypeOK, NoHollowAnswer
<1>9. AnswerIsForMyKey'
    BY DEF IInv, WaitTimesOut, TypeOK, AnswerIsForMyKey
<1>10. NoOrphanedWaiter'
    BY DEF IInv, WaitTimesOut, TypeOK, NoOrphanedWaiter
<1> QED  BY <1>1, <1>2, <1>3, <1>4, <1>5, <1>6, <1>7, <1>8, <1>9, <1>10 DEF IInv

\* An unshared run ends.
LEMMA SoloEndsStep ==
    ASSUME IInv, NEW t \in Threads, NEW o \in Outcomes, SoloEnds(t, o)
    PROVE  IInv'
<1> USE FlightAssumption DEF Outcomes, Inside, Phases, Registered
<1>1. TypeOK'
    BY DEF IInv, SoloEnds, TypeOK
<1>2. OwnersRegistered'
    BY DEF IInv, SoloEnds, TypeOK, OwnersRegistered
<1>3. TableKeyed'
    BY DEF IInv, SoloEnds, TypeOK, TableKeyed
<1>4. EventAfterOutcome'
    BY DEF IInv, SoloEnds, TypeOK, EventAfterOutcome
<1>5. IdleRefersToNothing'
    BY DEF IInv, SoloEnds, TypeOK, IdleRefersToNothing
<1>6. NeverCached'
    BY DEF IInv, SoloEnds, TypeOK, NeverCached
<1>7. OneOwnerPerKey'
    BY DEF IInv, SoloEnds, TypeOK, OneOwnerPerKey
<1>8. NoHollowAnswer'
    BY DEF IInv, SoloEnds, TypeOK, NoHollowAnswer
<1>9. AnswerIsForMyKey'
    BY DEF IInv, SoloEnds, TypeOK, AnswerIsForMyKey
<1>10. NoOrphanedWaiter'
    BY DEF IInv, SoloEnds, TypeOK, NoOrphanedWaiter
<1> QED  BY <1>1, <1>2, <1>3, <1>4, <1>5, <1>6, <1>7, <1>8, <1>9, <1>10 DEF IInv

-----------------------------------------------------------------------------
\* The invariant holds initially.
LEMMA InitIInv == Init => IInv
  BY FlightAssumption DEF Init, IInv, Outcomes, Inside, Phases, Registered,
     TypeOK, OwnersRegistered, TableKeyed, EventAfterOutcome, IdleRefersToNothing,
     NeverCached, OneOwnerPerKey, NoHollowAnswer, AnswerIsForMyKey, NoOrphanedWaiter

\* Every step of every thread preserves the invariant.
LEMMA NextIInv == IInv /\ [Next]_flightVars => IInv'
<1> SUFFICES ASSUME IInv, [Next]_flightVars PROVE IInv'
  OBVIOUS
<1>1. CASE UNCHANGED flightVars
  BY <1>1 DEF flightVars, IInv, Outcomes, Inside, Phases, Registered,
     TypeOK, OwnersRegistered, TableKeyed, EventAfterOutcome, IdleRefersToNothing,
     NeverCached, OneOwnerPerKey, NoHollowAnswer, AnswerIsForMyKey, NoOrphanedWaiter
<1>2. ASSUME NEW t \in Threads, Call(t) PROVE IInv'
  BY <1>2, BecomeOwnerStep, JoinStep, RunAloneStep DEF Call
<1>3. ASSUME NEW t \in Threads, Progress(t) PROVE IInv'
  BY <1>3, OperationEndsStep, SoloEndsStep, PublishStep, PopStep, WaiterReturnsStep DEF Progress
<1>4. ASSUME NEW t \in Threads, WaitTimesOut(t) PROVE IInv'
  BY <1>4, WaitTimesOutStep
<1> QED  BY <1>1, <1>2, <1>3, <1>4 DEF Next

\* The invariant holds in every reachable state, for all numbers of threads,
\* keys and flights.
THEOREM FlightInvariant == Spec => []IInv
  BY InitIInv, NextIInv, PTL DEF Spec

\* Every variable of the table, the flights and the threads stays in its type.
THEOREM FlightTypes == Spec => []TypeOK
<1>1. IInv => TypeOK  BY DEF IInv
<1> QED  BY <1>1, FlightInvariant, PTL

\* "completed values are never cached": every entry of the table belongs to a
\* thread inside run() for that key, so no call shares one that ended before it.
THEOREM FlightsNeverCached == Spec => []NeverCached
<1>1. IInv => NeverCached  BY DEF IInv
<1> QED  BY <1>1, FlightInvariant, PTL

\* No two threads run a shared operation for the same key at the same time.
THEOREM FlightsHaveOneOwner == Spec => []OneOwnerPerKey
<1>1. IInv => OneOwnerPerKey  BY DEF IInv
<1> QED  BY <1>1, FlightInvariant, PTL

\* No caller is answered from a flight that has neither result nor error.
THEOREM AnswersAreNotHollow == Spec => []NoHollowAnswer
<1>1. IInv => NoHollowAnswer  BY DEF IInv
<1> QED  BY <1>1, FlightInvariant, PTL

\* The object a waiter reads from is a flight of the waiter's own key.
THEOREM AnswersAreForTheKey == Spec => []AnswerIsForMyKey
<1>1. IInv => AnswerIsForMyKey  BY DEF IInv
<1> QED  BY <1>1, FlightInvariant, PTL

\* A waiter on an event that is not set has an owner that will still set it.
THEOREM WaitersAreNotOrphaned == Spec => []NoOrphanedWaiter
<1>1. IInv => NoOrphanedWaiter  BY DEF IInv
<1> QED  BY <1>1, FlightInvariant, PTL

-----------------------------------------------------------------------------
(* Audits and comparisons *)

\* The audits that a comparison has behind it ended as its flights said, in the order of
\* its files, and none is begun after one that failed.  No other call has audits, and
\* the outer call runs under the key of its request.
AuditsInOrder(w) ==
    /\ audits[w] \in Seq(Outcomes)
    /\ pc[Outer(w)] # "idle" => key[Outer(w)] = FlightKey(request[w])
    /\ Len(audits[w]) > 0 \/ pc[Inner(w)] # "idle" => Comparing(w)
    /\ pc[Inner(w)] # "idle" =>
          /\ Len(audits[w]) < 2 /\ "error" \notin Range(audits[w])
          /\ key[Inner(w)] = FlightKey(<<request[w][Len(audits[w]) + 1]>>)
    /\ pc[Inner(w)] = "idle" /\ Len(audits[w]) > 0 =>
          /\ audits[w][Len(audits[w])] = answer[Inner(w)]
          /\ key[Inner(w)] = FlightKey(<<request[w][Len(audits[w])]>>)

ArtifactInv ==
    /\ IInv
    /\ request \in [Workers -> Requests] /\ DOMAIN audits = Workers
    /\ \A w \in Workers : AuditsInOrder(w)

\* The two frames of every worker are threads of their own.
LEMMA Frames ==
    /\ \A w \in Workers : Outer(w) \in Threads /\ Inner(w) \in Threads
    /\ \A w, v \in Workers : /\ Outer(w) # Inner(v)
                             /\ w # v => Outer(w) # Outer(v) /\ Inner(w) # Inner(v)
BY ArtifactAssumption DEF Outer, Inner

\* A request and the audits of its files have keys.
LEMMA KeysOfRequest ==
    ASSUME NEW r \in Requests
    PROVE  /\ FlightKey(r) \in Keys
           /\ \A n \in DOMAIN r : FlightKey(<<r[n]>>) \in Keys
<1>1. FlightKey(r) \in Keys
  BY ArtifactAssumption
<1>2. ASSUME NEW n \in DOMAIN r PROVE FlightKey(<<r[n]>>) \in Keys
  <2>1. r[n] \in Range(r)
    BY DEF Range
  <2> QED  BY <2>1, ArtifactAssumption
<1> QED  BY <1>1, <1>2

\* What a thread does in run() changes no other thread.
LEMMA OthersUntouched ==
    ASSUME TypeOK, NEW t \in Threads, Call(t) \/ Progress(t) \/ WaitTimesOut(t),
           NEW u \in Threads, u # t
    PROVE  pc'[u] = pc[u] /\ key'[u] = key[u] /\ answer'[u] = answer[u]
<1>1. CASE Call(t)
  BY <1>1 DEF TypeOK, Call, BecomeOwner, Join, RunAlone
<1>2. CASE Progress(t)
  BY <1>2 DEF TypeOK, Progress, OperationEnds, SoloEnds, Publish, Pop, WaiterReturns
<1>3. CASE WaitTimesOut(t)
  BY <1>3 DEF TypeOK, WaitTimesOut
<1> QED  BY <1>1, <1>2, <1>3

\* Every step of a worker is a step of one of its frames.
LEMMA FrameStep ==
    ASSUME ArtifactInv, NEW w \in Workers
    PROVE  /\ \A r \in Requests : Receive(w, r) => Call(Outer(w))
           /\ Audit(w) => Call(Inner(w))
           /\ AuditReturns(w) => Progress(Inner(w))
           /\ \A o \in Outcomes : End(w, o) => Progress(Outer(w))
           /\ Bookkeeping(w) => Progress(Outer(w)) \/ Progress(Inner(w))
           /\ WorkerTimesOut(w) => WaitTimesOut(Outer(w)) \/ WaitTimesOut(Inner(w))
<1>1. ASSUME NEW r \in Requests, Receive(w, r) PROVE Call(Outer(w))
  BY <1>1, KeysOfRequest DEF Receive, Run, Call
<1>2. ASSUME Audit(w) PROVE Call(Inner(w))
  <2>1. request[w] \in Requests /\ Len(request[w]) = 2 /\ Len(audits[w]) + 1 \in 1..2
    <3>1. audits[w] \in Seq(Outcomes) /\ request[w] \in Requests
      BY DEF ArtifactInv, AuditsInOrder
    <3>2. Len(audits[w]) \in Nat
      BY <3>1, LenProperties
    <3>3. Len(request[w]) = 2 /\ Len(audits[w]) < 2
      BY <1>2 DEF Audit, Comparing
    <3>4. \A n \in Nat : n < 2 => n + 1 \in 1..2
      OBVIOUS
    <3> QED  BY <3>1, <3>2, <3>3, <3>4
  <2>2. Len(audits[w]) + 1 \in DOMAIN request[w]
    <3>1. DOMAIN request[w] = 1..Len(request[w])
      BY <2>1, ArtifactAssumption
    <3> QED  BY <2>1, <3>1
  <2> QED  BY <1>2, <2>1, <2>2, KeysOfRequest DEF Audit, Run, Call
<1>3. AuditReturns(w) => Progress(Inner(w))
  BY DEF AuditReturns, Progress
<1>4. \A o \in Outcomes : End(w, o) => Progress(Outer(w))
  BY DEF End, Progress
<1>5. Bookkeeping(w) => Progress(Outer(w)) \/ Progress(Inner(w))
  BY DEF Bookkeeping, Progress
<1>6. WorkerTimesOut(w) => WaitTimesOut(Outer(w)) \/ WaitTimesOut(Inner(w))
  BY DEF WorkerTimesOut
<1> QED  BY <1>1, <1>2, <1>3, <1>4, <1>5, <1>6

\* So a step of the workers is one of the flights.
LEMMA ArtifactStep == ArtifactInv /\ [ArtifactNext]_artifactVars => [Next]_flightVars
<1> SUFFICES ASSUME ArtifactInv, ArtifactNext PROVE Next
  BY DEF artifactVars
<1>1. PICK w \in Workers : (\E r \in Requests : Receive(w, r)) \/ ServeWorker(w) \/ WorkerTimesOut(w)
  BY DEF ArtifactNext
<1>2. \/ Call(Outer(w)) \/ Progress(Outer(w)) \/ WaitTimesOut(Outer(w))
      \/ Call(Inner(w)) \/ Progress(Inner(w)) \/ WaitTimesOut(Inner(w))
  BY <1>1, FrameStep DEF ServeWorker
<1> QED  BY <1>2, Frames DEF Next

\* A step of a worker leaves the audits of the others as they are.
LEMMA OtherWorkers ==
    ASSUME ArtifactInv, NEW w \in Workers, NEW v \in Workers, v # w,
           (\E r \in Requests : Receive(w, r)) \/ ServeWorker(w) \/ WorkerTimesOut(w)
    PROVE  AuditsInOrder(v)'
<1>1. \/ Call(Outer(w)) \/ Progress(Outer(w)) \/ WaitTimesOut(Outer(w))
      \/ Call(Inner(w)) \/ Progress(Inner(w)) \/ WaitTimesOut(Inner(w))
  BY FrameStep DEF ServeWorker
<1>2. /\ pc'[Outer(v)] = pc[Outer(v)] /\ pc'[Inner(v)] = pc[Inner(v)] /\ key'[Outer(v)] = key[Outer(v)]
      /\ key'[Inner(v)] = key[Inner(v)] /\ answer'[Inner(v)] = answer[Inner(v)]
  BY <1>1, Frames, OthersUntouched DEF ArtifactInv, IInv
<1>3. request'[v] = request[v] /\ audits'[v] = audits[v]
  BY DEF ServeWorker, Receive, Audit, AuditReturns, End, Bookkeeping, WorkerTimesOut, ArtifactInv
<1> QED  BY <1>2, <1>3 DEF ArtifactInv, AuditsInOrder, Comparing, Executing

\* What a worker does keeps its audits in order.
LEMMA OwnAudits ==
    ASSUME ArtifactInv, IInv', NEW w \in Workers,
           (\E r \in Requests : Receive(w, r)) \/ ServeWorker(w) \/ WorkerTimesOut(w)
    PROVE  AuditsInOrder(w)'
<1> USE DEF AuditsInOrder, Comparing, Executing
<1>1. /\ TypeOK /\ Outer(w) \in Threads /\ Inner(w) \in Threads /\ Outer(w) # Inner(w)
      /\ AuditsInOrder(w) /\ Len(audits[w]) \in Nat
  BY Frames, LenProperties DEF ArtifactInv, IInv
<1>2. ASSUME NEW r \in Requests, Receive(w, r) PROVE AuditsInOrder(w)'
  <2>1. pc[Outer(w)] = "idle" /\ audits' = audits
    BY <1>2 DEF Receive, Run, BecomeOwner, Join, RunAlone
  <2>2. pc'[Inner(w)] = pc[Inner(w)]
    BY <1>1, <1>2, FrameStep, OthersUntouched
  <2>3. key'[Outer(w)] = FlightKey(r) /\ request'[w] = r
    BY <1>1, <1>2 DEF Receive, Run, BecomeOwner, Join, RunAlone, TypeOK, ArtifactInv
  <2> QED  BY <1>1, <2>1, <2>2, <2>3
<1>3. ASSUME Audit(w) PROVE AuditsInOrder(w)'
  <2>1. /\ pc'[Inner(w)] # "idle" /\ key'[Inner(w)] = FlightKey(<<request[w][Len(audits[w]) + 1]>>)
        /\ audits' = audits /\ request' = request
        /\ Len(audits[w]) < 2 /\ "error" \notin Range(audits[w]) /\ Comparing(w)
    BY <1>1, <1>3 DEF Audit, Run, BecomeOwner, Join, RunAlone, TypeOK
  <2>2. pc'[Outer(w)] = pc[Outer(w)] /\ key'[Outer(w)] = key[Outer(w)]
    BY <1>1, <1>3, FrameStep, OthersUntouched
  <2> QED  BY <1>1, <2>1, <2>2
<1>4. ASSUME AuditReturns(w) PROVE AuditsInOrder(w)'
  <2>1. /\ pc[Inner(w)] # "idle" /\ pc'[Inner(w)] = "idle"
        /\ key' = key /\ request' = request
        /\ audits' = [audits EXCEPT ![w] = Append(@, answer'[Inner(w)])]
    BY <1>1, <1>4 DEF AuditReturns, Pop, WaiterReturns, SoloEnds, TypeOK
  <2>2. answer'[Inner(w)] \in Outcomes
    <3>1. CASE Pop(Inner(w))
      BY <1>1, <3>1 DEF Pop, TypeOK, ArtifactInv, IInv, EventAfterOutcome, OwnersRegistered, Inside
    <3>2. CASE WaiterReturns(Inner(w))
      BY <1>1, <3>2 DEF WaiterReturns, TypeOK, ArtifactInv, IInv, EventAfterOutcome, AnswerIsForMyKey
    <3>3. ASSUME NEW o \in Outcomes, SoloEnds(Inner(w), o) PROVE answer'[Inner(w)] \in Outcomes
      BY <1>1, <3>3 DEF SoloEnds, TypeOK
    <3> QED  BY <1>4, <3>1, <3>2, <3>3 DEF AuditReturns
  <2>3. audits'[w] = Append(audits[w], answer'[Inner(w)])
    BY <2>1 DEF ArtifactInv
  <2>4. /\ audits'[w] \in Seq(Outcomes)
        /\ Len(audits'[w]) = Len(audits[w]) + 1
        /\ audits'[w][Len(audits[w]) + 1] = answer'[Inner(w)]
    BY <1>1, <2>2, <2>3, AppendProperties
  <2>5. pc'[Outer(w)] = pc[Outer(w)]
    BY <1>1, <1>4, FrameStep, OthersUntouched
  <2> QED  BY <1>1, <2>1, <2>4, <2>5
<1>5. ASSUME NEW o \in Outcomes, End(w, o) PROVE AuditsInOrder(w)'
  <2>1. audits'[w] = <<>>
    BY <1>5 DEF End, ArtifactInv
  <2>2. pc[Inner(w)] = "idle"
    <3>1. Over(w, o)
      BY <1>5 DEF End
    <3>2. Len(request[w]) = 1 => ~Comparing(w)
      BY DEF Comparing
    <3> QED  BY <1>1, <3>1, <3>2 DEF Over
  <2>3. pc'[Inner(w)] = pc[Inner(w)]
    BY <1>1, <1>5, FrameStep, OthersUntouched
  <2>4. key' = key /\ request' = request /\ pc[Outer(w)] # "idle"
    BY <1>5 DEF End, OperationEnds, SoloEnds
  <2> QED  BY <1>1, <2>1, <2>2, <2>3, <2>4
<1>6. ASSUME Bookkeeping(w) PROVE AuditsInOrder(w)'
  <2>1. audits' = audits /\ request' = request
    BY <1>6 DEF Bookkeeping
  <2>2. CASE Publish(Outer(w)) \/ Pop(Outer(w)) \/ WaiterReturns(Outer(w))
    <3>1. ~Executing(w) /\ pc[Outer(w)] # "idle" /\ key' = key
      BY <2>2 DEF Publish, Pop, WaiterReturns
    <3>2. pc'[Inner(w)] = pc[Inner(w)]
      BY <1>1, <2>2, OthersUntouched DEF Progress
    <3> QED  BY <1>1, <2>1, <3>1, <3>2
  <2>3. CASE Publish(Inner(w)) \/ \E o \in Outcomes : OperationEnds(Inner(w), o)
    <3>1. pc[Inner(w)] # "idle" /\ pc'[Inner(w)] # "idle" /\ key' = key
      BY <1>1, <2>3 DEF Publish, OperationEnds, TypeOK
    <3>2. pc'[Outer(w)] = pc[Outer(w)]
      BY <1>1, <2>3, OthersUntouched DEF Progress
    <3> QED  BY <1>1, <2>1, <3>1, <3>2
  <2> QED  BY <1>6, <2>2, <2>3 DEF Bookkeeping
<1>7. ASSUME WorkerTimesOut(w) PROVE AuditsInOrder(w)'
  <2>1. audits' = audits /\ request' = request /\ key' = key
    BY <1>7 DEF WorkerTimesOut, WaitTimesOut
  <2>2. CASE WaitTimesOut(Outer(w))
    <3>1. ~Executing(w) /\ pc[Outer(w)] # "idle"
      BY <2>2 DEF WaitTimesOut
    <3>2. pc'[Inner(w)] = pc[Inner(w)]
      BY <1>1, <2>2, OthersUntouched
    <3> QED  BY <1>1, <2>1, <3>1, <3>2
  <2>3. CASE WaitTimesOut(Inner(w))
    <3>1. pc[Inner(w)] # "idle" /\ pc'[Inner(w)] # "idle"
      BY <1>1, <2>3 DEF WaitTimesOut, TypeOK
    <3>2. pc'[Outer(w)] = pc[Outer(w)]
      BY <1>1, <2>3, OthersUntouched
    <3> QED  BY <1>1, <2>1, <3>1, <3>2
  <2> QED  BY <1>7, <2>2, <2>3 DEF WorkerTimesOut
<1> QED  BY <1>2, <1>3, <1>4, <1>5, <1>6, <1>7 DEF ServeWorker

\* The audits of comparisons stay in order, whatever the workers do.
LEMMA NextArtifactInv == ArtifactInv /\ [ArtifactNext]_artifactVars => ArtifactInv'
<1> SUFFICES ASSUME ArtifactInv, [ArtifactNext]_artifactVars PROVE ArtifactInv'
  OBVIOUS
<1>1. IInv'
  BY ArtifactStep, NextIInv DEF ArtifactInv
<1>2. CASE UNCHANGED artifactVars
  BY <1>1, <1>2 DEF artifactVars, flightVars, ArtifactInv, AuditsInOrder, Comparing, Executing
<1>3. CASE ArtifactNext
  <2>1. PICK w \in Workers : (\E r \in Requests : Receive(w, r)) \/ ServeWorker(w) \/ WorkerTimesOut(w)
    BY <1>3 DEF ArtifactNext
  <2>2. request' \in [Workers -> Requests] /\ DOMAIN audits' = Workers
    BY <2>1 DEF ArtifactInv, ServeWorker, Receive, Audit, AuditReturns, End, Bookkeeping, WorkerTimesOut
  <2>3. \A v \in Workers : AuditsInOrder(v)'
    BY <1>1, <2>1, OtherWorkers, OwnAudits
  <2> QED  BY <1>1, <2>2, <2>3 DEF ArtifactInv
<1> QED  BY <1>2, <1>3

\* Each audit of a comparison is counted with its own answer and ran under the key of its own
\* file, for any workers, requests and number of flights.
THEOREM ArtifactInvariant == ArtifactSpec => []ArtifactInv
<1>1. ArtifactInit => ArtifactInv
  BY InitIInv, Frames DEF ArtifactInit, Init, ArtifactInv, AuditsInOrder, Comparing, Executing
<1> QED  BY <1>1, NextArtifactInv, PTL DEF ArtifactSpec

\* Workers, comparisons and their audits keep what holds of single flights.
LEMMA FlightsBelow == ArtifactSpec => Spec
<1>1. ArtifactInit => Init
  BY DEF ArtifactInit
<1> QED  BY <1>1, ArtifactStep, ArtifactInvariant, PTL DEF ArtifactSpec, Spec

\* So nothing is cached between requests, and no caller gets the answer of a flight that
\* has none.
THEOREM ArtifactsNeverCached == ArtifactSpec => []NeverCached /\ []NoHollowAnswer
BY FlightsBelow, FlightsNeverCached, AnswersAreNotHollow, PTL

\* A worker whose audit is not waiting, and that runs its own call, is at work; so is one
\* whose call is an audit, unless that call waits itself.
LEMMA AtWork ==
    ASSUME ArtifactInv, NEW v \in Workers
    PROVE  /\ pc[Inner(v)] \in {"owner", "publish"} => ~HeldUp(v)
           /\ pc[Outer(v)] \in {"owner", "publish"} /\ ~Comparing(v) => ~HeldUp(v)
           /\ pc[Outer(v)] \in {"owner", "publish"} /\ HeldUp(v) => Comparing(v) /\ Blocked(Inner(v))
<1>1. AuditsInOrder(v)
  BY DEF ArtifactInv
<1>2. pc[Inner(v)] # "idle" => Comparing(v)
  BY <1>1 DEF AuditsInOrder
<1> QED  BY <1>2 DEF HeldUp, Blocked, Comparing, Executing

\* Whoever waits for a flight that is not published waits for a worker that has it.
LEMMA BlockedByOwner ==
    ASSUME ArtifactInv, NEW w \in Workers, NEW t \in {Outer(w), Inner(w)}, Blocked(t)
    PROVE  \E v \in Workers, u \in Threads :
               /\ u \in {Outer(v), Inner(v)} /\ HeldUpBy(w, v)
               /\ pc[u] \in {"owner", "publish"} /\ cur[u] = cur[t] /\ key[u] = key[t]
<1>1. t \in Threads
  BY Frames
<1>2. PICK u \in Threads : pc[u] \in {"owner", "publish"} /\ cur[u] = cur[t]
  BY <1>1 DEF Blocked, ArtifactInv, IInv, NoOrphanedWaiter
<1>3. PICK v \in Workers : u \in {Outer(v), Inner(v)}
  <2>1. PICK v \in Workers, f \in {"request", "audit"} : u = <<v, f>>
    BY ArtifactAssumption
  <2> QED  BY <2>1 DEF Outer, Inner
<1>4. key[u] = key[t]
  BY <1>1, <1>2 DEF Blocked, Inside, ArtifactInv, IInv, OwnersRegistered, AnswerIsForMyKey
<1> QED  BY <1>2, <1>3, <1>4, Zenon DEF HeldUpBy

\* An audit is waited for under a key that no comparison has.
LEMMA AuditsAreNoComparisons ==
    ASSUME NEW r \in Requests, NEW f, FlightKey(r) = FlightKey(<<f>>)
    PROVE  Len(r) # 2
<1>1. Len(<<f>>) = 1 /\ FlightKey(<<f>>) = <<"audit", f>>
  BY DEF FlightKey
<1>2. Len(r) = 2 => FlightKey(r) = <<"compare", r[1], r[2]>>
  BY DEF FlightKey
<1>3. <<"audit", f>> # <<"compare", r[1], r[2]>>
  OBVIOUS
<1> QED  BY <1>1, <1>2, <1>3

\* Requests never wait for each other in a circle, however many workers, files and flights
\* there are: audits, for which comparisons wait, wait for nobody that waits.
THEOREM NoCircularWaitHolds == ArtifactSpec => []NoCircularWait
<1>1. ArtifactInv => NoCircularWait
  <2> SUFFICES ASSUME ArtifactInv, NEW w \in Workers, HeldUp(w)
               PROVE  \E v \in Workers :
                          /\ HeldUpBy(w, v)
                          /\ HeldUp(v) => Comparing(v) /\ \E x \in Workers : HeldUpBy(v, x) /\ ~HeldUp(x)
    BY DEF NoCircularWait
  <2>1. PICK t \in {Outer(w), Inner(w)} : Blocked(t)
    BY DEF HeldUp
  <2>2. PICK v \in Workers, u \in Threads :
            /\ u \in {Outer(v), Inner(v)} /\ HeldUpBy(w, v)
            /\ pc[u] \in {"owner", "publish"} /\ cur[u] = cur[t] /\ key[u] = key[t]
    BY <2>1, BlockedByOwner
  <2>3. ASSUME HeldUp(v) PROVE Comparing(v) /\ \E x \in Workers : HeldUpBy(v, x) /\ ~HeldUp(x)
    <3>1. Comparing(v) /\ Blocked(Inner(v))
      BY <2>2, <2>3, AtWork
    <3>2. PICK x \in Workers, y \in Threads :
              /\ y \in {Outer(x), Inner(x)} /\ HeldUpBy(v, x)
              /\ pc[y] \in {"owner", "publish"} /\ cur[y] = cur[Inner(v)] /\ key[y] = key[Inner(v)]
      BY <3>1, BlockedByOwner
    <3>3. PICK f : key[Inner(v)] = FlightKey(<<f>>)
      BY <3>1 DEF Blocked, ArtifactInv, AuditsInOrder
    <3>4. CASE y = Inner(x)
      BY <3>1, <3>2, <3>4, AtWork
    <3>5. CASE y = Outer(x)
      <4>1. key[Outer(x)] = FlightKey(request[x]) /\ request[x] \in Requests
        BY <3>2, <3>5 DEF ArtifactInv, AuditsInOrder
      <4>2. ~Comparing(x)
        BY <3>2, <3>3, <3>5, <4>1, AuditsAreNoComparisons DEF Comparing
      <4> QED  BY <3>1, <3>2, <3>5, <4>2, AtWork
    <3> QED  BY <3>2, <3>4, <3>5
  <2> QED  BY <2>2, <2>3
<1> QED  BY <1>1, ArtifactInvariant, PTL

\* No comparison ends with a value unless its last audit, which was the candidate's, did.
THEOREM ComparisonsReadBothFiles == ArtifactSpec => ComparedWhatWasRead
<1>1. ArtifactInv /\ [ArtifactNext]_artifactVars =>
        [\A w \in Workers :
          LET compared == IF pc[Outer(w)] = "owner" THEN outcome'[cur[Outer(w)]]
                                                    ELSE answer'[Outer(w)]
          IN  Comparing(w) /\ ~Executing(w)' /\ compared = "value" =>
                 answer[Inner(w)] = "value" /\ key[Inner(w)] = FlightKey(<<request[w][2]>>)]_artifactVars
  <2> SUFFICES ASSUME ArtifactInv, ArtifactNext, NEW w \in Workers,
                      Comparing(w), ~Executing(w)',
                      (IF pc[Outer(w)] = "owner" THEN outcome'[cur[Outer(w)]]
                                                 ELSE answer'[Outer(w)]) = "value"
               PROVE  answer[Inner(w)] = "value" /\ key[Inner(w)] = FlightKey(<<request[w][2]>>)
    BY Zenon
  <2>1. /\ TypeOK /\ Outer(w) \in Threads /\ Inner(w) \in Threads /\ Outer(w) # Inner(w)
        /\ AuditsInOrder(w) /\ Len(audits[w]) \in Nat
    BY Frames, LenProperties DEF ArtifactInv, IInv, AuditsInOrder
  <2>2. PICK v \in Workers : (\E r \in Requests : Receive(v, r)) \/ ServeWorker(v) \/ WorkerTimesOut(v)
    BY DEF ArtifactNext
  <2>3. \/ Call(Outer(v)) \/ Progress(Outer(v)) \/ WaitTimesOut(Outer(v))
        \/ Call(Inner(v)) \/ Progress(Inner(v)) \/ WaitTimesOut(Inner(v))
    BY <2>2, FrameStep DEF ServeWorker
  <2>4. pc'[Outer(w)] # pc[Outer(w)]
    BY DEF Comparing, Executing
  <2>5. v = w
    BY <2>1, <2>3, <2>4, Frames, OthersUntouched
  <2>6. PICK o \in Outcomes : End(w, o)
    <3>1. ~Call(Inner(w)) /\ ~Progress(Inner(w)) /\ ~WaitTimesOut(Inner(w))
      BY <2>1, <2>4, OthersUntouched
    <3>2. ~Audit(w) /\ ~AuditReturns(w)
      BY <3>1, FrameStep
    <3>3. /\ \A r \in Requests : ~Receive(w, r)
          /\ ~Bookkeeping(w) /\ ~WorkerTimesOut(w)
      BY <3>1 DEF Comparing, Executing, Receive, Run, BecomeOwner, Join, RunAlone,
             Bookkeeping, Progress, Publish, Pop, WaiterReturns, WorkerTimesOut, WaitTimesOut
    <3> QED  BY <2>2, <2>5, <3>2, <3>3 DEF ServeWorker
  <2>7. o = "value"
    <3>1. OperationEnds(Outer(w), o) \/ SoloEnds(Outer(w), o)
      BY <2>6 DEF End
    <3>2. CASE OperationEnds(Outer(w), o)
      <4>1. cur[Outer(w)] \in Slots
        BY <2>1, <3>2 DEF OperationEnds, ArtifactInv, IInv, OwnersRegistered, Inside, TypeOK
      <4> QED  BY <2>1, <3>2, <4>1 DEF OperationEnds, TypeOK
    <3>3. CASE SoloEnds(Outer(w), o)
      BY <2>1, <3>3 DEF SoloEnds, TypeOK
    <3> QED  BY <3>1, <3>2, <3>3
  <2>8. pc[Inner(w)] = "idle" /\ "error" \notin Range(audits[w]) /\ Len(audits[w]) = 2
    BY <2>6, <2>7 DEF End, Over, Comparing
  <2>9. /\ audits[w] \in Seq(Outcomes)
        /\ audits[w][2] = answer[Inner(w)] /\ key[Inner(w)] = FlightKey(<<request[w][2]>>)
    BY <2>1, <2>8 DEF AuditsInOrder
  <2>10. audits[w][2] \in Outcomes /\ audits[w][2] \in Range(audits[w])
    BY <2>8, <2>9, LenProperties, ElementOfSeq DEF Range
  <2> QED  BY <2>8, <2>9, <2>10 DEF Outcomes
<1> QED  BY <1>1, ArtifactInvariant, PTL DEF ArtifactSpec, ComparedWhatWasRead
-----------------------------------------------------------------------------
(* Evidence *)

\* A list that was not cut is all of what it lists; one that was cut is full.
LEMMA ListedOrFull ==
    ASSUME NEW G \in SUBSET Nat, IsFiniteSet(G)
    PROVE  Artifact!Listed(G) = G \/ Cardinality(Artifact!Listed(G)) = Budget.listed
<1> DEFINE Below(g) == {x \in G : x < g}
           Rank(g) == Cardinality(Below(g))
           L == Budget.listed
           Top == {g \in G : Rank(g) < L}
           Cut == {g \in G : ~(Rank(g) < L)}
<1>1. Artifact!Listed(G) = Top
  BY DEF Artifact!Listed, Artifact!Cardinality, Cardinality
<1>2. L \in Nat
  BY DeskAssumption
<1>3. \A g \in G : g \in Nat /\ IsFiniteSet(Below(g)) /\ Rank(g) \in Nat
  BY FS_Subset, FS_CardinalityType
<1>4. \A T \in SUBSET G : IsFiniteSet(T) /\ Cardinality(T) \in Nat
  BY FS_Subset, FS_CardinalityType
<1>5. \A g \in G : \A T \in SUBSET Below(g) : Cardinality(T) <= Rank(g)
  BY <1>3, FS_Subset
<1>6. \A g, x \in G : x \in Below(g) <=> x < g
  OBVIOUS
<1>7. \A g \in G : Below(g) \in SUBSET G
  OBVIOUS
<1> HIDE DEF Below
<1>8. \A g \in G : Rank(g) = Cardinality(Below(g))
  OBVIOUS
<1> HIDE DEF Rank, L
<1>9. /\ Top \in SUBSET G /\ Cut \in SUBSET G /\ Cut = G \ Top
      /\ \A g \in G : g \in Cut => Rank(g) >= L
      /\ \A g \in Top : Rank(g) < L
  BY <1>2, <1>3
<1> HIDE DEF Top, Cut
<1>10. ASSUME Top # G PROVE Cardinality(Top) = L
  <2>1. PICK g \in Cut : \A x \in Cut : g <= x
    <3>1. Cut \in SUBSET Nat /\ Cut # {}
      BY <1>9, <1>10
    <3> QED  BY <3>1, LeastExists
  <2>2. g \in G /\ g \in Nat /\ Rank(g) \in Nat /\ Rank(g) >= L /\ g \notin Top
    BY <1>3, <1>9, <2>1
  <2>3. Below(g) \in SUBSET Top
    <3> SUFFICES ASSUME NEW x \in Below(g) PROVE x \in Top
      OBVIOUS
    <3>1. x \in G /\ x \in Nat /\ x < g
      BY <1>3, <1>6, <1>7, <2>2
    <3>2. ~(g <= x)
      BY <2>2, <3>1
    <3> QED  BY <1>9, <2>1, <3>1, <3>2
  <2>4. Rank(g) <= Cardinality(Top)
    BY <1>4, <1>8, <1>9, <2>2, <2>3, FS_Subset
  <2>5. \A x \in Top : x < g
    <3> SUFFICES ASSUME NEW x \in Top, ~(x < g) PROVE FALSE
      OBVIOUS
    <3>1. x \in G /\ x \in Nat /\ g < x
      BY <1>3, <1>9, <2>2
    <3>2. Below(g) \in SUBSET Below(x)
      <4> SUFFICES ASSUME NEW y \in Below(g) PROVE y \in Below(x)
        OBVIOUS
      <4>1. y \in G /\ y \in Nat /\ y < g
        BY <1>3, <1>6, <1>7, <2>2
      <4>2. y < x
        BY <2>2, <3>1, <4>1
      <4> QED  BY <1>6, <3>1, <4>1, <4>2
    <3>3. Rank(g) <= Rank(x) /\ Rank(x) < L /\ Rank(x) \in Nat
      BY <1>3, <1>5, <1>8, <1>9, <2>2, <3>1, <3>2
    <3> QED  BY <1>2, <2>2, <3>3
  <2>6. Cardinality(Top) \in Nat /\ L <= Cardinality(Top)
    BY <1>2, <1>4, <1>9, <2>2, <2>4
  <2>7. CASE Top = {}
    <3>1. Cardinality(Top) = 0
      BY <2>7, FS_EmptySet
    <3> QED  BY <1>2, <2>6, <3>1
  <2>8. CASE Top # {}
    <3>1. \A x \in Top : x \in 0..g
      BY <1>3, <1>9, <2>2, <2>5
    <3>2. PICK m \in Top : \A x \in Top : x <= m
      BY <2>2, <2>8, <3>1, LargestExists
    <3>3. Top \ {m} \in SUBSET Below(m)
      <4> SUFFICES ASSUME NEW x \in Top \ {m} PROVE x \in Below(m)
        OBVIOUS
      <4>1. x \in G /\ x \in Nat /\ m \in G /\ m \in Nat /\ x <= m /\ x # m
        BY <1>3, <1>9, <3>2
      <4> QED  BY <1>6, <4>1
    <3>4. Cardinality(Top \ {m}) = Cardinality(Top) - 1
      BY <1>4, <1>9, <3>2, FS_RemoveElement
    <3>5. Cardinality(Top \ {m}) <= Rank(m) /\ Rank(m) < L /\ Rank(m) \in Nat
      BY <1>3, <1>5, <1>9, <3>2, <3>3
    <3> QED  BY <1>2, <2>6, <3>4, <3>5
  <2> QED  BY <2>7, <2>8
<1> QED  BY <1>1, <1>10 DEF L

\* The nearest of some cylinders is one of them.
LEMMA NearestIsOne ==
    ASSUME NEW cylinders, Cylinders(cylinders), NEW x,
           x.diameter \in Int, x.centre \in Int \X Int,
           NEW among \in SUBSET DOMAIN cylinders, among # {}
    PROVE  Artifact!Nearest(x, cylinders, among) \in among
<1> DEFINE Far(i) == Artifact!Distance(cylinders[i], x)
           Lengths == {Far(i) : i \in among}
<1>1. \A i \in among : i \in Nat /\ Far(i) \in Nat
  <2> SUFFICES ASSUME NEW i \in among PROVE i \in Nat /\ Far(i) \in Nat
    OBVIOUS
  <2>1. i \in 1..Len(cylinders) /\ Len(cylinders) \in Nat
    BY LenProperties DEF Cylinders
  <2>2. cylinders[i] \in Range(cylinders)
    BY DEF Range
  <2>3. cylinders[i].diameter \in Int /\ cylinders[i].centre \in Int \X Int
    BY <2>2 DEF Cylinders
  <2>4. \A y \in Int : Artifact!Abs(y) \in Nat
    BY DEF Artifact!Abs
  <2> DEFINE y == cylinders[i]
  <2>5. /\ y.diameter - x.diameter \in Int
        /\ y.centre[1] - x.centre[1] \in Int /\ y.centre[2] - x.centre[2] \in Int
    BY <2>3
  <2>6. Far(i) = Artifact!Abs(y.diameter - x.diameter) + Artifact!Abs(y.centre[1] - x.centre[1])
                   + Artifact!Abs(y.centre[2] - x.centre[2])
    BY DEF Artifact!Distance
  <2>7. i \in Nat
    BY <2>1
  <2>8. \A p, q, r \in Nat : p + q + r \in Nat
    OBVIOUS
  <2> HIDE DEF y
  <2>9. /\ Artifact!Abs(y.diameter - x.diameter) \in Nat
        /\ Artifact!Abs(y.centre[1] - x.centre[1]) \in Nat
        /\ Artifact!Abs(y.centre[2] - x.centre[2]) \in Nat
    BY <2>4, <2>5, Zenon
  <2>10. Far(i) \in Nat
    BY <2>6, <2>8, <2>9, Zenon
  <2> QED  BY <2>7, <2>10
<1> HIDE DEF Far
<1>2. PICK d \in Lengths : \A e \in Lengths : d <= e
  <2>1. Lengths \in SUBSET Nat /\ Lengths # {}
    BY <1>1
  <2> HIDE DEF Lengths
  <2> QED  BY <2>1, LeastExists
<1> DEFINE Ties == {i \in among : Far(i) = d}
<1>3. PICK i \in Ties : \A k \in Ties : i <= k
  <2>1. Ties \in SUBSET Nat /\ Ties # {}
    BY <1>1, <1>2
  <2> HIDE DEF Ties
  <2> QED  BY <2>1, LeastExists
<1>4. \A k \in among : Far(i) < Far(k) \/ (Far(i) = Far(k) /\ i <= k)
  <2> SUFFICES ASSUME NEW k \in among PROVE Far(i) < Far(k) \/ (Far(i) = Far(k) /\ i <= k)
    OBVIOUS
  <2>1. d \in Nat /\ Far(k) \in Nat /\ d <= Far(k) /\ Far(i) = d
    BY <1>1, <1>2, <1>3
  <2>2. Far(k) = d => i <= k
    BY <1>3
  <2> QED  BY <2>1, <2>2
<1> QED  BY <1>3, <1>4 DEF Far, Artifact!Nearest

\* What was taken stays taken, and where there is something left the nearest is taken.
LEMMA TakenStep ==
    ASSUME NEW part, NEW step, Cylinders(part.cylinders), NEW i \in 1..Len(part.cylinders)
    PROVE  LET taken == Artifact!Taken(part, step)
               left == DOMAIN step.cylinders \ taken[i - 1]
           IN /\ taken[i - 1] \subseteq taken[i]
              /\ left # {} => Artifact!Nearest(part.cylinders[i], step.cylinders, left) \in taken[i]
<1> DEFINE N == Len(part.cylinders)
           all == DOMAIN step.cylinders
           More(t, n) == t \cup (IF t = all THEN {}
                                 ELSE {Artifact!Nearest(part.cylinders[n], step.cylinders, all \ t)})
           Fits(f, m) == \A n \in 0..m : f[n] = IF n = 0 THEN {} ELSE More(f[n - 1], n)
           Failing == {m \in 0..N : ~\E f : Fits(f, m)}
<1>1. N \in Nat
  BY LenProperties DEF Cylinders
<1> HIDE DEF More, N
<1>2. ASSUME NEW m \in Failing, \A k \in Failing : m <= k PROVE FALSE
  <2>1. CASE m = 0
    <3>1. Fits([n \in 0..0 |-> {}], 0)
      OBVIOUS
    <3> QED  BY <2>1, <3>1
  <2>2. CASE m # 0
    <3>1. m \in Nat /\ m - 1 \in 0..N /\ ~(m <= m - 1)
      BY <1>1, <2>2
    <3>2. PICK f : Fits(f, m - 1)
      BY <1>2, <3>1
    <3> DEFINE g == [n \in 0..m |-> IF n = m THEN More(f[m - 1], m) ELSE f[n]]
    <3>3. Fits(g, m)
      <4> SUFFICES ASSUME NEW n \in 0..m PROVE g[n] = IF n = 0 THEN {} ELSE More(g[n - 1], n)
        OBVIOUS
      <4>1. CASE n = m
        BY <2>2, <3>1, <4>1
      <4>2. CASE n # m
        <5>1. n \in 0..(m - 1)
          BY <3>1, <4>2
        <5>2. f[n] = IF n = 0 THEN {} ELSE More(f[n - 1], n)
          BY <3>2, <5>1
        <5>3. n # 0 => n - 1 \in 0..m /\ n - 1 # m
          BY <3>1, <5>1
        <5> QED  BY <4>2, <5>2, <5>3
      <4> QED  BY <4>1, <4>2
    <3> HIDE DEF g, Fits
    <3> QED  BY <3>3
  <2> QED  BY <2>1, <2>2
<1>3. Failing = {}
  <2>1. Failing \in SUBSET Nat
    BY <1>1
  <2> HIDE DEF Failing
  <2> QED  BY <1>2, <2>1, LeastExists
<1>4. PICK f : Fits(f, N)
  <2>1. N \in 0..N
    BY <1>1
  <2> HIDE DEF Fits
  <2>2. \A m \in 0..N : m \notin Failing => \E g : Fits(g, m)
    OBVIOUS
  <2> HIDE DEF Failing
  <2> QED  BY <1>3, <2>1, <2>2
<1> DEFINE Right(t) == t = [n \in 0..N |-> IF n = 0 THEN {} ELSE More(t[n - 1], n)]
           h == [n \in 0..N |-> f[n]]
<1>5. Right(h)
  <2>1. \A n \in 0..N : h[n] = IF n = 0 THEN {} ELSE More(h[n - 1], n)
    <3> SUFFICES ASSUME NEW n \in 0..N PROVE h[n] = IF n = 0 THEN {} ELSE More(h[n - 1], n)
      OBVIOUS
    <3>1. h[n] = IF n = 0 THEN {} ELSE More(f[n - 1], n)
      BY <1>4
    <3>2. n # 0 => n - 1 \in 0..N
      BY <1>1
    <3> QED  BY <3>1, <3>2
  <2> QED  BY <2>1
<1> HIDE DEF h
<1>6. Artifact!Taken(part, step) = CHOOSE t : Right(t)
  BY DEF Artifact!Taken, More, N
<1>7. Right(Artifact!Taken(part, step))
  BY <1>5, <1>6
<1>8. ASSUME NEW t, Right(t)
      PROVE  t[0] = {} /\ \A n \in 1..N : t[n] = More(t[n - 1], n)
  <2> DEFINE F(n) == IF n = 0 THEN {} ELSE More(t[n - 1], n)
  <2>1. t = [n \in 0..N |-> F(n)]
    BY <1>8
  <2> HIDE DEF F
  <2>2. \A n \in 0..N : t[n] = F(n)
    BY <2>1
  <2>3. 0 \in 0..N /\ \A n \in 1..N : n \in 0..N /\ n # 0
    BY <1>1
  <2> QED  BY <2>2, <2>3 DEF F
<1>9. Artifact!Taken(part, step)[i] = More(Artifact!Taken(part, step)[i - 1], i)
  BY <1>7, <1>8 DEF N
<1> QED  BY <1>9 DEF More

\* What was taken stays taken.
LEMMA TakenGrows ==
    ASSUME NEW part, NEW step, Cylinders(part.cylinders),
           NEW n \in 1..Len(part.cylinders), NEW m \in 1..Len(part.cylinders), n < m
    PROVE  Artifact!Taken(part, step)[n] \subseteq Artifact!Taken(part, step)[m - 1]
<1> DEFINE N == Len(part.cylinders)
           taken == Artifact!Taken(part, step)
           Failing == {k \in 1..N : n <= k /\ ~(taken[n] \subseteq taken[k])}
<1>1. N \in Nat
  BY LenProperties DEF Cylinders
<1>2. \A k \in 1..N : taken[k - 1] \subseteq taken[k]
  BY TakenStep
<1> HIDE DEF taken, N
<1>3. ASSUME NEW k \in Failing, \A i \in Failing : k <= i PROVE FALSE
  <2>1. k # n /\ k \in 1..N /\ n \in Nat /\ n < k
    BY <1>1, <1>3 DEF N
  <2>2. k - 1 \in 1..N /\ n <= k - 1 /\ ~(k <= k - 1)
    BY <1>1, <2>1
  <2>3. taken[n] \subseteq taken[k - 1]
    BY <1>3, <2>2
  <2> QED  BY <1>2, <1>3, <2>1, <2>3
<1>4. Failing = {}
  <2>1. Failing \in SUBSET Nat
    BY <1>1
  <2> HIDE DEF Failing
  <2> QED  BY <1>3, <2>1, LeastExists
<1>5. m - 1 \in 1..N /\ n <= m - 1
  BY <1>1 DEF N
<1> QED  BY <1>4, <1>5 DEF taken

\* Cylinders that hold are an injection of the holes into what is in the file.
LEMMA HolesAreApart ==
    ASSUME NEW part, NEW step, part.tolerance \in Nat,
           Cylinders(part.cylinders), Cylinders(step.cylinders),
           Artifact!CylindersHold(part, step)
    PROVE  LET holes == {n \in DOMAIN part.cylinders : part.cylinders[n].diameter > part.tolerance}
               Is(n, k) ==
                  /\ Artifact!Within(part.cylinders[n].diameter, step.cylinders[k].diameter, part.tolerance)
                  /\ \A axis \in 1..2 :
                       Artifact!Within(part.cylinders[n].centre[axis], step.cylinders[k].centre[axis], part.tolerance)
           IN \E where \in Injection(holes, DOMAIN step.cylinders) : \A n \in holes : Is(n, where[n])
<1> DEFINE xs == part.cylinders
           ys == step.cylinders
           taken == Artifact!Taken(part, step)
           holes == {n \in DOMAIN xs : xs[n].diameter > part.tolerance}
           Left(n) == DOMAIN ys \ taken[n - 1]
           Found(n) == Artifact!Nearest(xs[n], ys, Left(n))
           Is(n, k) ==
              /\ Artifact!Within(xs[n].diameter, ys[k].diameter, part.tolerance)
              /\ \A axis \in 1..2 : Artifact!Within(xs[n].centre[axis], ys[k].centre[axis], part.tolerance)
           where == [n \in holes |-> Found(n)]
<1>1. DOMAIN xs = 1..Len(xs) /\ Len(xs) \in Nat
  BY LenProperties DEF Cylinders
<1>2. \A n \in DOMAIN xs : xs[n].diameter \in Int /\ xs[n].centre \in Int \X Int
  BY DEF Cylinders, Range
<1>3. \A n \in DOMAIN xs :
        IF Left(n) = {} THEN Artifact!Within(xs[n].diameter, 0, part.tolerance) ELSE Is(n, Found(n))
  BY DEF Artifact!CylindersHold
<1>4. \A n \in holes : Left(n) # {}
  <2> SUFFICES ASSUME NEW n \in holes, Left(n) = {} PROVE FALSE
    OBVIOUS
  <2>1. Artifact!Within(xs[n].diameter, 0, part.tolerance)
    BY <1>3
  <2>2. xs[n].diameter \in Int /\ xs[n].diameter > part.tolerance
    BY <1>2
  <2> HIDE DEF xs
  <2> QED  BY <2>1, <2>2 DEF Artifact!Within, Artifact!Abs
<1>5. \A n \in holes : Is(n, Found(n)) /\ Found(n) \in Left(n)
  <2> SUFFICES ASSUME NEW n \in holes PROVE Is(n, Found(n)) /\ Found(n) \in Left(n)
    OBVIOUS
  <2>1. Is(n, Found(n))
    BY <1>3, <1>4
  <2>2. Found(n) \in Left(n)
    <3>1. xs[n].diameter \in Int /\ xs[n].centre \in Int \X Int /\ Left(n) # {}
      BY <1>2, <1>4
    <3>2. Left(n) \in SUBSET DOMAIN ys
      OBVIOUS
    <3> HIDE DEF Left
    <3> QED  BY <3>1, <3>2, NearestIsOne
  <2> QED  BY <2>1, <2>2
<1>6. \A n \in holes : Found(n) \in taken[n]
  <2> SUFFICES ASSUME NEW n \in holes PROVE Found(n) \in taken[n]
    OBVIOUS
  <2>1. n \in 1..Len(part.cylinders)
    BY <1>1
  <2>2. Left(n) # {}
    BY <1>4
  <2> QED  BY <2>1, <2>2, TakenStep
<1>7. \A n, m \in holes : n < m => Found(n) # Found(m)
  <2> SUFFICES ASSUME NEW n \in holes, NEW m \in holes, n < m PROVE Found(n) # Found(m)
    OBVIOUS
  <2>1. n \in 1..Len(part.cylinders) /\ m \in 1..Len(part.cylinders)
    BY <1>1
  <2>2. taken[n] \subseteq taken[m - 1]
    BY <2>1, TakenGrows
  <2>3. Found(m) \notin taken[m - 1] /\ Found(n) \in taken[n]
    BY <1>5, <1>6
  <2> QED  BY <2>2, <2>3
<1>8. \A n, m \in holes : n # m => n < m \/ m < n
  BY <1>1
<1>9. where \in [holes -> DOMAIN ys]
  BY <1>5
<1>10. \A n, m \in holes : where[n] = where[m] => n = m
  BY <1>7, <1>8
<1>11. where \in Injection(holes, DOMAIN ys)
  <2>1. DOMAIN where = holes
    OBVIOUS
  <2> HIDE DEF where
  <2> QED  BY <1>9, <1>10, <2>1 DEF Injection, IsInjective
<1>12. \A n \in holes : Is(n, where[n])
  BY <1>5
<1> HIDE DEF where
<1> QED  BY <1>11, <1>12

\* Sequences of one and two, put together.
LEMMA Joined ==
    ASSUME NEW x, NEW y, NEW z, NEW w
    PROVE  <<x>> \o <<y>> = <<x, y>> /\ <<x, y>> \o <<z, w>> = <<x, y, z, w>>
<1> DEFINE S == {x, y, z, w}
<1>1. <<x>> \in Seq(S) /\ <<y>> \in Seq(S) /\ <<x, y>> \in Seq(S) /\ <<z, w>> \in Seq(S) /\ <<x, y, z, w>> \in Seq(S)
  OBVIOUS
<1>2. Len(<<x>>) = 1 /\ Len(<<y>>) = 1 /\ Len(<<x, y>>) = 2 /\ Len(<<z, w>>) = 2 /\ Len(<<x, y, z, w>>) = 4
  OBVIOUS
<1> HIDE DEF S
<1>3. <<x>> \o <<y>> = <<x, y>>
  <2> DEFINE j == <<x>> \o <<y>>
  <2>1. j \in Seq(S) /\ Len(j) = 2 /\ j[1] = x /\ j[2] = y
    <3>1. /\ j \in Seq(S) /\ Len(j) = 1 + 1
          /\ \A i \in 1..(1 + 1) : j[i] = IF i <= 1 THEN <<x>>[i] ELSE <<y>>[i - 1]
      BY <1>1, <1>2, ConcatProperties
    <3> HIDE DEF j
    <3> QED  BY <3>1
  <2> HIDE DEF j
  <2>2. \A i \in 1..Len(j) : j[i] = <<x, y>>[i]
    BY <2>1
  <2>3. j = <<x, y>>
    BY <1>1, <1>2, <2>1, <2>2, SeqEqual
  <2> QED  BY <2>3 DEF j
<1>4. <<x, y>> \o <<z, w>> = <<x, y, z, w>>
  <2> DEFINE j == <<x, y>> \o <<z, w>>
  <2>1. j \in Seq(S) /\ Len(j) = 4 /\ j[1] = x /\ j[2] = y /\ j[3] = z /\ j[4] = w
    <3>1. /\ j \in Seq(S) /\ Len(j) = 2 + 2
          /\ \A i \in 1..(2 + 2) : j[i] = IF i <= 2 THEN <<x, y>>[i] ELSE <<z, w>>[i - 2]
      BY <1>1, <1>2, ConcatProperties
    <3> HIDE DEF j
    <3> QED  BY <3>1
  <2> HIDE DEF j
  <2>2. \A i \in 1..Len(j) : j[i] = <<x, y, z, w>>[i]
    BY <2>1
  <2>3. j = <<x, y, z, w>>
    BY <1>1, <1>2, <2>1, <2>2, SeqEqual
  <2> QED  BY <2>3 DEF j
<1> QED  BY <1>3, <1>4

\* The calls of a comparison are different ones; files without a format are not audited,
\* and only two of one format are indexed.
LEMMA CallsApart ==
    ASSUME NEW b, NEW c
    PROVE  LET calls == Artifact!ComparisonCalls(b, c)
               fb == Artifact!Format(b)
               fc == Artifact!Format(c)
           IN /\ Len(calls) \in Nat /\ DOMAIN calls = 1..Len(calls)
              /\ \A n, k \in DOMAIN calls : calls[n] = calls[k] => n = k
              /\ \A n \in DOMAIN calls :
                   calls[n] \in {<<"audit", "baseline">>, <<"audit", "candidate">>,
                                 <<"index", "baseline">>, <<"index", "candidate">>}
              /\ \A n \in DOMAIN calls : calls[n][1] = "index" => fb = fc /\ fb \in {"dxf", "ifc"}
<1> DEFINE A == <<"audit", "baseline">>
           B == <<"audit", "candidate">>
           C == <<"index", "baseline">>
           D == <<"index", "candidate">>
           fb == Artifact!Format(b)
           fc == Artifact!Format(c)
           Same == fb = fc /\ fb \in {"dxf", "ifc"}
           calls == Artifact!ComparisonCalls(b, c)
<1>1. calls = (IF fb # "none" THEN <<A>> ELSE <<>>) \o (IF fc # "none" THEN <<B>> ELSE <<>>)
                 \o (IF Same THEN <<C, D>> ELSE <<>>)
  BY DEF Artifact!ComparisonCalls
<1>2. Same => fb # "none" /\ fc # "none"
  OBVIOUS
<1> HIDE DEF fb, fc
<1>3. calls \in {<<>>, <<A>>, <<B>>, <<A, B>>, <<A, B, C, D>>}
  <2> HIDE DEF calls, A, B, C, D
  <2>1. <<A>> \o <<B>> = <<A, B>> /\ <<A, B>> \o <<C, D>> = <<A, B, C, D>>
    BY Joined
  <2>2. <<>> \o <<B>> = <<B>> /\ <<A>> \o <<>> = <<A>> /\ <<B>> \o <<>> = <<B>> /\ <<>> \o <<>> = <<>>
        /\ <<A, B>> \o <<>> = <<A, B>>
    OBVIOUS
  <2>3. CASE Same
    BY <1>1, <1>2, <2>1, <2>3
  <2>4. CASE ~Same
    BY <1>1, <2>1, <2>2, <2>4
  <2> QED  BY <2>3, <2>4
<1>4. Len(calls) \in Nat /\ DOMAIN calls = 1..Len(calls)
  BY <1>3
<1>5. \A n, k \in DOMAIN calls : calls[n] = calls[k] => n = k
  <2>1. A # B /\ A # C /\ A # D /\ B # C /\ B # D /\ C # D
    OBVIOUS
  <2> HIDE DEF A, B, C, D
  <2> QED  BY <1>3, <2>1
<1>6. \A n \in DOMAIN calls : calls[n] \in {A, B, C, D}
  <2> HIDE DEF A, B, C, D
  <2> QED  BY <1>3
<1>7. ASSUME NEW n \in DOMAIN calls, calls[n][1] = "index" PROVE Same
  <2>1. SUFFICES ASSUME ~Same PROVE FALSE
    OBVIOUS
  <2>2. calls \in {<<>>, <<A>>, <<B>>, <<A, B>>}
    <3> HIDE DEF calls, A, B, C, D
    <3>1. <<A>> \o <<B>> = <<A, B>>
      BY Joined
    <3>2. /\ <<A, B>> \o <<>> = <<A, B>> /\ <<>> \o <<B>> = <<B>> /\ <<>> \o <<>> = <<>>
          /\ <<A>> \o <<>> = <<A>> /\ <<B>> \o <<>> = <<B>>
      OBVIOUS
    <3> QED  BY <1>1, <2>1, <3>1, <3>2
  <2>3. calls[n] \in {A, B}
    <3> HIDE DEF calls, A, B, C, D
    <3> QED  BY <1>7, <2>2
  <2> QED  BY <1>7, <2>3
<1> QED  BY <1>4, <1>5, <1>6, <1>7 DEF fb, fc

\* Of a file that was read whole everything is measured, and what was counted is what it shows.
LEMMA CompleteFile ==
    ASSUME NEW f, f.entities \in Seq(Range(f.entities)), Artifact!Complete(f)
    PROVE  ~Opaque(f) /\ Artifact!Fingerprints(f) = Shown(f)
<1> DEFINE s == f.entities
           Entities == Artifact!Entities(f)
           Nested == Artifact!Nested(f)
           Level(e) == Artifact!Support(e, Artifact!Xrefs(f))
<1>1. s \in Seq(Range(s)) /\ DOMAIN s = 1..Len(s) /\ Len(s) \in Nat
  BY LenProperties
<1>2. ~(Len(s) > Budget.entities)
  BY DEF Artifact!Complete, Artifact!Exceeded
<1>3. Entities = s
  <2>1. Entities = SubSeq(s, 1, IF Len(s) < Budget.entities THEN Len(s) ELSE Budget.entities)
    BY DEF Artifact!Entities, Artifact!Upto
  <2>2. Budget.entities \in Int
    BY DeskAssumption
  <2>3. (IF Len(s) < Budget.entities THEN Len(s) ELSE Budget.entities) = Len(s)
    BY <1>1, <1>2, <2>2
  <2>4. SubSeq(s, 1, Len(s)) = s
    BY <1>1, SubSeqFull
  <2> QED  BY <2>1, <2>3, <2>4
<1>4. \A i \in DOMAIN s : Level(s[i]) = "MEASURED"
  <2> SUFFICES ASSUME NEW i \in DOMAIN s PROVE Level(s[i]) = "MEASURED"
    OBVIOUS
  <2>1. s[i] \in Artifact!Range(Entities)
    BY <1>3 DEF Artifact!Range
  <2>2. {Level(e) : e \in Artifact!Range(Entities) \cup Artifact!Range(Nested)} \subseteq {"MEASURED"}
    BY DEF Artifact!Complete, Artifact!Levels
  <2> QED  BY <2>1, <2>2
<1>5. \A i \in DOMAIN s : s[i].type \in Artifact!MeasuredTypes
  BY <1>4 DEF Artifact!Support
<1>6. ~Opaque(f)
  BY <1>5 DEF Opaque, Range
<1> DEFINE Mark(i) == <<s[i].type, s[i].shape>>
           Marks == {Mark(i) : i \in DOMAIN s}
<1>7. Artifact!Fingerprints(f) = [x \in Marks |-> Cardinality({i \in DOMAIN s : Mark(i) = x})]
  <2>1. {i \in DOMAIN Entities : Artifact!Support(Entities[i], Artifact!Xrefs(f)) = "MEASURED"} = DOMAIN s
    BY <1>3, <1>4
  <2>2. Artifact!Fingerprints(f) =
          [x \in {<<Entities[i].type, Entities[i].shape>> : i \in DOMAIN s} |->
             Artifact!Cardinality({i \in DOMAIN s : <<Entities[i].type, Entities[i].shape>> = x})]
    BY <2>1 DEF Artifact!Fingerprints
  <2> QED  BY <1>3, <2>2 DEF Artifact!Cardinality, Cardinality
<1>8. Shown(f) = [x \in Marks |-> Cardinality({i \in DOMAIN s : Mark(i) = x})]
  <2>1. {<<x.type, x.shape>> : x \in Range(s)} = Marks
    BY DEF Range
  <2>2. \A x \in Marks : {i \in DOMAIN s : s[i].type = x[1] /\ s[i].shape = x[2]} = {i \in DOMAIN s : Mark(i) = x}
    OBVIOUS
  <2> QED  BY <2>1, <2>2 DEF Shown
<1> QED  BY <1>6, <1>7, <1>8

\* Two counts of which neither has more are the same.
LEMMA NeitherHasMore ==
    ASSUME NEW p, NEW q, \A x \in DOMAIN p : p[x] \in Nat, \A x \in DOMAIN q : q[x] \in Nat,
           ~Artifact!More(p, q), ~Artifact!More(q, p),
           p = [x \in DOMAIN p |-> p[x]], q = [x \in DOMAIN q |-> q[x]]
    PROVE  p = q
<1>1. DOMAIN p = DOMAIN q
  BY DEF Artifact!More
<1>2. \A x \in DOMAIN p : ~(p[x] > q[x]) /\ ~(q[x] > p[x])
  BY <1>1 DEF Artifact!More
<1>3. \A x \in DOMAIN p : p[x] = q[x]
  BY <1>1, <1>2
<1> QED  BY <1>1, <1>3

\* The GlobalIds that are no entity's alone are errors; of the others the index keeps
\* what the entity says.
LEMMA IndexSays ==
    ASSUME NEW f, f.roots \in Seq(Range(f.roots)), Artifact!Twice(f) \ {0} = {},
           NEW guid \in {r.guid : r \in Range(f.roots)} \ {0}
    PROVE  {<<r.sign, r.container>> : r \in {x \in Range(f.roots) : x.guid = guid}} = {Artifact!Index(f)[guid]}
<1> DEFINE s == f.roots
           At == {i \in DOMAIN s : s[i].guid = guid}
           Latest == Artifact!Max(At)
<1>1. DOMAIN s = 1..Len(s) /\ Len(s) \in Nat
  BY LenProperties
<1>2. PICK i \in DOMAIN s : s[i].guid = guid
  BY DEF Range
<1>3. \A k \in DOMAIN s : s[k].guid = guid => k = i
  <2> SUFFICES ASSUME NEW k \in DOMAIN s, s[k].guid = guid, k # i PROVE FALSE
    OBVIOUS
  <2>1. guid \in Artifact!Twice(f)
    BY <1>2 DEF Artifact!Twice
  <2> QED  BY <2>1
<1>4. At = {i} /\ i \in Nat
  BY <1>1, <1>2, <1>3
<1>5. Artifact!Max(At) = i
  BY <1>4 DEF Artifact!Max
<1>6. Artifact!Index(f)[guid] = <<s[i].sign, s[i].container>>
  <2>1. Artifact!Range(s) = Range(s)
    BY DEF Artifact!Range, Range
  <2> HIDE DEF At
  <2>2. \A g \in {r.guid : r \in Range(f.roots)} \ {0} :
           Artifact!Index(f)[g] = LET last1 == s[Artifact!Max({k \in DOMAIN s : s[k].guid = g})]
                                  IN <<last1.sign, last1.container>>
    BY <2>1 DEF Artifact!Index
  <2> QED  BY <1>5, <2>2 DEF At
<1>7. {x \in Range(s) : x.guid = guid} = {s[i]}
  BY <1>2, <1>3 DEF Range
<1> QED  BY <1>6, <1>7

\* What is counted is a number.
LEMMA ShownIsCount ==
    ASSUME NEW f, f.entities \in Seq(Range(f.entities))
    PROVE  Shown(f) = [x \in DOMAIN Shown(f) |-> Shown(f)[x]] /\ \A x \in DOMAIN Shown(f) : Shown(f)[x] \in Nat
<1> DEFINE s == f.entities
           At(e) == {i \in DOMAIN s : s[i].type = e[1] /\ s[i].shape = e[2]}
           N(e) == Cardinality(At(e))
           K == {<<x.type, x.shape>> : x \in Range(s)}
<1>1. Shown(f) = [e \in K |-> N(e)]
  BY DEF Shown
<1>2. DOMAIN s = 1..Len(s) /\ Len(s) \in Nat
  BY LenProperties
<1>3. IsFiniteSet(DOMAIN s)
  BY <1>2, FS_Interval
<1>4. \A e : At(e) \subseteq DOMAIN s
  OBVIOUS
<1>5. \A e : N(e) \in Nat
  <2> HIDE DEF At
  <2> QED  BY <1>3, <1>4, FS_Subset, FS_CardinalityType
<1> HIDE DEF N, K
<1> QED  BY <1>1, <1>5

\* What the answer to a request is, as far as its calls have returned.
Answered == CASE job.kind = "compare" -> Comparison [] job.kind = "openbim" -> Evidence [] OTHER -> Solid

\* What an OpenBIM worker may say.
WorkerSays ==
    {OpenBim!WorkerResponse(job.baseline, job.candidate, job.ids, Profile), [ok |-> FALSE, code |-> "DG_OPENBIM_WORKER_FAILED"]}

\* No more replies than calls, a part as the CAD worker may write it, a report as the
\* OpenBIM worker may make it, and an answer that is the one to what was asked.
DeskInv ==
    /\ job \in Jobs
    /\ replies \in Seq(Range(replies)) /\ Len(replies) <= Len(Calls)
    /\ job.kind = "solid" =>
         \A n \in DOMAIN replies : Calls[n][1] = "generate" => replies[n] \subseteq job.written
    /\ job.kind = "openbim" => \A n \in DOMAIN replies : replies[n] \subseteq WorkerSays
    /\ response \subseteq {Answered}

\* A request makes some number of calls.
LEMMA CallsAreMany ==
    ASSUME job \in Jobs
    PROVE  Len(Calls) \in Nat
<1>1. CASE job.kind = "compare"
  <2>1. Calls = Artifact!ComparisonCalls(job.baseline, job.candidate)
    BY <1>1 DEF Calls
  <2> QED  BY <2>1, CallsApart
<1>2. CASE job.kind = "openbim"
  <2>1. Calls \in {<<<<"evidence", "models">>>>, <<>>}
    BY <1>2 DEF Calls
  <2> QED  BY <2>1
<1>3. CASE job.kind = "solid"
  <2>1. Calls = <<<<"generate", "step">>, <<"audit", "step">>>>
    BY <1>3 DEF Calls
  <2> QED  BY <2>1
<1> QED  BY <1>1, <1>2, <1>3, DeskAssumption

\* A request that was just made.
LEMMA NewRequest == job \in Jobs /\ replies = <<>> /\ response = {} => DeskInv
<1> SUFFICES ASSUME job \in Jobs, replies = <<>>, response = {} PROVE DeskInv
  OBVIOUS
<1>1. Len(replies) = 0 /\ DOMAIN replies = {} /\ replies \in Seq(Range(replies))
  <2>1. replies \in Seq(Range(replies)) /\ Len(replies) = 0
    BY EmptySeq
  <2> QED  BY <2>1, LenProperties
<1> QED  BY <1>1, CallsAreMany DEF DeskInv

\* One more reply.
LEMMA NextReply ==
    ASSUME job \in Jobs, replies \in Seq(Range(replies)), Len(replies) < Len(Calls), NEW value
    PROVE  LET r == Append(replies, value)
           IN /\ r \in Seq(Range(r)) /\ Len(r) <= Len(Calls)
              /\ \A n \in DOMAIN r :
                   \/ n \in DOMAIN replies /\ r[n] = replies[n]
                   \/ n = Len(replies) + 1 /\ r[n] = value
<1> DEFINE r == Append(replies, value)
           S == Range(replies) \cup {value}
<1>1. /\ DOMAIN replies = 1..Len(replies) /\ Len(replies) \in Nat
      /\ \A n \in 1..Len(replies) : replies[n] \in Range(replies)
  BY LenProperties DEF Range
<1>2. replies \in Seq(S) /\ value \in S
  BY SeqMonotonic
<1>3. /\ r \in Seq(S) /\ Len(r) = Len(replies) + 1
      /\ \A n \in 1..Len(replies) : r[n] = replies[n]
      /\ r[Len(replies) + 1] = value
  BY <1>2, AppendProperties
<1> HIDE DEF r, S
<1>4. r \in [1..Len(r) -> S] /\ DOMAIN r = 1..Len(r)
  BY <1>3, LenProperties
<1>5. r \in Seq(Range(r))
  <2> DEFINE T == Range(r)
  <2>1. \A n \in 1..Len(r) : r[n] \in T
    BY <1>4 DEF Range
  <2> HIDE DEF T
  <2>2. r \in [1..Len(r) -> T] /\ Len(r) \in Nat
    BY <1>1, <1>3, <1>4, <2>1
  <2>3. r \in Seq(T)
    BY <2>2
  <2> QED  BY <2>3 DEF T
<1>6. Len(r) <= Len(Calls)
  BY <1>1, <1>3, CallsAreMany
<1>7. ASSUME NEW n \in DOMAIN r
      PROVE  \/ n \in DOMAIN replies /\ r[n] = replies[n]
             \/ n = Len(replies) + 1 /\ r[n] = value
  <2>1. n \in 1..(Len(replies) + 1)
    BY <1>3, <1>4, <1>7
  <2>2. CASE n = Len(replies) + 1
    BY <1>3, <2>2
  <2>3. CASE n # Len(replies) + 1
    <3>1. n \in 1..Len(replies)
      BY <1>1, <2>1, <2>3
    <3>2. n \in DOMAIN replies
      BY <1>1, <3>1
    <3>3. r[n] = replies[n]
      BY <1>3, <3>1
    <3> QED  BY <3>2, <3>3
  <2> QED  BY <2>2, <2>3
<1> QED  BY <1>5, <1>6, <1>7 DEF r

\* The desk's invariant.
THEOREM DeskInvariant == DeskSpec => []DeskInv
<1>1. DeskInit => DeskInv
  BY NewRequest DEF DeskInit
<1>2. (job \in Jobs /\ replies = <<>> /\ response = {} => DeskInv)'
  BY NewRequest, PTL
<1>3. DeskInv /\ [DeskNext]_deskVars => DeskInv'
  <2> SUFFICES ASSUME DeskInv, [DeskNext]_deskVars PROVE DeskInv'
    OBVIOUS
  <2>1. /\ job \in Jobs /\ replies \in Seq(Range(replies)) /\ Len(replies) <= Len(Calls)
        /\ job.kind = "solid" => \A n \in DOMAIN replies : Calls[n][1] = "generate" => replies[n] \subseteq job.written
        /\ job.kind = "openbim" => \A n \in DOMAIN replies : replies[n] \subseteq WorkerSays
        /\ response \subseteq {Answered}
    BY DEF DeskInv
  <2>2. ASSUME NEW value, replies' = Append(replies, value), job' = job, response' = response, Calling,
               job.kind = "solid" /\ Calls[Len(replies) + 1][1] = "generate" => value \subseteq job.written,
               job.kind = "openbim" => value \subseteq WorkerSays
        PROVE  DeskInv'
    <3>1. Calls' = Calls
      BY <2>2 DEF Calls
    <3>2. Len(replies) < Len(Calls) /\ response' = {}
      BY <2>2 DEF Calling
    <3> HIDE DEF Calls
    <3>3. /\ replies' \in Seq(Range(replies')) /\ Len(replies') <= Len(Calls)
          /\ \A n \in DOMAIN replies' :
               \/ n \in DOMAIN replies /\ replies'[n] = replies[n]
               \/ n = Len(replies) + 1 /\ replies'[n] = value
      BY <2>1, <2>2, <3>2, NextReply
    <3>4. ASSUME job.kind = "solid", NEW n \in DOMAIN replies', Calls[n][1] = "generate"
          PROVE  replies'[n] \subseteq job.written
      BY <2>1, <2>2, <3>3, <3>4
    <3>5. job.kind = "openbim" => \A n \in DOMAIN replies' : replies'[n] \subseteq WorkerSays
      BY <2>1, <2>2, <3>3
    <3>6. WorkerSays' = WorkerSays
      BY <2>2 DEF WorkerSays
    <3> HIDE DEF WorkerSays
    <3> QED  BY <2>1, <2>2, <3>1, <3>2, <3>3, <3>4, <3>5, <3>6 DEF DeskInv
  <2>3. CASE WorkerReturns
    <3>1. PICK value \in Returned : replies' = Append(replies, {value})
      BY <2>3 DEF WorkerReturns
    <3>2. job.kind = "solid" /\ Calls[Len(replies) + 1][1] = "generate" => {value} \subseteq job.written
      BY <3>1 DEF Returned
    <3>3. ASSUME job.kind = "openbim" PROVE {value} \subseteq WorkerSays
      <4>1. Calls = IF OpenBim!Refusal(job) = 200 THEN <<<<"evidence", "models">>>> ELSE <<>>
        BY <3>3 DEF Calls
      <4>2. Len(replies) < Len(Calls) /\ Len(replies) \in Nat
        BY <2>1, <2>3, LenProperties DEF WorkerReturns, Calling
      <4>3. Calls = <<<<"evidence", "models">>>> /\ Len(Calls) = 1
        <5>1. Len(<<>>) = 0 /\ Len(<<<<"evidence", "models">>>>) = 1
          OBVIOUS
        <5> QED  BY <4>1, <4>2, <5>1
      <4>4. Calls[Len(replies) + 1][1] = "evidence"
        <5>1. Len(replies) + 1 = 1
          BY <4>2, <4>3
        <5> QED  BY <4>3, <5>1
      <4> HIDE DEF Calls
      <4> QED  BY <3>1, <4>4 DEF Returned, WorkerSays
    <3> HIDE DEF WorkerSays, Calls, Returned
    <3> QED  BY <2>2, <2>3, <3>1, <3>2, <3>3 DEF WorkerReturns
  <2>4. CASE WorkerFails
    BY <2>2, <2>4 DEF WorkerFails
  <2>5. CASE Respond
    <3>1. response' = {Answered} /\ job' = job /\ replies' = replies
      BY <2>5 DEF Respond, Answered
    <3>2. Calls' = Calls
      BY <3>1 DEF Calls
    <3>3. Answered' = Answered /\ WorkerSays' = WorkerSays
      BY <3>1, <3>2 DEF Answered, Comparison, Solid, Evidence, Reply, WorkerSays
    <3> QED  BY <2>1, <3>1, <3>2, <3>3 DEF DeskInv
  <2>6. CASE Ask
    <3>1. job' \in Jobs /\ replies' = <<>> /\ response' = {}
      BY <2>6 DEF Ask
    <3> QED  BY <1>2, <3>1
  <2>7. CASE UNCHANGED deskVars
    <3>1. job' = job /\ replies' = replies /\ response' = response
      BY <2>7 DEF deskVars
    <3>2. Calls' = Calls
      BY <3>1 DEF Calls
    <3>3. Answered' = Answered /\ WorkerSays' = WorkerSays
      BY <3>1, <3>2 DEF Answered, Comparison, Solid, Evidence, Reply, WorkerSays
    <3> QED  BY <3>1, <3>2, <3>3 DEF DeskInv
  <2> QED  BY <2>3, <2>4, <2>5, <2>6, <2>7 DEF DeskNext
<1> QED  BY <1>1, <1>3, PTL DEF DeskSpec

\* Where a comparison heard from a call, every such call of it was answered.
LEMMA Heard ==
    ASSUME DeskInv, job.kind = "compare", NEW call, Reply(call) # {},
           NEW n \in DOMAIN Calls, Calls[n] = call
    PROVE  n \in DOMAIN replies /\ replies[n] # {}
<1>1. Calls = Artifact!ComparisonCalls(job.baseline, job.candidate)
  BY DEF Calls
<1>2. /\ Len(Calls) \in Nat /\ DOMAIN Calls = 1..Len(Calls)
      /\ \A i, k \in DOMAIN Calls : Calls[i] = Calls[k] => i = k
  BY <1>1, CallsApart
<1>3. DOMAIN replies = 1..Len(replies) /\ Len(replies) \in Nat /\ Len(replies) <= Len(Calls)
  BY LenProperties DEF DeskInv
<1> HIDE DEF Calls
<1>4. PICK k \in DOMAIN replies : Calls[k] = call /\ replies[k] # {}
  BY DEF Reply
<1>5. k \in DOMAIN Calls
  BY <1>2, <1>3, <1>4
<1> QED  BY <1>2, <1>4, <1>5

\* Of two DXF files of which a comparison says that they are the same, and read whole.
LEMMA SameIsWhole ==
    ASSUME NEW b, NEW c, FileTypes(b), FileTypes(c), NEW statuses, NEW indexed,
           Artifact!Compared(b, c, statuses, indexed).same # {}
    PROVE  /\ indexed
           /\ Artifact!Compared(b, c, statuses, indexed).same = {TRUE} =>
                Shown(b) = Shown(c) /\ ~Opaque(b) /\ ~Opaque(c)
<1> DEFINE Entire == /\ Artifact!Format(b) = "dxf" /\ Artifact!Format(c) = "dxf" /\ indexed
                     /\ Artifact!Complete(b) /\ Artifact!Complete(c)
           Equal == /\ ~Artifact!More(Artifact!Fingerprints(c), Artifact!Fingerprints(b))
                    /\ ~Artifact!More(Artifact!Fingerprints(b), Artifact!Fingerprints(c))
<1>1. Artifact!Compared(b, c, statuses, indexed).same = IF Entire THEN {Equal} ELSE {}
  BY DEF Artifact!Compared
<1>2. Entire
  BY <1>1
<1>3. b.format = "dxf" /\ c.format = "dxf"
  BY <1>2 DEF Artifact!Format
<1>4. b.entities \in Seq(Range(b.entities)) /\ c.entities \in Seq(Range(c.entities))
  BY <1>3 DEF FileTypes
<1>5. /\ ~Opaque(b) /\ Artifact!Fingerprints(b) = Shown(b)
      /\ ~Opaque(c) /\ Artifact!Fingerprints(c) = Shown(c)
  BY <1>2, <1>4, CompleteFile
<1>6. ASSUME Artifact!Compared(b, c, statuses, indexed).same = {TRUE} PROVE Shown(b) = Shown(c)
  <2>1. Equal
    <3> HIDE DEF Equal, Entire
    <3>1. {Equal} = {TRUE}
      BY <1>1, <1>2, <1>6
    <3>2. TRUE \in {Equal}
      BY <3>1, Zenon
    <3>3. TRUE = Equal
      BY <3>2, Zenon
    <3> QED  BY <3>3, Zenon
  <2>2. ~Artifact!More(Shown(c), Shown(b)) /\ ~Artifact!More(Shown(b), Shown(c))
    BY <1>5, <2>1
  <2> QED  BY <1>4, <2>2, ShownIsCount, NeitherHasMore
<1> QED  BY <1>2, <1>5, <1>6

\* What an audited comparison was given.
LEMMA AuditedFiles ==
    ASSUME NEW b, NEW c, NEW statuses, NEW indexed,
           Artifact!Compared(b, c, statuses, indexed).status = "audited"
    PROVE  /\ Artifact!Format(b) # "none" /\ Artifact!Format(b) = b.format
           /\ Artifact!Format(c) = b.format /\ c.format = b.format
           /\ b.format \in {"dxf", "ifc"} => indexed
           /\ "failed_verification" \notin statuses /\ "needs_confirmation" \notin statuses
<1> DEFINE a == Artifact!Compared(b, c, statuses, indexed)
           fb == Artifact!Format(b)
           fc == Artifact!Format(c)
<1>1. a.status = Artifact!Verdict(Artifact!CompareError(b, c, indexed) \/ "failed_verification" \in statuses,
                                  "needs_confirmation" \in statuses)
  BY DEF Artifact!Compared
<1>2. ~Artifact!CompareError(b, c, indexed) /\ "failed_verification" \notin statuses /\ "needs_confirmation" \notin statuses
  BY <1>1 DEF Artifact!Verdict
<1>3. fb # "none" /\ fb = fc /\ (fb \in {"dxf", "ifc"} => indexed)
  BY <1>2 DEF Artifact!CompareError
<1>4. fb = b.format /\ fc = c.format
  BY <1>3 DEF Artifact!Format
<1> QED  BY <1>2, <1>3, <1>4

\* The GlobalIds of a model, those only one of two has, and those both have for
\* different things.
GuidsOf(f) == {r.guid : r \in Range(f.roots)} \ {0}
OnlyIn(b, c) == GuidsOf(b) \ GuidsOf(c)
Differing(b, c) == {g \in GuidsOf(b) \cap GuidsOf(c) : Artifact!Index(b)[g] # Artifact!Index(c)[g]}

\* What an audited comparison lists of two models.
LEMMA AuditedLists ==
    ASSUME NEW b, NEW c, NEW statuses, NEW indexed,
           Artifact!Compared(b, c, statuses, indexed).status = "audited", b.format = "ifc"
    PROVE  /\ Artifact!Compared(b, c, statuses, indexed).added = Artifact!Listed(OnlyIn(c, b))
           /\ Artifact!Compared(b, c, statuses, indexed).deleted = Artifact!Listed(OnlyIn(b, c))
           /\ Artifact!Compared(b, c, statuses, indexed).changed = Artifact!Listed(Differing(b, c))
<1>1. Artifact!Format(b) = "ifc" /\ Artifact!Format(c) = "ifc" /\ indexed
  BY AuditedFiles
<1>2. DOMAIN Artifact!Index(b) = GuidsOf(b) /\ DOMAIN Artifact!Index(c) = GuidsOf(c)
  BY DEF Artifact!Index, Artifact!Range, Range, GuidsOf
<1> QED  BY <1>1, <1>2 DEF Artifact!Compared, Differing, OnlyIn

\* What two models say of a GlobalId is what their indexes say.
LEMMA AuditedModel ==
    ASSUME NEW f, FileTypes(f), f.format = "ifc", NEW reply,
           Artifact!Audit(f, reply) \notin {"failed_verification", "needs_confirmation"}
    PROVE  LET Guids == {r.guid : r \in Range(f.roots)} \ {0}
           IN /\ Guids \in SUBSET Nat /\ IsFiniteSet(Guids)
              /\ \A g \in Guids :
                   {<<r.sign, r.container>> : r \in {x \in Range(f.roots) : x.guid = g}} = {Artifact!Index(f)[g]}
<1> DEFINE s == f.roots
           Guids == {r.guid : r \in Range(s)} \ {0}
<1>1. s \in Seq(Range(s)) /\ \A r \in Range(s) : r.guid \in Nat
  BY DEF FileTypes
<1>2. Artifact!Twice(f) \ {0} = {}
  <2>1. Artifact!IfcStatus(f) # "failed_verification"
    BY DEF Artifact!Audit
  <2> QED  BY <2>1 DEF Artifact!IfcStatus, Artifact!Verdict
<1>3. Guids \in SUBSET Nat
  BY <1>1
<1>4. IsFiniteSet(Guids)
  <2>1. DOMAIN s = 1..Len(s) /\ Len(s) \in Nat
    BY <1>1, LenProperties
  <2>2. IsFiniteSet(DOMAIN s)
    BY <2>1, FS_Interval
  <2> DEFINE q == [i \in DOMAIN s |-> s[i].guid]
  <2>3. IsFiniteSet({q[i] : i \in DOMAIN q})
    BY <2>2, FiniteImage
  <2>4. Guids \subseteq {q[i] : i \in DOMAIN q}
    BY DEF Range
  <2> QED  BY <2>3, <2>4, FS_Subset
<1> QED  BY <1>1, <1>2, <1>3, <1>4, IndexSays

\* Comparisons are of what the files show: by the files themselves, not by what was kept of them.
THEOREM ComparisonsAreOfWholeFiles == DeskSpec => []ComparisonIsOfWholeFiles
<1>1. DeskInv => ComparisonIsOfWholeFiles
  <2> SUFFICES ASSUME DeskInv, NEW a \in response, job.kind = "compare"
               PROVE  LET b == job.baseline
                          c == job.candidate
                          Guids(f) == {r.guid : r \in Range(f.roots)} \ {0}
                          Full(S) == Cardinality(S) = Budget.listed
                          Says(f, guid) == {<<r.sign, r.container>> : r \in {x \in Range(f.roots) : x.guid = guid}}
                      IN /\ a.same = {TRUE} => Shown(b) = Shown(c) /\ ~Opaque(b) /\ ~Opaque(c)
                         /\ a.same # {} => \A n \in DOMAIN replies : Calls[n][1] = "index" => replies[n] # {}
                         /\ a.status = "audited" =>
                              /\ \A n \in DOMAIN Calls : n \in DOMAIN replies /\ replies[n] # {}
                              /\ b.format = c.format
                              /\ b.format = "ifc" =>
                                   /\ Guids(c) \ Guids(b) \subseteq a.added \/ Full(a.added)
                                   /\ Guids(b) \ Guids(c) \subseteq a.deleted \/ Full(a.deleted)
                                   /\ \/ Full(a.changed)
                                      \/ \A g \in Guids(b) \cap Guids(c) : Says(b, g) = Says(c, g) \/ g \in a.changed
    BY DEF ComparisonIsOfWholeFiles
  <2> DEFINE b == job.baseline
             c == job.candidate
             Guids(f) == {r.guid : r \in Range(f.roots)} \ {0}
             Full(S) == Cardinality(S) = Budget.listed
             Says(f, guid) == {<<r.sign, r.container>> : r \in {x \in Range(f.roots) : x.guid = guid}}
             heardB == Reply(<<"audit", "baseline">>)
             heardC == Reply(<<"audit", "candidate">>)
             indexed == Reply(<<"index", "baseline">>) # {} /\ Reply(<<"index", "candidate">>) # {}
             statuses == {Artifact!Audit(b, heardB), Artifact!Audit(c, heardC)}
  <2>1. /\ job \in Jobs /\ a = Comparison
        /\ replies \in Seq(Range(replies)) /\ Len(replies) <= Len(Calls)
    BY DEF DeskInv, Answered
  <2>2. FileTypes(b) /\ FileTypes(c)
    BY <2>1, DeskAssumption
  <2>3. a = Artifact!Compared(b, c, statuses, indexed)
    BY <2>1 DEF Comparison
  <2>4. Calls = Artifact!ComparisonCalls(b, c)
    BY DEF Calls
  <2>5. \A n \in DOMAIN Calls :
          Calls[n] \in {<<"audit", "baseline">>, <<"audit", "candidate">>, <<"index", "baseline">>, <<"index", "candidate">>}
    BY <2>4, CallsApart
  <2>6. \A n \in DOMAIN Calls :
          Calls[n][1] = "index" => Artifact!Format(b) = Artifact!Format(c) /\ Artifact!Format(b) \in {"dxf", "ifc"}
    BY <2>4, CallsApart
  <2>7. DOMAIN replies \subseteq DOMAIN Calls
    BY <2>1, <2>4, CallsApart, LenProperties
  <2> HIDE DEF Calls
  <2>8. ASSUME NEW n \in DOMAIN Calls, Calls[n][1] = "index", indexed
        PROVE  n \in DOMAIN replies /\ replies[n] # {}
    <3>1. Calls[n] \in {<<"index", "baseline">>, <<"index", "candidate">>}
      BY <2>5, <2>8
    <3> QED  BY <2>1, <2>8, <3>1, Heard
  <2>9. a.same # {} =>
          /\ indexed
          /\ a.same = {TRUE} => Shown(b) = Shown(c) /\ ~Opaque(b) /\ ~Opaque(c)
    <3> HIDE DEF b, c, statuses, indexed
    <3> QED  BY <2>2, <2>3, SameIsWhole
  <2>10. ASSUME a.status = "audited"
         PROVE  /\ \A n \in DOMAIN Calls : n \in DOMAIN replies /\ replies[n] # {}
                /\ b.format = c.format
                /\ b.format = "ifc" =>
                     /\ Guids(c) \ Guids(b) \subseteq a.added \/ Full(a.added)
                     /\ Guids(b) \ Guids(c) \subseteq a.deleted \/ Full(a.deleted)
                     /\ Full(a.changed) \/ \A g \in Guids(b) \cap Guids(c) : Says(b, g) = Says(c, g) \/ g \in a.changed
    <3>1. /\ Artifact!Format(b) # "none" /\ Artifact!Format(b) = Artifact!Format(c)
          /\ b.format = c.format /\ Artifact!Format(b) = b.format
          /\ Artifact!Format(b) \in {"dxf", "ifc"} => indexed
          /\ "failed_verification" \notin statuses /\ "needs_confirmation" \notin statuses
          /\ b.format = "ifc" =>
               /\ a.added = Artifact!Listed(Guids(c) \ Guids(b))
               /\ a.deleted = Artifact!Listed(Guids(b) \ Guids(c))
               /\ a.changed = Artifact!Listed({g \in Guids(b) \cap Guids(c) : Artifact!Index(b)[g] # Artifact!Index(c)[g]})
      <4> HIDE DEF b, c, statuses, indexed
      <4> DEFINE r == Artifact!Compared(b, c, statuses, indexed)
      <4>1. r.status = "audited"
        BY <2>3, <2>10
      <4>2. /\ Artifact!Format(b) # "none" /\ Artifact!Format(b) = b.format
            /\ Artifact!Format(c) = b.format /\ c.format = b.format
            /\ b.format \in {"dxf", "ifc"} => indexed
            /\ "failed_verification" \notin statuses /\ "needs_confirmation" \notin statuses
        BY <4>1, AuditedFiles
      <4>3. ASSUME b.format = "ifc"
            PROVE  /\ r.added = Artifact!Listed(OnlyIn(c, b))
                   /\ r.deleted = Artifact!Listed(OnlyIn(b, c))
                   /\ r.changed = Artifact!Listed(Differing(b, c))
        BY <4>1, <4>3, AuditedLists
      <4> HIDE DEF r
      <4> QED  BY <2>3, <4>2, <4>3 DEF r, GuidsOf, OnlyIn, Differing
    <3>2. heardB # {} /\ heardC # {}
      BY <3>1 DEF Artifact!Audit
    <3>3. ASSUME NEW n \in DOMAIN Calls PROVE n \in DOMAIN replies /\ replies[n] # {}
      <4>1. CASE Calls[n] \in {<<"audit", "baseline">>, <<"audit", "candidate">>}
        BY <2>1, <3>2, <3>3, <4>1, Heard
      <4>2. CASE Calls[n] \in {<<"index", "baseline">>, <<"index", "candidate">>}
        <5>1. Calls[n][1] = "index"
          BY <4>2
        <5>2. indexed
          BY <2>6, <3>1, <3>3, <5>1
        <5> QED  BY <2>8, <3>3, <5>1, <5>2
      <4> QED  BY <2>5, <3>3, <4>1, <4>2
    <3>4. ASSUME b.format = "ifc"
          PROVE  /\ Guids(c) \ Guids(b) \subseteq a.added \/ Full(a.added)
                 /\ Guids(b) \ Guids(c) \subseteq a.deleted \/ Full(a.deleted)
                 /\ Full(a.changed) \/ \A g \in Guids(b) \cap Guids(c) : Says(b, g) = Says(c, g) \/ g \in a.changed
      <4>1. /\ Guids(b) \in SUBSET Nat /\ IsFiniteSet(Guids(b))
            /\ \A g \in Guids(b) : Says(b, g) = {Artifact!Index(b)[g]}
        BY <2>2, <3>1, <3>4, AuditedModel
      <4>2. /\ Guids(c) \in SUBSET Nat /\ IsFiniteSet(Guids(c))
            /\ \A g \in Guids(c) : Says(c, g) = {Artifact!Index(c)[g]}
        BY <2>2, <3>1, <3>4, AuditedModel
      <4> DEFINE gb == Guids(b)
                 gc == Guids(c)
                 Other == {g \in gb \cap gc : Artifact!Index(b)[g] # Artifact!Index(c)[g]}
      <4>3. /\ a.added = Artifact!Listed(gc \ gb) /\ a.deleted = Artifact!Listed(gb \ gc)
            /\ a.changed = Artifact!Listed(Other)
        BY <3>1, <3>4
      <4>4. /\ gc \ gb \in SUBSET Nat /\ IsFiniteSet(gc \ gb)
            /\ gb \ gc \in SUBSET Nat /\ IsFiniteSet(gb \ gc)
            /\ Other \in SUBSET Nat /\ IsFiniteSet(Other)
        <5> HIDE DEF gb, gc
        <5>1. IsFiniteSet(gb) /\ IsFiniteSet(gc) /\ gb \in SUBSET Nat /\ gc \in SUBSET Nat
          BY <4>1, <4>2 DEF gb, gc
        <5>2. gc \ gb \subseteq gc /\ gb \ gc \subseteq gb /\ Other \subseteq gb
          OBVIOUS
        <5> QED  BY <5>1, <5>2, FS_Subset
      <4> HIDE DEF gb, gc, Other
      <4>5. /\ a.added = gc \ gb \/ Full(a.added)
            /\ a.deleted = gb \ gc \/ Full(a.deleted)
            /\ a.changed = Other \/ Full(a.changed)
        BY <4>3, <4>4, ListedOrFull
      <4>6. \A g \in gb \cap gc : Says(b, g) = Says(c, g) \/ g \in Other
        <5> HIDE DEF Says
        <5> QED  BY <4>1, <4>2 DEF Other, gb, gc
      <4> QED  BY <4>5, <4>6 DEF gb, gc
    <3> QED  BY <3>1, <3>3, <3>4
  <2>11. a.same # {} => \A n \in DOMAIN replies : Calls[n][1] = "index" => replies[n] # {}
    BY <2>7, <2>8, <2>9
  <2> QED  BY <2>9, <2>10, <2>11
<1> QED  BY <1>1, DeskInvariant, PTL

\* A solid that passed has every hole of its contract in the file that was written.
THEOREM PassedSolidHasEveryHoleHolds == DeskSpec => []PassedSolidHasEveryHole
<1>1. DeskInv => PassedSolidHasEveryHole
  <2> SUFFICES ASSUME DeskInv, NEW a \in response, job.kind = "solid", a.status = "passed"
               PROVE  \E step \in Reply(<<"generate", "step">>) :
                        LET c == job.contract
                            holes == {n \in DOMAIN c.cylinders : c.cylinders[n].diameter > c.tolerance}
                            Is(n, k) ==
                                /\ Artifact!Within(c.cylinders[n].diameter, step.cylinders[k].diameter, c.tolerance)
                                /\ \A axis \in 1..2 :
                                     Artifact!Within(c.cylinders[n].centre[axis], step.cylinders[k].centre[axis], c.tolerance)
                        IN /\ step.valid
                           /\ \A axis \in 1..3 : Artifact!Within(c.box[axis], step.box[axis], c.tolerance)
                           /\ \E where \in Injection(holes, DOMAIN step.cylinders) : \A n \in holes : Is(n, where[n])
    BY DEF PassedSolidHasEveryHole
  <2> DEFINE c == job.contract
             written == Reply(<<"generate", "step">>)
             audited == Reply(<<"audit", "step">>)
  <2>1. /\ job \in Jobs /\ a = Solid
        /\ \A n \in DOMAIN replies : Calls[n][1] = "generate" => replies[n] \subseteq job.written
    BY DEF DeskInv, Answered
  <2>2. Artifact!SolidPassed(c, written, audited)
    BY <2>1 DEF Solid
  <2>3. PICK step \in written :
          /\ Artifact!StepStatus(step) # "failed_verification"
          /\ \A axis \in 1..3 : Artifact!Within(c.box[axis], step.box[axis], c.tolerance)
          /\ Artifact!CylindersHold(c, step)
    BY <2>2 DEF Artifact!SolidPassed
  <2>4. step \in job.written
    <3>1. PICK n \in DOMAIN replies : Calls[n] = <<"generate", "step">> /\ step \in replies[n]
      BY <2>3 DEF Reply
    <3>2. Calls[n][1] = "generate"
      BY <3>1
    <3> QED  BY <2>1, <3>1, <3>2
  <2>5. c.tolerance \in Nat /\ Cylinders(c.cylinders) /\ Cylinders(step.cylinders)
    BY <2>1, <2>4, DeskAssumption
  <2>6. step.valid
    BY <2>3 DEF Artifact!StepStatus, Artifact!Verdict
  <2> HIDE DEF c
  <2>7. LET holes == {n \in DOMAIN c.cylinders : c.cylinders[n].diameter > c.tolerance}
            Is(n, k) ==
                /\ Artifact!Within(c.cylinders[n].diameter, step.cylinders[k].diameter, c.tolerance)
                /\ \A axis \in 1..2 :
                     Artifact!Within(c.cylinders[n].centre[axis], step.cylinders[k].centre[axis], c.tolerance)
        IN \E where \in Injection(holes, DOMAIN step.cylinders) : \A n \in holes : Is(n, where[n])
    BY <2>3, <2>5, HolesAreApart
  <2> QED  BY <2>3, <2>6, <2>7 DEF c
<1> QED  BY <1>1, DeskInvariant, PTL

-----------------------------------------------------------------------------
(* Building models *)

\* A report passed if no rule found anything and every rule is passed.
LEMMA NothingFound ==
    ASSUME NEW b, NEW c, NEW ids, OpenBim!Report(b, c, ids, Profile).status = "passed"
    PROVE  /\ OpenBim!IntegrityIssues(c, Profile) = {} /\ OpenBim!RevisionIssues(b, c, Profile) = {}
           /\ OpenBim!ClearanceIssues(c, Profile) = {}
           /\ \A r \in OpenBim!RevisionResults(b, c, Profile) : r.status = "PASSED"
<1> DEFINE issues == OpenBim!IdsIssues(c, ids) \cup OpenBim!IntegrityIssues(c, Profile)
                       \cup OpenBim!RevisionIssues(b, c, Profile) \cup OpenBim!ClearanceIssues(c, Profile)
           results == OpenBim!IdsResults(c, ids) \cup OpenBim!IntegrityResults(c, Profile)
                        \cup OpenBim!RevisionResults(b, c, Profile)
                        \cup {OpenBim!Outcome("GEO-01", OpenBim!ClearanceIssues(c, Profile), "PASSED")}
           Failed == OpenBim!HasErrors(issues) \/ \E r \in results : r.status = "FAILED"
           Doubtful == issues # {} \/ \E r \in results : r.status # "PASSED"
<1>1. OpenBim!Report(b, c, ids, Profile).status
        = IF Failed THEN "failed_verification" ELSE IF Doubtful THEN "needs_confirmation" ELSE "passed"
  BY DEF OpenBim!Report
<1>2. ~Doubtful
  <2> HIDE DEF Failed, Doubtful
  <2> QED  BY <1>1
<1> QED  BY <1>2

\* A list of rules none of which found anything has the conditions under which they would.
LEMMA IntegrityHolds ==
    ASSUME NEW m, OpenBim!IntegrityIssues(m, Profile) = {}
    PROVE  /\ m.schema = Profile.schema /\ m.projects = 1 /\ m.unit # 0
           /\ OpenBim!Unidentified(m) = {} /\ OpenBim!SameGuid(m) = {} /\ OpenBim!SameKey(m, Profile) = {}
           /\ \A i \in OpenBim!Applicable(m, Profile) :
                \E x \in OpenBim!Container(m.entities[i]) : x.type \in Profile.containers
<1>1. /\ OpenBim!When(m.schema # Profile.schema \/ m.projects # 1, OpenBim!Errors("IFC-01", {{}})) = {}
      /\ OpenBim!When(m.unit = 0, OpenBim!Warnings("IFC-01", {{}})) = {}
      /\ OpenBim!Errors("IFC-02", OpenBim!Unidentified(m) \cup OpenBim!SameGuid(m)) = {}
      /\ OpenBim!Errors("IFC-03", {{i} : i \in {k \in OpenBim!Applicable(m, Profile) :
                     ~\E x \in OpenBim!Container(m.entities[k]) : x.type \in Profile.containers}}) = {}
      /\ OpenBim!Errors("REV-01", OpenBim!SameKey(m, Profile)) = {}
  BY DEF OpenBim!IntegrityIssues
<1>2. \A rule, groups : OpenBim!Errors(rule, groups) = {} => groups = {}
  BY DEF OpenBim!Errors
<1>3. OpenBim!Errors("IFC-01", {{}}) # {} /\ OpenBim!Warnings("IFC-01", {{}}) # {}
  BY DEF OpenBim!Errors, OpenBim!Warnings
<1>4. \A condition, issues : issues # {} /\ OpenBim!When(condition, issues) = {} => ~condition
  BY DEF OpenBim!When
<1>5. /\ ~(m.schema # Profile.schema \/ m.projects # 1) /\ m.unit # 0
  BY <1>1, <1>3, <1>4
<1>6. OpenBim!Unidentified(m) \cup OpenBim!SameGuid(m) = {} /\ OpenBim!SameKey(m, Profile) = {}
  BY <1>1, <1>2
<1>7. {k \in OpenBim!Applicable(m, Profile) :
          ~\E x \in OpenBim!Container(m.entities[k]) : x.type \in Profile.containers} = {}
  BY <1>1, <1>2
<1> QED  BY <1>5, <1>6, <1>7

\* Who shares nothing is alone in its group.
LEMMA AloneInGroup ==
    ASSUME NEW group, IsFiniteSet(group), ~(OpenBim!Cardinality(group) > 1), NEW i \in group, NEW k \in group
    PROVE  i = k
<1> SUFFICES ASSUME i # k PROVE FALSE
  OBVIOUS
<1>1. Cardinality({i}) = 1 /\ IsFiniteSet({i})
  BY FS_Singleton
<1>2. Cardinality({i} \cup {k}) = 2
  <2>1. k \notin {i}
    OBVIOUS
  <2>2. Cardinality({i} \cup {k}) = Cardinality({i}) + 1
    BY <1>1, <2>1, FS_AddElement
  <2> QED  BY <1>1, <2>2
<1>3. Cardinality({i} \cup {k}) <= Cardinality(group) /\ Cardinality(group) \in Nat
  BY FS_Subset, FS_CardinalityType
<1>4. OpenBim!Cardinality(group) = Cardinality(group)
  BY DEF OpenBim!Cardinality, Cardinality
<1> QED  BY <1>2, <1>3, <1>4

\* The entities of a model are finitely many.
LEMMA FewEntities ==
    ASSUME NEW m, ModelTypes(m)
    PROVE  /\ DOMAIN m.entities = 1..Len(m.entities) /\ Len(m.entities) \in Nat
           /\ IsFiniteSet(DOMAIN m.entities) /\ Cardinality(DOMAIN m.entities) = Len(m.entities)
<1>1. DOMAIN m.entities = 1..Len(m.entities) /\ Len(m.entities) \in Nat
  BY LenProperties DEF ModelTypes
<1> DEFINE n == Len(m.entities)
<1>2. n \in Nat /\ DOMAIN m.entities = 1..n
  BY <1>1
<1> HIDE DEF n
<1>3. IsFiniteSet(1..n) /\ Cardinality(1..n) = n
  <2>1. IsFiniteSet(1..n) /\ Cardinality(1..n) = IF 1 > n THEN 0 ELSE n - 1 + 1
    BY <1>2, FS_Interval
  <2> QED  BY <1>2, <2>1
<1> QED  BY <1>1, <1>2, <1>3 DEF n

\* Where no group shares a GlobalId, each has its own; where none shares a key, too.
LEMMA OwnGuids ==
    ASSUME NEW m, ModelTypes(m), OpenBim!SameGuid(m) = {},
           NEW i \in OpenBim!Identified(m), NEW k \in OpenBim!Identified(m),
           m.entities[i].guid = m.entities[k].guid
    PROVE  i = k
<1> DEFINE group == {j \in OpenBim!Identified(m) : m.entities[j].guid = m.entities[i].guid}
<1>1. IsFiniteSet(group)
  <2>1. group \subseteq DOMAIN m.entities
    BY DEF OpenBim!Identified
  <2> QED  BY <2>1, FewEntities, FS_Subset
<1>2. ~(OpenBim!Cardinality(group) > 1)
  BY DEF OpenBim!SameGuid, OpenBim!Shared
<1>3. i \in group /\ k \in group
  OBVIOUS
<1> HIDE DEF group
<1> QED  BY <1>1, <1>2, <1>3, AloneInGroup

LEMMA OwnKeys ==
    ASSUME NEW m, ModelTypes(m), OpenBim!SameKey(m, Profile) = {},
           NEW i \in OpenBim!Keyed(m, Profile), NEW k \in OpenBim!Keyed(m, Profile),
           m.entities[i].key = m.entities[k].key
    PROVE  i = k
<1> DEFINE group == {j \in OpenBim!Keyed(m, Profile) : m.entities[j].key = m.entities[i].key}
<1>1. IsFiniteSet(group)
  <2>1. group \subseteq DOMAIN m.entities
    BY DEF OpenBim!Keyed, OpenBim!Applicable
  <2> QED  BY <2>1, FewEntities, FS_Subset
<1>2. ~(OpenBim!Cardinality(group) > 1)
  BY DEF OpenBim!SameKey, OpenBim!Shared
<1>3. i \in group /\ k \in group
  OBVIOUS
<1> HIDE DEF group
<1> QED  BY <1>1, <1>2, <1>3, AloneInGroup

\* As many GlobalIds as entities.
LEMMA GuidsAreMany ==
    ASSUME NEW m, ModelTypes(m), OpenBim!Unidentified(m) = {}, OpenBim!SameGuid(m) = {}
    PROVE  Cardinality({e.guid : e \in Range(m.entities)}) = Len(m.entities)
<1> DEFINE D == DOMAIN m.entities
           G == {e.guid : e \in Range(m.entities)}
           f == [i \in D |-> m.entities[i].guid]
<1>1. IsFiniteSet(D) /\ Cardinality(D) = Len(m.entities)
  BY FewEntities
<1>2. OpenBim!Identified(m) = D
  BY DEF OpenBim!Unidentified, OpenBim!Identified
<1>3. \A i, k \in D : m.entities[i].guid = m.entities[k].guid => i = k
  BY <1>2, OwnGuids
<1>4. G = {f[i] : i \in D}
  BY DEF Range
<1>5. f \in Bijection(D, G)
  <2>1. f \in [D -> G]
    BY <1>4
  <2>2. \A i, k \in D : f[i] = f[k] => i = k
    BY <1>3
  <2>3. \A g \in G : \E i \in D : f[i] = g
    BY <1>4
  <2> HIDE DEF f, G, D
  <2> QED  BY <2>1, <2>2, <2>3 DEF Bijection, Injection, Surjection, IsInjective
<1> HIDE DEF f, G, D
<1>6. Cardinality(G) = Cardinality(D)
  BY <1>1, <1>5, FS_Bijection DEF ExistsBijection
<1> QED  BY <1>1, <1>6 DEF G, D
\* What the revision rules did not find is not there.
LEMMA RevisionHolds ==
    ASSUME NEW b, NEW c, OpenBim!RevisionIssues(b, c, Profile) = {}, NEW p \in OpenBim!Revised(b, c, Profile)
    PROVE  LET before == b.entities[p[1]]
               after == c.entities[p[2]]
           IN /\ before.guid = after.guid \/ OpenBim!Authorized(Profile, before.key, "GlobalId", before.guid, after.guid)
              /\ \A field \in Profile.locked :
                   /\ OpenBim!Value(before, field) # OpenBim!Value(after, field)
                   /\ OpenBim!Value(before, field) \in Profile.valid[field]
                   /\ OpenBim!Value(after, field) \in Profile.valid[field]
                   => OpenBim!Authorized(Profile, before.key, field, OpenBim!Value(before, field), OpenBim!Value(after, field))
<1> DEFINE before == b.entities[p[1]]
           after == c.entities[p[2]]
           Renamed(x) == OpenBim!When(/\ b.entities[x[1]].guid # c.entities[x[2]].guid
                                      /\ ~OpenBim!Authorized(Profile, b.entities[x[1]].key, "GlobalId",
                                                             b.entities[x[1]].guid, c.entities[x[2]].guid),
                                      {OpenBim!Issue("REV-02", "error", {x[2]}, "GlobalId")})
           Changed == {y \in OpenBim!Revised(b, c, Profile) \X Profile.locked :
                         /\ OpenBim!Value(b.entities[y[1][1]], y[2]) # OpenBim!Value(c.entities[y[1][2]], y[2])
                         /\ OpenBim!Value(b.entities[y[1][1]], y[2]) \in Profile.valid[y[2]]
                         /\ OpenBim!Value(c.entities[y[1][2]], y[2]) \in Profile.valid[y[2]]
                         /\ ~OpenBim!Authorized(Profile, b.entities[y[1][1]].key, y[2],
                               OpenBim!Value(b.entities[y[1][1]], y[2]), OpenBim!Value(c.entities[y[1][2]], y[2]))}
<1>1. OpenBim!RevisionIssues(b, c, Profile)
        = (UNION {Renamed(x) : x \in OpenBim!Revised(b, c, Profile)})
            \cup {OpenBim!Issue("REV-03", "error", {x[1][2]}, x[2]) : x \in Changed}
  BY DEF OpenBim!RevisionIssues
<1>2. Renamed(p) = {}
  <2> HIDE DEF Renamed, Changed
  <2> QED  BY <1>1
<1>3. Changed = {}
  <2> HIDE DEF Renamed, Changed
  <2> QED  BY <1>1
<1>4. before.guid = after.guid \/ OpenBim!Authorized(Profile, before.key, "GlobalId", before.guid, after.guid)
  BY <1>2 DEF OpenBim!When
<1>5. ASSUME NEW field \in Profile.locked,
             OpenBim!Value(before, field) # OpenBim!Value(after, field),
             OpenBim!Value(before, field) \in Profile.valid[field],
             OpenBim!Value(after, field) \in Profile.valid[field]
      PROVE  OpenBim!Authorized(Profile, before.key, field, OpenBim!Value(before, field), OpenBim!Value(after, field))
  <2>1. <<p, field>> \in OpenBim!Revised(b, c, Profile) \X Profile.locked
    OBVIOUS
  <2>2. <<p, field>> \notin Changed
    BY <1>3
  <2> QED  BY <1>5, <2>1, <2>2
<1> QED  BY <1>4, <1>5

\* An asset of which neither identity is in doubt is compared, if there is none in doubt
\* in the candidate and no key is in doubt in the baseline.
LEMMA AssetsCompared ==
    ASSUME NEW b, NEW c, ModelTypes(b), ModelTypes(c),
           OpenBim!SameKey(b, Profile) = {}, OpenBim!SameKey(c, Profile) = {},
           OpenBim!Unidentified(c) = {}, OpenBim!SameGuid(c) = {},
           NEW k \in OpenBim!Keyed(b, Profile) \ InDoubt(b), NEW i \in OpenBim!Keyed(c, Profile),
           b.entities[k].key = c.entities[i].key
    PROVE  <<k, i>> \in OpenBim!Revised(b, c, Profile)
<1>1. k \in OpenBim!Assets(b, Profile) /\ i \in OpenBim!Assets(c, Profile)
  BY OwnKeys DEF OpenBim!Assets
<1>2. k \notin UNION (OpenBim!Unidentified(b) \cup OpenBim!SameGuid(b))
  BY DEF InDoubt
<1>3. i \notin UNION (OpenBim!Unidentified(c) \cup OpenBim!SameGuid(c))
  OBVIOUS
<1> QED  BY <1>1, <1>2, <1>3 DEF OpenBim!Revised

\* A revision that passed is one where no key is in doubt.
LEMMA NoKeyInDoubt ==
    ASSUME NEW b, NEW c, OpenBim!RevisionIssues(b, c, Profile) = {},
           \A r \in OpenBim!RevisionResults(b, c, Profile) : r.status = "PASSED"
    PROVE  OpenBim!SameKey(b, Profile) = {}
<1> DEFINE ambiguous == OpenBim!IdentityAmbiguous(c, Profile) \/ OpenBim!SameKey(b, Profile) # {}
           r == OpenBim!Outcome("REV-02", OpenBim!RevisionIssues(b, c, Profile), IF ambiguous THEN "AMBIGUOUS" ELSE "PASSED")
<1>1. r \in OpenBim!RevisionResults(b, c, Profile)
  BY DEF OpenBim!RevisionResults
<1>2. r.status = IF ambiguous THEN "AMBIGUOUS" ELSE "PASSED"
  BY DEF OpenBim!Outcome, OpenBim!HasErrors, OpenBim!Result
<1> QED  BY <1>1, <1>2

\* The smaller and the larger of two numbers.
LEMMA OfTwo ==
    ASSUME NEW x \in Int, NEW y \in Int
    PROVE  /\ OpenBim!Min({x, y}) = IF x <= y THEN x ELSE y
           /\ OpenBim!Max({x, y}) = IF x <= y THEN y ELSE x
BY DEF OpenBim!Min, OpenBim!Max

\* Boxes that do not overlap are apart along some axis, or one of them is thin.
LEMMA ApartOrThin ==
    ASSUME NEW axes, axes # {}, NEW p \in [1..2 -> [axes -> Int]], NEW q \in [1..2 -> [axes -> Int]],
           NEW epsilon \in Nat, ~OpenBim!Overlap(p, q, epsilon)
    PROVE  \E x \in axes : \/ p[2][x] - p[1][x] <= epsilon \/ p[2][x] - q[1][x] <= epsilon
                           \/ q[2][x] - p[1][x] <= epsilon \/ q[2][x] - q[1][x] <= epsilon
<1>1. PICK x \in axes : ~(OpenBim!Min({p[2][x], q[2][x]}) - OpenBim!Max({p[1][x], q[1][x]}) > epsilon)
  <2>1. DOMAIN p[1] = axes
    OBVIOUS
  <2> QED  BY <2>1 DEF OpenBim!Overlap
<1>2. p[2][x] \in Int /\ q[2][x] \in Int /\ p[1][x] \in Int /\ q[1][x] \in Int
  OBVIOUS
<1>3. /\ OpenBim!Min({p[2][x], q[2][x]}) = IF p[2][x] <= q[2][x] THEN p[2][x] ELSE q[2][x]
      /\ OpenBim!Max({p[1][x], q[1][x]}) = IF p[1][x] <= q[1][x] THEN q[1][x] ELSE p[1][x]
  BY <1>2, OfTwo
<1> QED  BY <1>1, <1>2, <1>3

\* A box in world units is one.
LEMMA WorldIsBox ==
    ASSUME NEW m, m.unit \in Nat, NEW axes, NEW x \in [1..2 -> [axes -> Int]]
    PROVE  OpenBim!World(m, x) \in [1..2 -> [axes -> Int]]
<1>1. \A u, y \in Int : u * y \in Int
  OBVIOUS
<1>2. DOMAIN x[1] = axes
  OBVIOUS
<1>3. \A corner \in 1..2 : \A axis \in axes : m.unit * x[corner][axis] \in Int
  BY <1>1
<1> QED  BY <1>2, <1>3 DEF OpenBim!World

\* The zone beside a box along an axis, and what it means to be out of it.
LEMMA EnvelopeIsBeside ==
    ASSUME NEW axes \in {1..2, 1..3}, NEW w \in [1..2 -> [axes -> Int]], NEW q \in [1..2 -> [axes -> Int]],
           NEW side \in 0..3, NEW need \in Int, NEW epsilon \in Nat, need > epsilon,
           \A x \in axes : w[2][x] - w[1][x] > epsilon /\ q[2][x] - q[1][x] > epsilon,
           ~OpenBim!Overlap(OpenBim!Envelope(w, side, need), q, epsilon)
    PROVE  LET axis == 1 + (side % 2)
               front == IF side < 2 THEN q[1][axis] - w[2][axis] ELSE w[1][axis] - q[2][axis]
               back == IF side < 2 THEN w[2][axis] - q[2][axis] ELSE q[1][axis] - w[1][axis]
           IN \/ front >= need - epsilon \/ back >= -epsilon
              \/ \E other \in axes \ {axis} : \/ q[1][other] >= w[2][other] - epsilon
                                              \/ q[2][other] <= w[1][other] + epsilon
<1> DEFINE axis == 1 + (side % 2)
           zone == OpenBim!Envelope(w, side, need)
<1>1. axis \in axes /\ axis \in 1..2
  OBVIOUS
<1> HIDE DEF axis
<1>2. /\ zone \in [1..2 -> [axes -> Int]]
      /\ zone[1] = IF side < 2 THEN [w[1] EXCEPT ![axis] = w[2][axis]] ELSE [w[1] EXCEPT ![axis] = @ - need]
      /\ zone[2] = IF side < 2 THEN [w[2] EXCEPT ![axis] = @ + need] ELSE [w[2] EXCEPT ![axis] = w[1][axis]]
  <2> DEFINE lower == IF side < 2 THEN [w[1] EXCEPT ![axis] = w[2][axis]] ELSE [w[1] EXCEPT ![axis] = @ - need]
             upper == IF side < 2 THEN [w[2] EXCEPT ![axis] = @ + need] ELSE [w[2] EXCEPT ![axis] = w[1][axis]]
  <2>1. zone = <<lower, upper>>
    BY DEF OpenBim!Envelope, axis
  <2>2. w[1] \in [axes -> Int] /\ w[2] \in [axes -> Int]
    OBVIOUS
  <2>3. lower \in [axes -> Int] /\ upper \in [axes -> Int]
    BY <1>1, <2>2
  <2> HIDE DEF lower, upper, zone
  <2>4. zone[1] = lower /\ zone[2] = upper /\ zone \in [1..2 -> [axes -> Int]]
    BY <2>1, <2>3
  <2> QED  BY <2>4 DEF lower, upper
<1> HIDE DEF zone
<1>3. PICK x \in axes : \/ zone[2][x] - zone[1][x] <= epsilon \/ zone[2][x] - q[1][x] <= epsilon
                        \/ q[2][x] - zone[1][x] <= epsilon \/ q[2][x] - q[1][x] <= epsilon
  BY <1>1, <1>2, ApartOrThin DEF zone
<1>4. /\ w[1][x] \in Int /\ w[2][x] \in Int /\ q[1][x] \in Int /\ q[2][x] \in Int
      /\ w[2][x] - w[1][x] > epsilon /\ q[2][x] - q[1][x] > epsilon
  OBVIOUS
<1>5. CASE x # axis
  <2>1. zone[1][x] = w[1][x] /\ zone[2][x] = w[2][x]
    BY <1>2, <1>5
  <2>2. q[1][x] >= w[2][x] - epsilon \/ q[2][x] <= w[1][x] + epsilon
    BY <1>3, <1>4, <2>1
  <2>3. x \in axes \ {axis}
    BY <1>5
  <2> QED  BY <2>2, <2>3 DEF axis
<1>6. CASE x = axis
  <2>1. side < 2 => zone[1][x] = w[2][x] /\ zone[2][x] = w[2][x] + need
    BY <1>2, <1>6
  <2>2. ~(side < 2) => zone[1][x] = w[1][x] - need /\ zone[2][x] = w[1][x]
    BY <1>2, <1>6
  <2>3. side < 2 => q[1][x] - w[2][x] >= need - epsilon \/ w[2][x] - q[2][x] >= -epsilon
    BY <1>3, <1>4, <2>1
  <2>4. ~(side < 2) => w[1][x] - q[2][x] >= need - epsilon \/ q[1][x] - w[1][x] >= -epsilon
    BY <1>3, <1>4, <2>2
  <2> QED  BY <1>6, <2>3, <2>4 DEF axis
<1> QED  BY <1>5, <1>6

\* What the clearance rule did not find is not there.
LEMMA ClearanceHolds ==
    ASSUME NEW m, OpenBim!ClearanceIssues(m, Profile) = {},
           NEW t \in OpenBim!Tools(m, Profile), NEW o \in OpenBim!Obstacles(m, Profile)
    PROVE  /\ OpenBim!Screened(m, m.entities[t], Profile) /\ m.entities[o].box # {}
           /\ ~OpenBim!Overlap(OpenBim!Envelope(OpenBim!World(m, CHOOSE x \in m.entities[t].box : TRUE),
                                               OpenBim!WorldSide(m.entities[t]),
                                               OpenBim!ServiceDepth(m, m.entities[t], Profile)),
                              OpenBim!World(m, CHOOSE x \in m.entities[o].box : TRUE), Profile.epsilon)
<1> DEFINE On(i) == m.entities[i]
           Bounds(i) == OpenBim!World(m, CHOOSE x \in On(i).box : TRUE)
           Zone(i) == OpenBim!Envelope(Bounds(i), OpenBim!WorldSide(On(i)), OpenBim!ServiceDepth(m, On(i), Profile))
           tools == OpenBim!Tools(m, Profile)
           obstacles == OpenBim!Obstacles(m, Profile)
           screened == {i \in tools : OpenBim!Screened(m, On(i), Profile)}
           shaped == {i \in obstacles : On(i).box # {}}
           unknown == (tools \ screened) \cup (obstacles \ shaped)
           clashes == {y \in screened \X shaped : OpenBim!Overlap(Zone(y[1]), Bounds(y[2]), Profile.epsilon)}
<1>1. OpenBim!ClearanceIssues(m, Profile)
        = OpenBim!Warnings("GEO-01", {{i} : i \in unknown}) \cup OpenBim!Errors("GEO-01", {{x[1], x[2]} : x \in clashes})
  BY DEF OpenBim!ClearanceIssues
<1>2. unknown = {} /\ clashes = {}
  <2> HIDE DEF unknown, clashes
  <2>1. \A rule, groups : /\ OpenBim!Warnings(rule, groups) = {} => groups = {}
                          /\ OpenBim!Errors(rule, groups) = {} => groups = {}
    BY DEF OpenBim!Warnings, OpenBim!Errors
  <2>2. {{i} : i \in unknown} = {} /\ {{x[1], x[2]} : x \in clashes} = {}
    BY <1>1, <2>1
  <2> QED  BY <2>2
<1>3. t \in screened /\ o \in shaped
  <2> HIDE DEF screened, shaped
  <2> QED  BY <1>2
<1>4. <<t, o>> \notin clashes
  BY <1>2
<1>5. ~OpenBim!Overlap(Zone(t), Bounds(o), Profile.epsilon)
  <2> HIDE DEF screened, shaped, Zone, Bounds
  <2> QED  BY <1>3, <1>4
<1> QED  BY <1>3, <1>5

\* A side is one of four, however the tool is turned.
LEMMA SideIsOne ==
    ASSUME NEW tool, tool.side \in {"+X", "+Y", "-X", "-Y"}, tool.turn \in 0..3
    PROVE  OpenBim!WorldSide(tool) \in 0..3
<1>1. \E n \in 1..4 : OpenBim!Sides[n] = tool.side
  <2>1. /\ OpenBim!Sides[1] = "+X" /\ OpenBim!Sides[2] = "+Y"
        /\ OpenBim!Sides[3] = "-X" /\ OpenBim!Sides[4] = "-Y"
    BY DEF OpenBim!Sides
  <2> QED  BY <2>1
<1> DEFINE n == CHOOSE n \in 1..4 : OpenBim!Sides[n] = tool.side
<1>2. n \in 1..4
  BY <1>1
<1> HIDE DEF n
<1>3. ((n - 1) + tool.turn) % 4 \in 0..3
  BY <1>2
<1> QED  BY <1>3 DEF OpenBim!WorldSide, n

\* A box in the world, one that is thicker than the tolerance, the depth a tool asks for,
\* and that nothing of an obstacle is in it.
Placed(m, i) == OpenBim!World(m, CHOOSE x \in m.entities[i].box : TRUE)
Solidly(m, i) == \A axis \in DOMAIN Placed(m, i)[1] : Placed(m, i)[2][axis] - Placed(m, i)[1][axis] > Profile.epsilon
Asked(m, t) ==
    IF m.entities[t].depth = {} THEN Profile.depth ELSE m.unit * (CHOOSE d \in m.entities[t].depth : TRUE)
OutOfTheWay(m, t, o) ==
    LET side == OpenBim!WorldSide(m.entities[t])
        axis == 1 + (side % 2)
        front == IF side < 2 THEN Placed(m, o)[1][axis] - Placed(m, t)[2][axis]
                             ELSE Placed(m, t)[1][axis] - Placed(m, o)[2][axis]
        back == IF side < 2 THEN Placed(m, t)[2][axis] - Placed(m, o)[2][axis]
                            ELSE Placed(m, o)[1][axis] - Placed(m, t)[1][axis]
    IN \/ front >= Asked(m, t) - Profile.epsilon \/ back >= -Profile.epsilon
       \/ \E other \in DOMAIN Placed(m, t)[1] \ {axis} :
            \/ Placed(m, o)[1][other] >= Placed(m, t)[2][other] - Profile.epsilon
            \/ Placed(m, o)[2][other] <= Placed(m, t)[1][other] + Profile.epsilon

\* Where the clearance rule found nothing, nothing that is thick is in the way of a tool.
LEMMA NothingInTheWay ==
    ASSUME NEW m, ModelTypes(m), OpenBim!ClearanceIssues(m, Profile) = {},
           NEW t \in OpenBim!Tools(m, Profile), NEW o \in OpenBim!Obstacles(m, Profile),
           Solidly(m, t), Solidly(m, o), Asked(m, t) > Profile.epsilon
    PROVE  OutOfTheWay(m, t, o)
<1> DEFINE World(i) == Placed(m, i)
           need == Asked(m, t)
           side == OpenBim!WorldSide(m.entities[t])
<1>1. PICK axes \in {1..2, 1..3} :
        \A e \in Range(m.entities) : e.box \subseteq [1..2 -> [axes -> Int]] /\ e.depth \subseteq Int
  BY DEF ModelTypes
<1>2. t \in DOMAIN m.entities /\ o \in DOMAIN m.entities
  BY DEF OpenBim!Tools, OpenBim!Obstacles
<1>3. /\ OpenBim!Screened(m, m.entities[t], Profile) /\ m.entities[o].box # {}
      /\ ~OpenBim!Overlap(OpenBim!Envelope(World(t), side, need), World(o), Profile.epsilon)
  <2>1. need = OpenBim!ServiceDepth(m, m.entities[t], Profile)
    BY DEF OpenBim!ServiceDepth, Asked
  <2> HIDE DEF need
  <2> QED  BY <2>1, ClearanceHolds DEF Placed
<1>4. m.unit \in Nat /\ Profile.epsilon \in Nat
  BY DeskAssumption DEF ModelTypes
<1>5. ASSUME NEW i \in DOMAIN m.entities, m.entities[i].box # {}
      PROVE  World(i) \in [1..2 -> [axes -> Int]]
  <2>1. m.entities[i] \in Range(m.entities)
    BY DEF Range
  <2>2. (CHOOSE x \in m.entities[i].box : TRUE) \in [1..2 -> [axes -> Int]]
    BY <1>1, <1>5, <2>1
  <2> QED  BY <1>4, <2>2, WorldIsBox DEF Placed
<1>6. World(t) \in [1..2 -> [axes -> Int]] /\ World(o) \in [1..2 -> [axes -> Int]]
  BY <1>2, <1>3, <1>5 DEF OpenBim!Screened
<1>7. side \in 0..3
  BY <1>3, SideIsOne, DeskAssumption DEF OpenBim!Screened
<1>8. need \in Int
  <2>1. CASE m.entities[t].depth = {}
    BY <2>1, DeskAssumption DEF Asked
  <2>2. CASE m.entities[t].depth # {}
    <3>1. m.entities[t] \in Range(m.entities)
      BY <1>2 DEF Range
    <3>2. (CHOOSE d \in m.entities[t].depth : TRUE) \in Int
      BY <1>1, <2>2, <3>1
    <3>3. \A u, y \in Int : u * y \in Int
      OBVIOUS
    <3> QED  BY <1>4, <2>2, <3>2, <3>3 DEF Asked
  <2> QED  BY <2>1, <2>2
<1> HIDE DEF World, need, side
<1>9. DOMAIN World(t)[1] = axes /\ DOMAIN World(o)[1] = axes
  BY <1>6
<1>10. /\ \A x \in axes : World(t)[2][x] - World(t)[1][x] > Profile.epsilon
       /\ \A x \in axes : World(o)[2][x] - World(o)[1][x] > Profile.epsilon
       /\ need > Profile.epsilon
  BY <1>9 DEF World, need, Solidly
<1> DEFINE w == World(t)
           q == World(o)
<1>11. /\ w \in [1..2 -> [axes -> Int]] /\ q \in [1..2 -> [axes -> Int]]
       /\ \A x \in axes : w[2][x] - w[1][x] > Profile.epsilon /\ q[2][x] - q[1][x] > Profile.epsilon
       /\ ~OpenBim!Overlap(OpenBim!Envelope(w, side, need), q, Profile.epsilon)
  BY <1>3, <1>6, <1>10
<1> HIDE DEF w, q
<1>12. LET axis == 1 + (side % 2)
           front == IF side < 2 THEN q[1][axis] - w[2][axis] ELSE w[1][axis] - q[2][axis]
           back == IF side < 2 THEN w[2][axis] - q[2][axis] ELSE q[1][axis] - w[1][axis]
       IN \/ front >= need - Profile.epsilon \/ back >= -Profile.epsilon
          \/ \E other \in axes \ {axis} : \/ q[1][other] >= w[2][other] - Profile.epsilon
                                          \/ q[2][other] <= w[1][other] + Profile.epsilon
  BY <1>4, <1>7, <1>8, <1>10, <1>11, EnvelopeIsBeside
<1> QED  BY <1>9, <1>12 DEF w, q, World, need, side, OutOfTheWay

\* The answer to a request for evidence has the report of the rules, if it has one.
LEMMA ReportIsOfModels ==
    ASSUME DeskInv, job.kind = "openbim", NEW a \in response, NEW r \in a.report
    PROVE  job \in Jobs /\ r = OpenBim!Report(job.baseline, job.candidate, job.ids, Profile)
<1> DEFINE heard == Reply(<<"evidence", "models">>)
           x == CHOOSE y \in heard : TRUE
<1>1. job \in Jobs /\ a = Evidence /\ \A n \in DOMAIN replies : replies[n] \subseteq WorkerSays
  BY DEF DeskInv, Answered
<1>2. heard \subseteq WorkerSays
  BY <1>1 DEF Reply
<1> HIDE DEF heard
<1>3. r \in OpenBim!Served(job, Profile, heard).report
  BY <1>1 DEF Evidence, heard
<1>4. heard # {} /\ x.ok /\ r = x.report
  BY <1>3 DEF OpenBim!Served
<1>5. x \in WorkerSays
  BY <1>2, <1>4
<1> HIDE DEF x
<1>6. x = OpenBim!WorkerResponse(job.baseline, job.candidate, job.ids, Profile)
  BY <1>4, <1>5 DEF WorkerSays
<1> QED  BY <1>1, <1>4, <1>6 DEF OpenBim!WorkerResponse

\* A building model passes only if what the report promises is so in both models.
THEOREM PassedModelConformsHolds == DeskSpec => []PassedModelConforms
<1>1. DeskInv => PassedModelConforms
  <2> SUFFICES ASSUME DeskInv, PassedReport PROVE PassedModelConforms
    BY DEF PassedModelConforms
  <2> DEFINE b == job.baseline
             c == job.candidate
  <2>1. PICK a \in response : job.kind = "openbim" /\ \E r \in a.report : r.status = "passed"
    BY DEF PassedReport
  <2>2. job \in Jobs /\ OpenBim!Report(b, c, job.ids, Profile).status = "passed"
    BY <2>1, ReportIsOfModels
  <2>3. ModelTypes(b) /\ ModelTypes(c)
    BY <2>1, <2>2, DeskAssumption
  <2> HIDE DEF b, c
  <2>4. /\ OpenBim!IntegrityIssues(c, Profile) = {} /\ OpenBim!RevisionIssues(b, c, Profile) = {}
        /\ OpenBim!ClearanceIssues(c, Profile) = {}
        /\ \A r \in OpenBim!RevisionResults(b, c, Profile) : r.status = "PASSED"
    BY <2>2, NothingFound
  <2>5. /\ c.schema = Profile.schema /\ c.projects = 1
        /\ OpenBim!Unidentified(c) = {} /\ OpenBim!SameGuid(c) = {} /\ OpenBim!SameKey(c, Profile) = {}
        /\ \A i \in OpenBim!Applicable(c, Profile) :
             \E x \in OpenBim!Container(c.entities[i]) : x.type \in Profile.containers
    BY <2>4, IntegrityHolds
  <2>6. OpenBim!SameKey(b, Profile) = {}
    BY <2>4, NoKeyInDoubt
  <2>7. Cardinality({e.guid : e \in Range(c.entities)}) = Len(c.entities)
    BY <2>3, <2>5, GuidsAreMany
  <2>8. ASSUME NEW i \in DOMAIN c.entities, c.entities[i].class \in Profile.applicable
        PROVE  Len(c.entities[i].containers) = 1 /\ c.entities[i].containers[1].type \in Profile.containers
    <3>1. PICK x \in OpenBim!Container(c.entities[i]) : x.type \in Profile.containers
      BY <2>5, <2>8 DEF OpenBim!Applicable
    <3> QED  BY <3>1 DEF OpenBim!Container
  <2> DEFINE Allowed(asset, field, before, after) ==
               \/ before = after
               \/ \E x \in Profile.authorized :
                    /\ x.key = asset /\ x.field = field
                    /\ x.before = {} \/ before \in x.before
                    /\ x.after = {} \/ after \in x.after
  <2>9. ASSUME NEW i \in DOMAIN c.entities, c.entities[i].class \in Profile.applicable,
               NEW k \in OpenBim!Keyed(b, Profile) \ InDoubt(b), b.entities[k].key = c.entities[i].key
        PROVE  /\ Allowed(c.entities[i].key, "GlobalId", b.entities[k].guid, c.entities[i].guid)
               /\ \A field \in Profile.locked :
                    LET before == OpenBim!Value(b.entities[k], field)
                        after == OpenBim!Value(c.entities[i], field)
                    IN {before, after} \subseteq Profile.valid[field] => Allowed(c.entities[i].key, field, before, after)
    <3> DEFINE p == <<k, i>>
    <3>1. i \in OpenBim!Keyed(c, Profile)
      BY <2>9 DEF OpenBim!Keyed, OpenBim!Applicable
    <3>2. p \in OpenBim!Revised(b, c, Profile) /\ p[1] = k /\ p[2] = i
      BY <2>3, <2>5, <2>6, <2>9, <3>1, AssetsCompared
    <3> HIDE DEF p
    <3>3. LET before == b.entities[p[1]]
              after == c.entities[p[2]]
          IN /\ before.guid = after.guid \/ OpenBim!Authorized(Profile, before.key, "GlobalId", before.guid, after.guid)
             /\ \A field \in Profile.locked :
                  /\ OpenBim!Value(before, field) # OpenBim!Value(after, field)
                  /\ OpenBim!Value(before, field) \in Profile.valid[field]
                  /\ OpenBim!Value(after, field) \in Profile.valid[field]
                  => OpenBim!Authorized(Profile, before.key, field, OpenBim!Value(before, field), OpenBim!Value(after, field))
      BY <2>4, <3>2, RevisionHolds
    <3>4. \A asset, field, before, after :
            before = after \/ OpenBim!Authorized(Profile, asset, field, before, after) => Allowed(asset, field, before, after)
      BY DEF OpenBim!Authorized
    <3> HIDE DEF Allowed
    <3>5. Allowed(c.entities[i].key, "GlobalId", b.entities[k].guid, c.entities[i].guid)
      BY <2>9, <3>2, <3>3, <3>4
    <3>6. ASSUME NEW field \in Profile.locked,
                 {OpenBim!Value(b.entities[k], field), OpenBim!Value(c.entities[i], field)} \subseteq Profile.valid[field]
          PROVE  Allowed(c.entities[i].key, field, OpenBim!Value(b.entities[k], field), OpenBim!Value(c.entities[i], field))
      BY <2>9, <3>2, <3>3, <3>4, <3>6
    <3> QED  BY <3>5, <3>6
  <2>10. ASSUME NEW i \in DOMAIN c.entities, c.entities[i].class \in Profile.applicable,
                NEW k \in OpenBim!Keyed(c, Profile), c.entities[k].key = c.entities[i].key
         PROVE  k = i
    <3>1. i \in OpenBim!Keyed(c, Profile)
      BY <2>10 DEF OpenBim!Keyed, OpenBim!Applicable
    <3> QED  BY <2>3, <2>5, <2>10, <3>1, OwnKeys
  <2> DEFINE World(i) == OpenBim!World(c, CHOOSE x \in c.entities[i].box : TRUE)
             Thick(i) == \A axis \in DOMAIN World(i)[1] : World(i)[2][axis] - World(i)[1][axis] > Profile.epsilon
             Need(t) == IF c.entities[t].depth = {} THEN Profile.depth
                        ELSE c.unit * (CHOOSE d \in c.entities[t].depth : TRUE)
             Clear(t, o) ==
               LET side == OpenBim!WorldSide(c.entities[t])
                   axis == 1 + (side % 2)
                   front == IF side < 2 THEN World(o)[1][axis] - World(t)[2][axis]
                                        ELSE World(t)[1][axis] - World(o)[2][axis]
                   back == IF side < 2 THEN World(t)[2][axis] - World(o)[2][axis]
                                       ELSE World(o)[1][axis] - World(t)[1][axis]
               IN \/ front >= Need(t) - Profile.epsilon \/ back >= -Profile.epsilon
                  \/ \E other \in DOMAIN World(t)[1] \ {axis} :
                       \/ World(o)[1][other] >= World(t)[2][other] - Profile.epsilon
                       \/ World(o)[2][other] <= World(t)[1][other] + Profile.epsilon
  <2>11. ASSUME NEW t \in OpenBim!Tools(c, Profile), NEW o \in OpenBim!Obstacles(c, Profile)
         PROVE  Thick(t) /\ Thick(o) /\ Need(t) > Profile.epsilon => Clear(t, o)
    <3>1. \A i : World(i) = Placed(c, i)
      BY DEF Placed
    <3> HIDE DEF World
    <3>2. (\A i : Thick(i) <=> Solidly(c, i)) /\ Need(t) = Asked(c, t)
      BY <3>1 DEF Solidly, Asked
    <3>3. Clear(t, o) <=> OutOfTheWay(c, t, o)
      BY <3>1, <3>2 DEF OutOfTheWay
    <3> HIDE DEF Thick, Need, Clear
    <3> QED  BY <2>3, <2>4, <3>2, <3>3, NothingInTheWay
  <2> HIDE DEF Allowed, Clear, Thick, Need, World
  <2> QED  BY <2>5, <2>7, <2>8, <2>9, <2>10, <2>11 DEF PassedModelConforms, Allowed, Clear, Thick, Need, World, b, c
<1> QED  BY <1>1, DeskInvariant, PTL
=============================================================================
