----------------------------- MODULE HeavyGate ------------------------------
(***************************************************************************)
(* HeavyOperationGate of operations.py: the bounded admission of heavy CAD *)
(* requests.  Tasks run on one asyncio event loop, so a step here is what  *)
(* a task does between two suspension points; steps of different tasks     *)
(* interleave at will.  The gate keeps two counters of its own (_active    *)
(* and _waiting) beside an asyncio.Semaphore, and the three are updated in *)
(* different steps: a permit handed to a waiter is counted by the gate     *)
(* only once the waiter's task runs again, and in between the waiter's     *)
(* timer may fire or new callers may arrive.                               *)
(***************************************************************************)
EXTENDS Integers, Sequences, SequencesExt

CONSTANTS Tasks,      \* the request tasks that call acquire()
          Limit,      \* DATUMGUARD_HEAVY_CONCURRENCY, at least 1
          MaxWaiters  \* DATUMGUARD_HEAVY_MAX_WAITERS, at least 1

ASSUME GateAssumption ==
    /\ IsFiniteSet(Tasks)
    /\ Limit \in Nat \ {0}
    /\ MaxWaiters \in Nat \ {0}

VARIABLES active,     \* HeavyOperationGate._active
          waiting,    \* HeavyOperationGate._waiting
          semValue,   \* Semaphore._value
          semWaiters, \* Semaphore._waiters: the tasks whose futures it holds, oldest first
          fut,        \* state of the future a task awaits inside Semaphore.acquire()
          pc          \* where the task is in its request

gateVars == <<active, waiting, semValue, semWaiters, fut, pc>>

\* "pending"   not done            "granted"  set_result(True), task not yet run
\* "cancelled" timer fired first   "revoked"  granted, and then the timer fired
FutureStates == {"none", "pending", "granted", "cancelled", "revoked"}
Phases == {"idle", "parked", "holding", "refused"}

TasksAt(phase) == {t \in Tasks : pc[t] = phase}
WithFuture(states) == {t \in Tasks : fut[t] \in states}
-----------------------------------------------------------------------------
(* asyncio.Semaphore, the library class the gate is built on *)

\* Semaphore.locked(): no permit, or somebody not cancelled is already in line.
Locked ==
    \/ semValue = 0
    \/ \E i \in DOMAIN semWaiters : fut[semWaiters[i]] # "cancelled"

InLineBefore(a, b) ==
    \E i, j \in DOMAIN semWaiters : i < j /\ semWaiters[i] = a /\ semWaiters[j] = b

\* Mutant of Woken: the newest waiters are woken first.
WokenNewest(n, P) ==
    {W \in SUBSET P :
        /\ Cardinality(W) = IF n < Cardinality(P) THEN n ELSE Cardinality(P)
        /\ \A w \in W, p \in P \ W : InLineBefore(p, w)}

\* The sets of futures that n calls of _wake_up_next complete when those of P
\* are not done: the oldest ones, and at most n.
Woken(n, P) ==
    {W \in SUBSET P :
        /\ Cardinality(W) = IF n < Cardinality(P) THEN n ELSE Cardinality(P)
        /\ \A w \in W, p \in P \ W : InLineBefore(w, p)}

\* With v permits to give after this step, wake up to n waiters.
GrantPermits(v, n, futures) ==
    \E W \in Woken(n, {t \in Tasks : futures[t] = "pending"}) :
        /\ fut' = [t \in Tasks |-> IF t \in W THEN "granted" ELSE futures[t]]
        /\ semValue' = v - Cardinality(W)
-----------------------------------------------------------------------------
Init ==
    /\ active = 0 /\ waiting = 0
    /\ semValue = Limit /\ semWaiters = <<>>
    /\ fut = [t \in Tasks |-> "none"]
    /\ pc = [t \in Tasks |-> "idle"]

\* The admission test at the head of acquire().
Saturated == active >= Limit /\ waiting >= MaxWaiters

\* acquire() returns None at once: the queue is full.
AcquireRefused(t) ==
    /\ pc[t] = "idle"
    /\ Saturated
    /\ pc' = [pc EXCEPT ![t] = "refused"]
    /\ UNCHANGED <<active, waiting, semValue, semWaiters, fut>>

\* A free permit: wait_for(semaphore.acquire()) does not suspend, so counting
\* the caller as waiting and then as active happens in one step.
AcquireAtOnce(t) ==
    /\ pc[t] = "idle"
    /\ ~Saturated
    /\ ~Locked
    /\ semValue' = semValue - 1
    /\ active' = active + 1
    /\ pc' = [pc EXCEPT ![t] = "holding"]
    /\ UNCHANGED <<waiting, semWaiters, fut>>

\* No permit: the caller is counted and its task suspends on a new future.
Park(t) ==
    /\ pc[t] = "idle"
    /\ ~Saturated
    /\ Locked
    /\ waiting' = waiting + 1
    /\ semWaiters' = Append(semWaiters, t)
    /\ fut' = [fut EXCEPT ![t] = "pending"]
    /\ pc' = [pc EXCEPT ![t] = "parked"]
    /\ UNCHANGED <<active, semValue>>

\* Mutant of TimerFires: the permit is awaited with no timeout.
TimerNeverFires(t) == FALSE /\ UNCHANGED gateVars

\* The timer of wait_for() cancels the task: an undone future is cancelled, a
\* granted one keeps its result and the cancellation is delivered instead.
TimerFires(t) ==
    /\ fut[t] \in {"pending", "granted"}
    /\ fut' = [fut EXCEPT ![t] = IF @ = "pending" THEN "cancelled" ELSE "revoked"]
    /\ UNCHANGED <<active, waiting, semValue, semWaiters, pc>>

LeaveLine(t) ==
    \E i \in DOMAIN semWaiters :
        semWaiters[i] = t /\ semWaiters' = RemoveAt(semWaiters, i)

\* Mutant of ResumeGranted: permits freed meanwhile are not passed on.
ResumeGrantedSilent(t) ==
    /\ fut[t] = "granted"
    /\ LeaveLine(t)
    /\ GrantPermits(semValue, 0, [fut EXCEPT ![t] = "none"])
    /\ waiting' = waiting - 1 /\ active' = active + 1
    /\ pc' = [pc EXCEPT ![t] = "holding"]

\* The parked task runs with its permit: it leaves the line, passes on permits
\* that were freed meanwhile, and the gate counts it as active.
ResumeGranted(t) ==
    /\ fut[t] = "granted"
    /\ LeaveLine(t)
    /\ GrantPermits(semValue, semValue, [fut EXCEPT ![t] = "none"])
    /\ waiting' = waiting - 1
    /\ active' = active + 1
    /\ pc' = [pc EXCEPT ![t] = "holding"]

\* Mutant of ResumeTimedOut: the waiter is counted for ever.
ResumeTimedOutLeaks(t) ==
    /\ fut[t] \in {"cancelled", "revoked"}
    /\ LeaveLine(t)
    /\ LET v == IF fut[t] = "revoked" THEN semValue + 1 ELSE semValue
       IN  GrantPermits(v, v, [fut EXCEPT ![t] = "none"])
    /\ pc' = [pc EXCEPT ![t] = "refused"]
    /\ UNCHANGED <<active, waiting>>

\* The parked task runs with TimeoutError: a permit it had been granted goes
\* back and wakes the next in line; acquire() returns None.
ResumeTimedOut(t) ==
    /\ fut[t] \in {"cancelled", "revoked"}
    /\ LeaveLine(t)
    /\ LET v == IF fut[t] = "revoked" THEN semValue + 1 ELSE semValue
       IN  GrantPermits(v, v, [fut EXCEPT ![t] = "none"])
    /\ waiting' = waiting - 1
    /\ pc' = [pc EXCEPT ![t] = "refused"]
    /\ UNCHANGED active

Resume(t) == ResumeGranted(t) \/ ResumeTimedOut(t)

\* Mutant of Release: the lease is released twice.
ReleaseTwice(t) ==
    /\ pc[t] = "holding"
    /\ active' = IF active - 2 > 0 THEN active - 2 ELSE 0
    /\ GrantPermits(semValue + 2, 2, fut)
    /\ pc' = [pc EXCEPT ![t] = "idle"]
    /\ UNCHANGED <<waiting, semWaiters>>

\* GateLease.release(), once, and HeavyOperationGate.release().
Release(t) ==
    /\ pc[t] = "holding"
    /\ active' = IF active - 1 > 0 THEN active - 1 ELSE 0
    /\ GrantPermits(semValue + 1, 1, fut)
    /\ pc' = [pc EXCEPT ![t] = "idle"]
    /\ UNCHANGED <<waiting, semWaiters>>

\* The caller answers 503 DG_SERVER_BUSY; the task is free for another request.
AnswerBusy(t) ==
    /\ pc[t] = "refused"
    /\ pc' = [pc EXCEPT ![t] = "idle"]
    /\ UNCHANGED <<active, waiting, semValue, semWaiters, fut>>

Acquire(t) == AcquireRefused(t) \/ AcquireAtOnce(t) \/ Park(t)

Next == \E t \in Tasks :
    \/ Acquire(t) \/ TimerFires(t) \/ Resume(t) \/ Release(t) \/ AnswerBusy(t)

Spec == Init /\ [][Next]_gateVars

\* The event loop runs ready tasks and fires timers; operations may never end.
LoopFairness == \A t \in Tasks : WF_gateVars(Resume(t)) /\ WF_gateVars(TimerFires(t))
LoopSpec == Spec /\ LoopFairness
-----------------------------------------------------------------------------
(* Properties *)

TypeOK ==
    /\ active \in Nat
    /\ waiting \in Nat
    /\ semValue \in Nat
    /\ semWaiters \in Seq(Tasks)
    /\ fut \in [Tasks -> FutureStates]
    /\ pc \in [Tasks -> Phases]

Holders == TasksAt("holding")
Promised == WithFuture({"granted", "revoked"})

\* Every permit is free, promised to a parked task, or held: whatever the order
\* of grants, timeouts and releases, none is lost and none is made up.
PermitConservation ==
    semValue + Cardinality(Promised) + Cardinality(Holders) = Limit

\* The counters that /ready and /metrics publish, and that the admission test
\* reads, agree with the tasks they count (a leaked count would refuse callers
\* for ever; the clamp max(0, active - 1) would hide a double release).
CountersHonest ==
    /\ active = Cardinality(Holders)
    /\ waiting = Cardinality(TasksAt("parked"))

\* The line of the semaphore holds exactly the parked tasks, each once.
LineIsParked ==
    /\ IsInjective(semWaiters)
    /\ ToSet(semWaiters) = TasksAt("parked")
    /\ WithFuture(FutureStates \ {"none"}) = TasksAt("parked")

\* No lost wakeup: a permit may be free while somebody waits only if a task
\* that will pass it on is about to run.
NoLostWakeup ==
    semValue > 0 /\ WithFuture({"pending"}) # {} => Promised # {}

\* First come, first served: a task that starts holding has no older task that
\* still waits in line with an undone future.
NoOvertaking ==
    [][\A t \in Tasks : pc[t] # "holding" /\ pc'[t] = "holding" =>
          \A u \in WithFuture({"pending"}) : fut'[u] = "pending" =>
             pc[t] = "parked" /\ InLineBefore(t, u)]_gateVars

\* At most Limit heavy operations run at once, seen as the permit pool.
Pool == INSTANCE PermitPool WITH holders <- Holders, queued <- TasksAt("parked")
ImplementsPool == Pool!Spec

\* Every caller of acquire() is answered even when no operation ever ends.
EveryCallerAnswered == \A t \in Tasks : pc[t] = "parked" ~> pc[t] # "parked"
=============================================================================
