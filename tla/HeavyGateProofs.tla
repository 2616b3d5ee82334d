--------------------------- MODULE HeavyGateProofs --------------------------
(***************************************************************************)
(* Proofs about HeavyGate for every set of tasks, limit and queue length:  *)
(* the bookkeeping of the gate is right, no permit is lost or made up, no  *)
(* wakeup is lost, nobody overtakes, and the gate implements the pool.     *)
(***************************************************************************)
EXTENDS HeavyGate, FiniteSetTheorems, SequenceTheorems, TLAPS

\* The part of the future states that counts as a promised permit.
PromisedIn(f) == {t \in Tasks : f[t] \in {"granted", "revoked"}}
PendingIn(f) == {t \in Tasks : f[t] = "pending"}

-----------------------------------------------------------------------------
(* Lines: what Append and RemoveAt do to a line without repetitions. *)

\* Taking position i out of a line removes that task and nobody else.
LEMMA RemoveAtLemma ==
  ASSUME NEW S, NEW q \in Seq(S), IsInjective(q), NEW i \in DOMAIN q
  PROVE  /\ RemoveAt(q, i) \in Seq(S)
         /\ IsInjective(RemoveAt(q, i))
         /\ ToSet(RemoveAt(q, i)) = ToSet(q) \ {q[i]}
         /\ DOMAIN RemoveAt(q, i) = 1..(Len(q) - 1)
         /\ \A j \in 1..(Len(q) - 1) : RemoveAt(q, i)[j] = IF j < i THEN q[j] ELSE q[j + 1]
<1> DEFINE a == SubSeq(q, 1, i-1)
           b == SubSeq(q, i+1, Len(q))
           r == RemoveAt(q, i)
<1>1. /\ Len(q) \in Nat
      /\ DOMAIN q = 1..Len(q)
      /\ i \in 1..Len(q)
  BY LenProperties
<1>2. /\ a \in Seq(S) /\ Len(a) = i-1
      /\ \A j \in 1..(i-1) : a[j] = q[j]
  BY <1>1, SubSeqProperties
<1>3. /\ b \in Seq(S) /\ Len(b) = Len(q) - i
      /\ \A j \in 1..(Len(q) - i) : b[j] = q[j+i]
  <2>1. i+1 \in Int /\ Len(q) \in Int /\ \A k \in i+1 .. Len(q) : q[k] \in S
    BY <1>1
  <2>2. /\ b \in Seq(S)
        /\ Len(b) = IF i+1 <= Len(q) THEN Len(q) - (i+1) + 1 ELSE 0
        /\ \A j \in 1..(Len(q) - (i+1) + 1) : b[j] = q[i+1+j-1]
    BY <2>1, SubSeqProperties
  <2> QED  BY <1>1, <2>2
<1>r. r = a \o b
  BY DEF RemoveAt
<1> HIDE DEF a, b, r
<1>4. /\ r \in Seq(S)
      /\ Len(r) = Len(q) - 1
      /\ \A j \in 1..(Len(q)-1) : r[j] = IF j <= i-1 THEN a[j] ELSE b[j - (i-1)]
  <2>1. /\ a \o b \in Seq(S)
        /\ Len(a \o b) = Len(a) + Len(b)
        /\ \A j \in 1..(Len(a) + Len(b)) :
              (a \o b)[j] = IF j <= Len(a) THEN a[j] ELSE b[j - Len(a)]
    BY <1>2, <1>3, ConcatProperties
  <2>2. Len(a) + Len(b) = Len(q) - 1 /\ Len(a) = i-1
    BY <1>1, <1>2, <1>3
  <2> QED  BY <1>r, <2>1, <2>2
<1>5. \A j \in 1..(Len(q)-1) : r[j] = IF j < i THEN q[j] ELSE q[j+1]
  <2> SUFFICES ASSUME NEW j \in 1..(Len(q)-1)
               PROVE  r[j] = IF j < i THEN q[j] ELSE q[j+1]
    OBVIOUS
  <2>1. CASE j < i
    BY <2>1, <1>1, <1>2, <1>4
  <2>2. CASE j >= i
    <3>1. j - (i-1) \in 1..(Len(q) - i)
      BY <2>2, <1>1
    <3>2. b[j - (i-1)] = q[(j - (i-1)) + i]
      BY <3>1, <1>3
    <3>3. (j - (i-1)) + i = j + 1
      BY <1>1
    <3>4. QED
      BY <2>2, <3>2, <3>3, <1>1, <1>4
  <2>3. QED
    BY <2>1, <2>2, <1>1
<1>6. DOMAIN r = 1..(Len(q)-1)
  BY <1>4, LenProperties
<1>7. IsInjective(r)
  <2> DEFINE at(j) == IF j < i THEN j ELSE j + 1
  <2>1. ASSUME NEW j \in DOMAIN r
        PROVE  at(j) \in DOMAIN q /\ r[j] = q[at(j)] /\ j \in Int
    BY <1>1, <1>5, <1>6
  <2>2. ASSUME NEW j \in DOMAIN r, NEW k \in DOMAIN r, r[j] = r[k]
        PROVE  j = k
    <3>1. at(j) = at(k)
      <4> HIDE DEF at, r
      <4> QED  BY <2>1, <2>2 DEF IsInjective
    <3>2. j \in Int /\ k \in Int /\ i \in Int
      BY <1>1, <2>1
    <3> QED  BY <3>1, <3>2
  <2> QED  BY <2>2 DEF IsInjective
<1>8. ToSet(r) = ToSet(q) \ {q[i]}
  <2>1. ASSUME NEW x \in ToSet(r) PROVE x \in ToSet(q) \ {q[i]}
    <3>1. PICK j \in 1..(Len(q)-1) : x = r[j]
      BY <1>6, <2>1 DEF ToSet
    <3>2. CASE j < i
      BY <3>1, <3>2, <1>1, <1>5 DEF ToSet, IsInjective
    <3>3. CASE j >= i
      <4>1. x = q[j+1] /\ j+1 \in DOMAIN q /\ j+1 # i
        BY <3>1, <3>3, <1>1, <1>5
      <4>2. QED
        BY <4>1, <1>1 DEF ToSet, IsInjective
    <3>4. QED
      BY <3>2, <3>3, <1>1
  <2>2. ASSUME NEW x \in ToSet(q) \ {q[i]} PROVE x \in ToSet(r)
    <3>1. PICK j \in DOMAIN q : x = q[j]
      BY <2>2 DEF ToSet
    <3>2. CASE j < i
      <4>1. j \in 1..(Len(q)-1) /\ r[j] = x
        BY <3>1, <3>2, <1>1, <1>5
      <4>2. QED
        BY <4>1, <1>6 DEF ToSet
    <3>3. CASE j > i
      <4>1. j-1 \in 1..(Len(q)-1) /\ ~(j-1 < i) /\ (j-1)+1 = j
        BY <3>1, <3>3, <1>1
      <4>2. r[j-1] = x
        BY <4>1, <3>1, <1>5
      <4>3. QED
        BY <4>1, <4>2, <1>6 DEF ToSet
    <3>4. QED
      BY <2>2, <3>1, <3>2, <3>3, <1>1
  <2>3. QED
    BY <2>1, <2>2
<1>9. QED
  BY <1>4, <1>5, <1>6, <1>7, <1>8 DEF r

\* Joining the end of a line adds that task and nobody else.
LEMMA AppendLemma ==
  ASSUME NEW S, NEW q \in Seq(S), IsInjective(q), NEW x \in S, x \notin ToSet(q)
  PROVE  /\ Append(q, x) \in Seq(S)
         /\ IsInjective(Append(q, x))
         /\ ToSet(Append(q, x)) = ToSet(q) \cup {x}
<1> DEFINE r == Append(q, x)
<1>1. Len(q) \in Nat /\ DOMAIN q = 1..Len(q)
  BY LenProperties
<1>2. /\ r \in Seq(S)
      /\ DOMAIN r = 1..(Len(q)+1)
      /\ \A j \in 1..Len(q) : r[j] = q[j]
      /\ r[Len(q)+1] = x
  BY <1>1, AppendProperties, LenProperties
<1>3. IsInjective(r)
  BY <1>1, <1>2 DEF IsInjective, ToSet
<1>4. ToSet(r) = ToSet(q) \cup {x}
  BY <1>1, <1>2 DEF ToSet
<1>5. QED
  BY <1>2, <1>3, <1>4

-----------------------------------------------------------------------------
(* Futures: what one round of grants does. *)

\* Sets of tasks are finite, so they can be counted.
LEMMA TaskSetsFinite ==
  ASSUME NEW P \in SUBSET Tasks
  PROVE  IsFiniteSet(P) /\ Cardinality(P) \in Nat
BY GateAssumption, FS_Subset, FS_CardinalityType DEF GateAssumption

\* Waking waiters turns free permits into promised ones, one for one; it
\* stops only when the permits, the calls or the waiters run out.
LEMMA GrantLemma ==
  ASSUME NEW v \in Nat, NEW n \in Nat, n <= v,
         NEW f \in [Tasks -> FutureStates],
         GrantPermits(v, n, f)
  PROVE  /\ fut' \in [Tasks -> FutureStates]
         /\ semValue' \in Nat
         /\ semValue' + Cardinality(PromisedIn(fut')) = v + Cardinality(PromisedIn(f))
         /\ \A t \in Tasks : f[t] # "pending" => fut'[t] = f[t]
         /\ \A t \in Tasks : f[t] = "pending" => fut'[t] \in {"pending", "granted"}
         /\ PendingIn(fut') # {} /\ n > 0 => PromisedIn(fut') # {}
         /\ PendingIn(fut') # {} => semValue' = v - n
<1> DEFINE P == PendingIn(f)
           G == PromisedIn(f)
<1>1. PICK W \in Woken(n, P) :
        /\ fut' = [t \in Tasks |-> IF t \in W THEN "granted" ELSE f[t]]
        /\ semValue' = v - Cardinality(W)
  BY DEF GrantPermits, PendingIn
<1>2. /\ W \subseteq P
      /\ Cardinality(W) = IF n < Cardinality(P) THEN n ELSE Cardinality(P)
  BY DEF Woken
<1>3. /\ P \subseteq Tasks /\ G \subseteq Tasks /\ W \subseteq Tasks
      /\ G \cap W = {}
  BY <1>2 DEF PendingIn, PromisedIn
<1>4. /\ IsFiniteSet(P) /\ Cardinality(P) \in Nat
      /\ IsFiniteSet(W) /\ Cardinality(W) \in Nat
      /\ IsFiniteSet(G) /\ Cardinality(G) \in Nat
  BY <1>3, TaskSetsFinite
<1>5. fut' \in [Tasks -> FutureStates]
  BY <1>1 DEF FutureStates
<1>6. PromisedIn(fut') = G \cup W
  BY <1>1, <1>3 DEF PromisedIn
<1>7. Cardinality(G \cup W) = Cardinality(G) + Cardinality(W)
  <2> HIDE DEF G
  <2>1. Cardinality(G \cup W) = Cardinality(G) + Cardinality(W) - Cardinality(G \cap W)
    BY <1>4, FS_Union
  <2>2. Cardinality(G \cap W) = 0
    BY <1>3, FS_EmptySet
  <2>3. QED
    BY <1>4, <2>1, <2>2
<1>8. semValue' \in Nat
  BY <1>1, <1>2, <1>4
<1>9. \A t \in Tasks : f[t] # "pending" => fut'[t] = f[t]
  BY <1>1, <1>2 DEF PendingIn
<1>10. \A t \in Tasks : f[t] = "pending" => fut'[t] \in {"pending", "granted"}
  BY <1>1
<1>11. PendingIn(fut') # {} => Cardinality(W) = n
  <2> SUFFICES ASSUME PendingIn(fut') # {}, Cardinality(W) # n
               PROVE  FALSE
    OBVIOUS
  <2>1. Cardinality(W) = Cardinality(P)
    BY <1>2
  <2>2. W = P
    BY <2>1, <1>2, <1>4, FS_Subset
  <2>3. PendingIn(fut') = {}
    BY <2>2, <1>1 DEF PendingIn
  <2>4. QED
    BY <2>3
<1>12. PendingIn(fut') # {} /\ n > 0 => PromisedIn(fut') # {}
  BY <1>4, <1>6, <1>11, FS_EmptySet
<1>13. semValue' + Cardinality(PromisedIn(fut')) = v + Cardinality(PromisedIn(f))
  <2> HIDE DEF G
  <2>1. Cardinality(PromisedIn(fut')) = Cardinality(G) + Cardinality(W)
    BY <1>6, <1>7
  <2>2. semValue' + Cardinality(PromisedIn(fut')) = v + Cardinality(G)
    BY <1>1, <1>4, <2>1
  <2>3. QED
    BY <2>2 DEF G
<1>14. PendingIn(fut') # {} => semValue' = v - n
  BY <1>1, <1>11
<1>15. QED
  BY <1>5, <1>8, <1>9, <1>10, <1>12, <1>13, <1>14

-----------------------------------------------------------------------------
(* The inductive invariant *)

\* The counters, the line and the futures describe the same parked tasks, and
\* the permits add up.  Each part needs the others: a counter decreases only
\* because the task it leaves is counted, and a permit is free to hand on only
\* because the permits add up.
IInv ==
    /\ TypeOK
    /\ LineIsParked
    /\ CountersHonest
    /\ PermitConservation
    /\ NoLostWakeup

LEMMA InitIInv == Init => IInv
<1> SUFFICES ASSUME Init PROVE IInv
  OBVIOUS
<1> USE GateAssumption DEF GateAssumption
<1>1. TypeOK
  BY DEF Init, TypeOK, FutureStates, Phases
<1>2. /\ TasksAt("parked") = {} /\ TasksAt("holding") = {}
      /\ WithFuture(FutureStates \ {"none"}) = {}
      /\ Promised = {} /\ WithFuture({"pending"}) = {}
  BY DEF Init, TasksAt, WithFuture, Promised, FutureStates
<1>3. LineIsParked
  <2>1. DOMAIN semWaiters = {}
    BY DEF Init
  <2>2. IsInjective(semWaiters) /\ ToSet(semWaiters) = {}
    BY <2>1 DEF ToSet, IsInjective
  <2>3. QED
    BY <1>2, <2>2 DEF LineIsParked
<1>4. CountersHonest
  BY <1>2, FS_EmptySet DEF Init, CountersHonest, Holders
<1>5. PermitConservation
  BY <1>2, FS_EmptySet DEF Init, PermitConservation, Holders
<1>6. NoLostWakeup
  BY <1>2 DEF NoLostWakeup
<1>7. QED
  BY <1>1, <1>3, <1>4, <1>5, <1>6 DEF IInv

-----------------------------------------------------------------------------
(* One lemma per action: it preserves the inductive invariant. *)

\* The sets of the invariant, before and after a step.
LEMMA SetNames ==
  /\ Promised = PromisedIn(fut) /\ Promised' = PromisedIn(fut')
  /\ WithFuture({"pending"}) = PendingIn(fut)
  /\ WithFuture({"pending"})' = PendingIn(fut')
BY DEF Promised, PromisedIn, PendingIn, WithFuture

\* The sets that the invariant counts are sets of tasks.
LEMMA SetsFinite ==
  /\ IsFiniteSet(Holders) /\ Cardinality(Holders) \in Nat
  /\ IsFiniteSet(TasksAt("parked")) /\ Cardinality(TasksAt("parked")) \in Nat
  /\ IsFiniteSet(Promised) /\ Cardinality(Promised) \in Nat
  /\ \A f : IsFiniteSet(PromisedIn(f)) /\ Cardinality(PromisedIn(f)) \in Nat
<1>1. \A f : PromisedIn(f) \subseteq Tasks
  BY DEF PromisedIn
<1>2. /\ Holders \subseteq Tasks /\ TasksAt("parked") \subseteq Tasks
      /\ Promised \subseteq Tasks
  BY DEF Holders, TasksAt, Promised, WithFuture
<1>3. QED
  BY <1>1, <1>2, TaskSetsFinite

LEMMA AcquireRefusedStep ==
  ASSUME IInv, NEW t \in Tasks, AcquireRefused(t) \/ AnswerBusy(t)
  PROVE  IInv'
<1>1. /\ UNCHANGED <<active, waiting, semValue, semWaiters, fut>>
      /\ pc' \in [Tasks -> Phases]
      /\ TasksAt("parked")' = TasksAt("parked")
      /\ TasksAt("holding")' = TasksAt("holding")
  BY DEF AcquireRefused, AnswerBusy, IInv, TypeOK, Phases, TasksAt
<1>2. WithFuture(FutureStates \ {"none"})' = WithFuture(FutureStates \ {"none"})
  BY <1>1 DEF WithFuture
<1>3. Promised' = Promised /\ WithFuture({"pending"})' = WithFuture({"pending"})
  BY <1>1 DEF WithFuture, Promised
<1>4. QED
  BY <1>1, <1>2, <1>3 DEF IInv, TypeOK, LineIsParked, CountersHonest, Holders,
                          PermitConservation, NoLostWakeup

LEMMA AcquireAtOnceStep ==
  ASSUME IInv, NEW t \in Tasks, AcquireAtOnce(t)
  PROVE  IInv'
<1> USE GateAssumption DEF GateAssumption
<1>1. /\ semValue \in Nat /\ semValue # 0
      /\ \A i \in DOMAIN semWaiters : fut[semWaiters[i]] = "cancelled"
  BY DEF AcquireAtOnce, Locked, IInv, TypeOK
<1>2. TypeOK'
  BY <1>1 DEF AcquireAtOnce, IInv, TypeOK, Phases
<1>3. /\ TasksAt("parked")' = TasksAt("parked")
      /\ TasksAt("holding")' = TasksAt("holding") \cup {t}
      /\ t \notin TasksAt("holding")
  BY DEF AcquireAtOnce, IInv, TypeOK, TasksAt
<1>4. Cardinality(Holders') = Cardinality(Holders) + 1
  BY <1>3, SetsFinite, FS_AddElement DEF Holders
<1>5. /\ WithFuture(FutureStates \ {"none"})' = WithFuture(FutureStates \ {"none"})
      /\ Promised' = Promised
      /\ WithFuture({"pending"})' = WithFuture({"pending"})
  BY DEF WithFuture, AcquireAtOnce, Promised
<1>6. LineIsParked'
  BY <1>3, <1>5 DEF AcquireAtOnce, LineIsParked, IInv
<1>7. CountersHonest'
  BY <1>3, <1>4 DEF AcquireAtOnce, CountersHonest, IInv, Holders
<1>8. PermitConservation'
  BY <1>1, <1>4, <1>5, SetsFinite DEF AcquireAtOnce, PermitConservation, IInv
<1>9. WithFuture({"pending"}) = {}
  <2> SUFFICES ASSUME NEW u \in Tasks, fut[u] = "pending" PROVE FALSE
    BY DEF WithFuture
  <2>1. u \in ToSet(semWaiters)
    BY DEF IInv, LineIsParked, WithFuture, FutureStates
  <2>2. QED
    BY <1>1, <2>1 DEF ToSet
<1>10. NoLostWakeup'
  BY <1>5, <1>9 DEF NoLostWakeup
<1>11. QED
  BY <1>2, <1>6, <1>7, <1>8, <1>10 DEF IInv

LEMMA ParkStep ==
  ASSUME IInv, NEW t \in Tasks, Park(t)
  PROVE  IInv'
<1>1. TypeOK'
  <2>1. semWaiters' \in Seq(Tasks)
    BY AppendProperties DEF Park, IInv, TypeOK
  <2>2. QED
    BY <2>1 DEF Park, IInv, TypeOK, Phases, FutureStates
<1>2. /\ TasksAt("parked")' = TasksAt("parked") \cup {t}
      /\ TasksAt("holding")' = TasksAt("holding")
      /\ t \notin TasksAt("parked")
  BY DEF Park, IInv, TypeOK, TasksAt
<1>3. fut[t] = "none"
  BY <1>2 DEF IInv, LineIsParked, TypeOK, WithFuture
<1>4. /\ WithFuture(FutureStates \ {"none"})' = WithFuture(FutureStates \ {"none"}) \cup {t}
      /\ Promised' = Promised
      /\ WithFuture({"pending"})' = WithFuture({"pending"}) \cup {t}
  BY <1>3 DEF WithFuture, Promised, Park, IInv, TypeOK, FutureStates
<1>5. LineIsParked'
  <2>1. t \notin ToSet(semWaiters)
    BY <1>2 DEF IInv, LineIsParked
  <2>2. IsInjective(semWaiters') /\ ToSet(semWaiters') = ToSet(semWaiters) \cup {t}
    BY <2>1, AppendLemma DEF Park, IInv, LineIsParked, TypeOK
  <2>3. QED
    BY <1>2, <1>4, <2>2 DEF LineIsParked, IInv
<1>6. Cardinality(TasksAt("parked")') = Cardinality(TasksAt("parked")) + 1
  BY <1>2, SetsFinite, FS_AddElement
<1>7. CountersHonest'
  BY <1>2, <1>6 DEF CountersHonest, IInv, Park, Holders
<1>8. PermitConservation'
  BY <1>2, <1>4 DEF PermitConservation, IInv, Park, Holders
<1>9. NoLostWakeup'
  <2> SUFFICES ASSUME semValue > 0 PROVE Promised # {}
    BY <1>4 DEF NoLostWakeup, Park
  <2>1. PICK i \in DOMAIN semWaiters : fut[semWaiters[i]] # "cancelled"
    BY DEF Park, Locked
  <2>2. semWaiters[i] \in WithFuture(FutureStates \ {"none"})
    BY <2>1 DEF ToSet, IInv, LineIsParked
  <2>3. CASE fut[semWaiters[i]] = "pending"
    BY <2>2, <2>3 DEF IInv, NoLostWakeup, WithFuture
  <2>4. CASE fut[semWaiters[i]] # "pending"
    BY <2>1, <2>2, <2>4 DEF WithFuture, Promised, FutureStates
  <2>5. QED
    BY <2>3, <2>4
<1>10. QED
  BY <1>1, <1>5, <1>7, <1>8, <1>9 DEF IInv

LEMMA TimerFiresStep ==
  ASSUME IInv, NEW t \in Tasks, TimerFires(t)
  PROVE  IInv'
<1>1. TypeOK'
  BY DEF TimerFires, IInv, TypeOK, FutureStates
<1>2. /\ TasksAt("parked")' = TasksAt("parked")
      /\ TasksAt("holding")' = TasksAt("holding")
  BY DEF TimerFires, TasksAt
<1>3. /\ WithFuture(FutureStates \ {"none"})' = WithFuture(FutureStates \ {"none"})
      /\ Promised' = Promised
      /\ WithFuture({"pending"})' \subseteq WithFuture({"pending"})
  BY DEF WithFuture, Promised, TimerFires, IInv, TypeOK, FutureStates
<1>4. LineIsParked' /\ CountersHonest' /\ PermitConservation' /\ NoLostWakeup'
  BY <1>2, <1>3 DEF TimerFires, IInv, LineIsParked, CountersHonest, Holders,
                    PermitConservation, NoLostWakeup
<1>5. QED
  BY <1>1, <1>4 DEF IInv

\* What leaving the line changes, for a task that runs again with its permit
\* or with a timeout.
LEMMA LeaveLineLemma ==
  ASSUME IInv, NEW t \in Tasks, fut[t] # "none", LeaveLine(t)
  PROVE  /\ semWaiters' \in Seq(Tasks)
         /\ IsInjective(semWaiters')
         /\ ToSet(semWaiters') = TasksAt("parked") \ {t}
         /\ t \in TasksAt("parked")
         /\ Cardinality(TasksAt("parked") \ {t}) = Cardinality(TasksAt("parked")) - 1
         /\ waiting \in Nat \ {0}
<1>1. t \in TasksAt("parked")
  BY DEF IInv, TypeOK, LineIsParked, WithFuture
<1>2. PICK i \in DOMAIN semWaiters :
        semWaiters[i] = t /\ semWaiters' = RemoveAt(semWaiters, i)
  BY DEF LeaveLine
<1>3. /\ semWaiters' \in Seq(Tasks)
      /\ IsInjective(semWaiters')
      /\ ToSet(semWaiters') = TasksAt("parked") \ {t}
  BY <1>2, RemoveAtLemma DEF IInv, TypeOK, LineIsParked
<1>4. Cardinality(TasksAt("parked") \ {t}) = Cardinality(TasksAt("parked")) - 1
  BY <1>1, SetsFinite, FS_RemoveElement
<1>5. waiting \in Nat \ {0}
  BY <1>1, SetsFinite, FS_EmptySet DEF IInv, CountersHonest, TypeOK
<1>6. QED
  BY <1>1, <1>3, <1>4, <1>5

LEMMA ResumeGrantedStep ==
  ASSUME IInv, NEW t \in Tasks, ResumeGranted(t)
  PROVE  IInv'
<1> DEFINE f == [fut EXCEPT ![t] = "none"]
<1>1. /\ fut[t] = "granted"
      /\ f \in [Tasks -> FutureStates]
      /\ f[t] = "none" /\ \A u \in Tasks \ {t} : f[u] = fut[u]
      /\ semValue \in Nat
      /\ fut \in [Tasks -> FutureStates]
  BY DEF ResumeGranted, IInv, TypeOK, FutureStates
<1>2. GrantPermits(semValue, semValue, f)
  BY DEF ResumeGranted
<1> HIDE DEF f
<1>3. /\ fut' \in [Tasks -> FutureStates]
      /\ semValue' \in Nat
      /\ semValue' + Cardinality(PromisedIn(fut')) = semValue + Cardinality(PromisedIn(f))
      /\ \A u \in Tasks : f[u] # "pending" => fut'[u] = f[u]
      /\ \A u \in Tasks : f[u] = "pending" => fut'[u] \in {"pending", "granted"}
      /\ PendingIn(fut') # {} => semValue' = semValue - semValue
  BY <1>1, <1>2, GrantLemma
<1>4. /\ semWaiters' \in Seq(Tasks)
      /\ IsInjective(semWaiters')
      /\ ToSet(semWaiters') = TasksAt("parked") \ {t}
      /\ Cardinality(TasksAt("parked") \ {t}) = Cardinality(TasksAt("parked")) - 1
      /\ t \in TasksAt("parked")
      /\ waiting \in Nat \ {0}
  BY <1>1, LeaveLineLemma DEF ResumeGranted
<1>5. TypeOK'
  <2>1. active' \in Nat /\ waiting' \in Nat
    BY <1>4 DEF ResumeGranted, IInv, TypeOK
  <2>2. pc' \in [Tasks -> Phases]
    BY DEF ResumeGranted, IInv, TypeOK, Phases
  <2>3. QED
    BY <1>3, <1>4, <2>1, <2>2 DEF TypeOK
<1>6. /\ TasksAt("parked")' = TasksAt("parked") \ {t}
      /\ TasksAt("holding")' = TasksAt("holding") \cup {t}
      /\ t \notin TasksAt("holding")
  BY <1>4 DEF ResumeGranted, IInv, TypeOK, TasksAt
<1>7. Cardinality(Holders') = Cardinality(Holders) + 1
  BY <1>6, SetsFinite, FS_AddElement DEF Holders
<1>8. WithFuture(FutureStates \ {"none"})' = TasksAt("parked") \ {t}
  <2>1. \A u \in Tasks : fut'[u] # "none" <=> f[u] # "none"
    BY <1>3
  <2>2. QED
    BY <1>1, <1>3, <2>1 DEF WithFuture, IInv, LineIsParked
<1>9. LineIsParked'
  BY <1>4, <1>6, <1>8 DEF LineIsParked
<1>10. CountersHonest'
  BY <1>4, <1>6, <1>7 DEF ResumeGranted, CountersHonest, IInv, Holders
<1>11. Cardinality(PromisedIn(f)) = Cardinality(PromisedIn(fut)) - 1
  <2>1. PromisedIn(f) = PromisedIn(fut) \ {t} /\ t \in PromisedIn(fut)
    BY <1>1 DEF PromisedIn
  <2>2. QED
    BY <2>1, SetsFinite, FS_RemoveElement
<1>12. PermitConservation'
  BY <1>1, <1>3, <1>7, <1>11, SetNames, SetsFinite DEF PermitConservation, IInv
<1>13. NoLostWakeup'
  BY <1>1, <1>3, SetNames DEF NoLostWakeup
<1>14. QED
  BY <1>5, <1>9, <1>10, <1>12, <1>13 DEF IInv

LEMMA ResumeTimedOutStep ==
  ASSUME IInv, NEW t \in Tasks, ResumeTimedOut(t)
  PROVE  IInv'
<1> DEFINE f == [fut EXCEPT ![t] = "none"]
           v == IF fut[t] = "revoked" THEN semValue + 1 ELSE semValue
<1>1. /\ fut[t] \in {"cancelled", "revoked"}
      /\ f \in [Tasks -> FutureStates]
      /\ f[t] = "none" /\ \A u \in Tasks \ {t} : f[u] = fut[u]
      /\ semValue \in Nat /\ v \in Nat
      /\ fut \in [Tasks -> FutureStates]
  BY DEF ResumeTimedOut, IInv, TypeOK, FutureStates
<1>2. GrantPermits(v, v, f)
  BY DEF ResumeTimedOut
<1>v. v = semValue + (IF fut[t] = "revoked" THEN 1 ELSE 0)
  BY <1>1
<1> HIDE DEF f, v
<1>3. /\ fut' \in [Tasks -> FutureStates]
      /\ semValue' \in Nat
      /\ semValue' + Cardinality(PromisedIn(fut')) = v + Cardinality(PromisedIn(f))
      /\ \A u \in Tasks : f[u] # "pending" => fut'[u] = f[u]
      /\ \A u \in Tasks : f[u] = "pending" => fut'[u] \in {"pending", "granted"}
      /\ PendingIn(fut') # {} => semValue' = v - v
  BY <1>1, <1>2, GrantLemma
<1>4. /\ semWaiters' \in Seq(Tasks)
      /\ IsInjective(semWaiters')
      /\ ToSet(semWaiters') = TasksAt("parked") \ {t}
      /\ Cardinality(TasksAt("parked") \ {t}) = Cardinality(TasksAt("parked")) - 1
      /\ t \in TasksAt("parked")
      /\ waiting \in Nat \ {0}
  BY <1>1, LeaveLineLemma DEF ResumeTimedOut
<1>5. TypeOK'
  <2>1. active' \in Nat /\ waiting' \in Nat
    BY <1>4 DEF ResumeTimedOut, IInv, TypeOK
  <2>2. pc' \in [Tasks -> Phases]
    BY DEF ResumeTimedOut, IInv, TypeOK, Phases
  <2>3. QED
    BY <1>3, <1>4, <2>1, <2>2 DEF TypeOK
<1>6. /\ TasksAt("parked")' = TasksAt("parked") \ {t}
      /\ TasksAt("holding")' = TasksAt("holding")
  BY <1>4 DEF ResumeTimedOut, IInv, TypeOK, TasksAt
<1>8. WithFuture(FutureStates \ {"none"})' = TasksAt("parked") \ {t}
  <2>1. \A u \in Tasks : fut'[u] # "none" <=> f[u] # "none"
    BY <1>3
  <2>2. QED
    BY <1>1, <1>3, <2>1 DEF WithFuture, IInv, LineIsParked
<1>9. LineIsParked'
  BY <1>4, <1>6, <1>8 DEF LineIsParked
<1>10. CountersHonest'
  BY <1>4, <1>6 DEF ResumeTimedOut, CountersHonest, IInv, Holders
<1>11. Cardinality(PromisedIn(f))
         = Cardinality(PromisedIn(fut)) - (IF fut[t] = "revoked" THEN 1 ELSE 0)
  <2>1. CASE fut[t] = "revoked"
    <3>1. PromisedIn(f) = PromisedIn(fut) \ {t} /\ t \in PromisedIn(fut)
      BY <1>1, <2>1 DEF PromisedIn
    <3>2. QED
      BY <2>1, <3>1, SetsFinite, FS_RemoveElement
  <2>2. CASE fut[t] # "revoked"
    <3>1. PromisedIn(f) = PromisedIn(fut)
      BY <1>1, <2>2 DEF PromisedIn
    <3>2. QED
      BY <2>2, <3>1, SetsFinite
  <2>3. QED
    BY <2>1, <2>2
<1>12. PermitConservation'
  <2>1. Holders' = Holders
    BY <1>6 DEF Holders
  <2>2. QED
    BY <1>1, <1>v, <1>3, <1>11, <2>1, SetNames, SetsFinite DEF PermitConservation, IInv
<1>13. NoLostWakeup'
  BY <1>1, <1>3, SetNames DEF NoLostWakeup
<1>14. QED
  BY <1>5, <1>9, <1>10, <1>12, <1>13 DEF IInv

LEMMA ReleaseStep ==
  ASSUME IInv, NEW t \in Tasks, Release(t)
  PROVE  IInv'
<1>1. /\ pc[t] = "holding"
      /\ semValue \in Nat /\ semValue + 1 \in Nat /\ 1 <= semValue + 1
      /\ fut \in [Tasks -> FutureStates]
      /\ GrantPermits(semValue + 1, 1, fut)
  BY DEF Release, IInv, TypeOK
<1>2. /\ fut' \in [Tasks -> FutureStates]
      /\ semValue' \in Nat
      /\ semValue' + Cardinality(PromisedIn(fut')) = semValue + 1 + Cardinality(PromisedIn(fut))
      /\ \A u \in Tasks : fut[u] # "pending" => fut'[u] = fut[u]
      /\ \A u \in Tasks : fut[u] = "pending" => fut'[u] \in {"pending", "granted"}
      /\ PendingIn(fut') # {} /\ 1 > 0 => PromisedIn(fut') # {}
  BY <1>1, GrantLemma
<1>3. /\ TasksAt("parked")' = TasksAt("parked")
      /\ TasksAt("holding")' = TasksAt("holding") \ {t}
      /\ t \in TasksAt("holding")
  BY <1>1 DEF Release, IInv, TypeOK, TasksAt
<1>4. /\ Cardinality(Holders') = Cardinality(Holders) - 1
      /\ Cardinality(Holders) > 0
  <2>1. /\ Holders' = Holders \ {t} /\ t \in Holders
        /\ IsFiniteSet(Holders) /\ Cardinality(Holders) \in Nat
    BY <1>3, SetsFinite DEF Holders
  <2>2. Cardinality(Holders \ {t}) = Cardinality(Holders) - 1
    BY <2>1, FS_RemoveElement
  <2>3. Cardinality(Holders) # 0
    BY <2>1, FS_EmptySet
  <2>4. QED
    BY <2>1, <2>2, <2>3
<1>5. active' = active - 1 /\ active' \in Nat
  BY <1>4 DEF Release, IInv, CountersHonest, TypeOK
<1>6. TypeOK'
  BY <1>2, <1>5 DEF Release, IInv, TypeOK, Phases
<1>7. WithFuture(FutureStates \ {"none"})' = WithFuture(FutureStates \ {"none"})
  <2>1. \A u \in Tasks : fut'[u] # "none" <=> fut[u] # "none"
    BY <1>2
  <2>2. QED
    BY <1>1, <1>2, <2>1 DEF WithFuture
<1>8. LineIsParked'
  BY <1>3, <1>7 DEF Release, LineIsParked, IInv
<1>9. CountersHonest'
  BY <1>3, <1>4, <1>5 DEF Release, CountersHonest, IInv, Holders
<1>10. PermitConservation'
  BY <1>1, <1>2, <1>4, SetNames, SetsFinite DEF PermitConservation, IInv
<1>11. NoLostWakeup'
  BY <1>2, SetNames DEF NoLostWakeup
<1>12. QED
  BY <1>6, <1>8, <1>9, <1>10, <1>11 DEF IInv

LEMMA NextIInv == IInv /\ [Next]_gateVars => IInv'
<1> SUFFICES ASSUME IInv, [Next]_gateVars PROVE IInv'
  OBVIOUS
<1>1. ASSUME NEW t \in Tasks, Acquire(t) PROVE IInv'
  BY <1>1, AcquireRefusedStep, AcquireAtOnceStep, ParkStep DEF Acquire
<1>2. ASSUME NEW t \in Tasks, TimerFires(t) PROVE IInv'
  BY <1>2, TimerFiresStep
<1>3. ASSUME NEW t \in Tasks, Resume(t) PROVE IInv'
  BY <1>3, ResumeGrantedStep, ResumeTimedOutStep DEF Resume
<1>4. ASSUME NEW t \in Tasks, Release(t) PROVE IInv'
  BY <1>4, ReleaseStep
<1>5. ASSUME NEW t \in Tasks, AnswerBusy(t) PROVE IInv'
  BY <1>5, AcquireRefusedStep
<1>6. CASE UNCHANGED gateVars
  BY <1>6 DEF gateVars, IInv, TypeOK, LineIsParked, CountersHonest, PermitConservation,
              NoLostWakeup, Holders, Promised, TasksAt, WithFuture
<1>7. QED
  BY <1>1, <1>2, <1>3, <1>4, <1>5, <1>6 DEF Next

\* Who is granted a permit was in line before all who still wait.
GrantedFirst ==
    \A a, b \in Tasks : fut[a] = "granted" /\ fut[b] = "pending" => InLineBefore(a, b)

\* A round of grants keeps to the line.
LEMMA GrantsKeepToLine ==
  ASSUME NEW v, NEW n, NEW f, GrantPermits(v, n, f),
         \A a, b \in Tasks : f[a] = "granted" /\ f[b] = "pending" => InLineBefore(a, b)
  PROVE  \A a, b \in Tasks : fut'[a] = "granted" /\ fut'[b] = "pending" => InLineBefore(a, b)
<1> DEFINE P == {t \in Tasks : f[t] = "pending"}
<1>1. PICK W \in SUBSET P :
        /\ \A w \in W, p \in P \ W : InLineBefore(w, p)
        /\ fut' = [t \in Tasks |-> IF t \in W THEN "granted" ELSE f[t]]
  BY DEF GrantPermits, Woken
<1>2. ASSUME NEW a \in Tasks, NEW b \in Tasks, fut'[a] = "granted", fut'[b] = "pending"
      PROVE  InLineBefore(a, b)
  <2>1. b \in P \ W
    BY <1>1, <1>2
  <2>2. a \in W \/ f[a] = "granted"
    BY <1>1, <1>2
  <2> QED  BY <1>1, <2>1, <2>2
<1> QED  BY <1>2

\* Those who stay in line stay in order when somebody leaves.
LEMMA LeavingKeepsOrder ==
  ASSUME IInv, NEW t, LeaveLine(t), NEW a, NEW b, a # t, b # t, InLineBefore(a, b)
  PROVE  InLineBefore(a, b)'
<1>1. PICK i \in DOMAIN semWaiters : semWaiters[i] = t /\ semWaiters' = RemoveAt(semWaiters, i)
  BY DEF LeaveLine
<1>2. PICK j \in DOMAIN semWaiters, k \in DOMAIN semWaiters :
        j < k /\ semWaiters[j] = a /\ semWaiters[k] = b
  BY DEF InLineBefore
<1> DEFINE n == Len(semWaiters)
           to(m) == IF m < i THEN m ELSE m - 1
<1>3. semWaiters \in Seq(Tasks) /\ IsInjective(semWaiters)
  BY DEF IInv, TypeOK, LineIsParked
<1>4. n \in Nat /\ DOMAIN semWaiters = 1..n
  BY <1>3, LenProperties
<1>5. /\ DOMAIN semWaiters' = 1..(n - 1)
      /\ \A m \in 1..(n - 1) : semWaiters'[m] = IF m < i THEN semWaiters[m] ELSE semWaiters[m + 1]
  BY <1>1, <1>3, RemoveAtLemma
<1>6. j # i /\ k # i
  BY <1>1, <1>2
<1>7. to(j) \in 1..(n - 1) /\ to(k) \in 1..(n - 1) /\ to(j) < to(k)
  BY <1>1, <1>2, <1>4, <1>6
<1>8. \A m \in 1..n : m # i => IF to(m) < i THEN to(m) = m ELSE to(m) + 1 = m
  BY <1>1, <1>4
<1>9. semWaiters'[to(j)] = semWaiters[j] /\ semWaiters'[to(k)] = semWaiters[k]
  <2> HIDE DEF to, n
  <2> QED  BY <1>2, <1>4, <1>5, <1>6, <1>7, <1>8
<1> HIDE DEF to, n
<1> QED  BY <1>2, <1>5, <1>7, <1>9 DEF InLineBefore

\* The order of the line decides who is granted a permit, in every step of the gate.
LEMMA NextGrantedFirst == IInv /\ GrantedFirst /\ [Next]_gateVars => GrantedFirst'
<1> SUFFICES ASSUME IInv, GrantedFirst, [Next]_gateVars PROVE GrantedFirst'
  OBVIOUS
<1>1. ASSUME NEW t \in Tasks, AcquireRefused(t) \/ AcquireAtOnce(t) \/ AnswerBusy(t)
      PROVE  GrantedFirst'
  BY <1>1 DEF AcquireRefused, AcquireAtOnce, AnswerBusy, GrantedFirst, InLineBefore
<1>2. ASSUME NEW t \in Tasks, Park(t) PROVE GrantedFirst'
  <2> SUFFICES ASSUME NEW a \in Tasks, NEW b \in Tasks, fut'[a] = "granted", fut'[b] = "pending"
               PROVE  InLineBefore(a, b)'
    BY DEF GrantedFirst
  <2>1. /\ semWaiters \in Seq(Tasks) /\ semWaiters' = Append(semWaiters, t)
        /\ fut \in [Tasks -> FutureStates] /\ fut' = [fut EXCEPT ![t] = "pending"]
    BY <1>2 DEF Park, IInv, TypeOK
  <2> DEFINE n == Len(semWaiters)
  <2>2. /\ n \in Nat /\ DOMAIN semWaiters = 1..n /\ DOMAIN semWaiters' = 1..(n + 1)
        /\ \A m \in 1..n : semWaiters'[m] = semWaiters[m]
        /\ semWaiters'[n + 1] = t
    BY <2>1, AppendProperties, LenProperties
  <2>3. fut[a] = "granted" /\ a # t
    BY <2>1
  <2>4. CASE b = t
    <3>1. a \in ToSet(semWaiters)
      BY <2>3 DEF IInv, LineIsParked, WithFuture, FutureStates
    <3>2. PICK m \in 1..n : semWaiters[m] = a
      BY <3>1, <2>2 DEF ToSet
    <3> QED  BY <3>2, <2>2, <2>4 DEF InLineBefore
  <2>5. CASE b # t
    <3>1. InLineBefore(a, b)
      BY <2>1, <2>3, <2>5 DEF GrantedFirst
    <3>2. PICK j \in 1..n, k \in 1..n : j < k /\ semWaiters[j] = a /\ semWaiters[k] = b
      BY <3>1, <2>2 DEF InLineBefore
    <3> QED  BY <3>2, <2>2 DEF InLineBefore
  <2> QED  BY <2>4, <2>5
<1>3. ASSUME NEW t \in Tasks, TimerFires(t) PROVE GrantedFirst'
  BY <1>3 DEF TimerFires, GrantedFirst, InLineBefore, IInv, TypeOK
<1>4. ASSUME NEW t \in Tasks, Resume(t) PROVE GrantedFirst'
  <2> DEFINE f == [fut EXCEPT ![t] = "none"]
  <2>1. LeaveLine(t) /\ \E v, n : GrantPermits(v, n, f)
    BY <1>4 DEF Resume, ResumeGranted, ResumeTimedOut
  <2>2. f[t] = "none" /\ \A u \in Tasks \ {t} : f[u] = fut[u]
    BY DEF IInv, TypeOK
  <2> HIDE DEF f
  <2>3. \A a, b \in Tasks : f[a] = "granted" /\ f[b] = "pending" => InLineBefore(a, b)
    BY <2>2 DEF GrantedFirst
  <2>4. \A a, b \in Tasks : fut'[a] = "granted" /\ fut'[b] = "pending" => InLineBefore(a, b)
    BY <2>1, <2>3, GrantsKeepToLine
  <2>5. fut'[t] = "none"
    BY <2>1, <2>2 DEF GrantPermits, Woken
  <2> QED  BY <2>1, <2>4, <2>5, LeavingKeepsOrder DEF GrantedFirst
<1>5. ASSUME NEW t \in Tasks, Release(t) PROVE GrantedFirst'
  <2>1. \A a, b \in Tasks : fut'[a] = "granted" /\ fut'[b] = "pending" => InLineBefore(a, b)
    BY <1>5, GrantsKeepToLine DEF Release, GrantedFirst
  <2> QED  BY <1>5, <2>1 DEF Release, GrantedFirst, InLineBefore
<1>6. CASE UNCHANGED gateVars
  BY <1>6 DEF gateVars, GrantedFirst, InLineBefore
<1> QED  BY <1>1, <1>2, <1>3, <1>4, <1>5, <1>6 DEF Next, Acquire

-----------------------------------------------------------------------------
(* Theorems *)

\* The inductive invariant holds in every reachable state of the gate.
THEOREM GateInvariant == Spec => []IInv
<1>1. QED
  BY InitIInv, NextIInv, PTL DEF Spec

\* The counters and the line have the types the code declares: in particular
\* no counter of HeavyOperationGate or of its semaphore ever goes below zero.
THEOREM GateTypes == Spec => []TypeOK
<1>1. IInv => TypeOK
  BY DEF IInv
<1>2. QED
  BY <1>1, GateInvariant, PTL

\* acquire(), release() and the timer of wait_for() neither lose a permit nor
\* make one up, for every number of tasks and permits.
THEOREM PermitsConserved == Spec => []PermitConservation
<1>1. IInv => PermitConservation
  BY DEF IInv
<1>2. QED
  BY <1>1, GateInvariant, PTL

\* The counters behind /ready, /metrics and the admission test are the numbers
\* of tasks that run and that wait.
THEOREM CountersAreHonest == Spec => []CountersHonest
<1>1. IInv => CountersHonest
  BY DEF IInv
<1>2. QED
  BY <1>1, GateInvariant, PTL

\* A permit is never free beside a waiter that nobody is about to wake.
THEOREM NoWakeupLost == Spec => []NoLostWakeup
<1>1. IInv => NoLostWakeup
  BY DEF IInv
<1>2. QED
  BY <1>1, GateInvariant, PTL

\* A task that starts to hold a permit was in line before all who still wait: nobody who
\* arrives later, and nobody who was woken later, gets ahead.
THEOREM ServedInOrder == Spec => NoOvertaking
<1>1. Init => GrantedFirst
  BY DEF Init, GrantedFirst
<1>2. IInv /\ GrantedFirst /\ [Next]_gateVars =>
        [\A t \in Tasks : pc[t] # "holding" /\ pc'[t] = "holding" =>
          \A u \in WithFuture({"pending"}) : fut'[u] = "pending" =>
             pc[t] = "parked" /\ InLineBefore(t, u)]_gateVars
  <2> SUFFICES ASSUME IInv, GrantedFirst, Next,
                      NEW t \in Tasks, pc[t] # "holding", pc'[t] = "holding",
                      NEW u \in WithFuture({"pending"}), fut'[u] = "pending"
               PROVE  pc[t] = "parked" /\ InLineBefore(t, u)
    OBVIOUS
  <2> USE DEF IInv, TypeOK
  <2>1. PICK a \in Tasks : Acquire(a) \/ TimerFires(a) \/ Resume(a) \/ Release(a) \/ AnswerBusy(a)
    BY DEF Next
  <2>2. CASE AcquireAtOnce(a)
    <3>1. u \in Tasks /\ fut[u] = "pending" /\ u \in ToSet(semWaiters)
      BY DEF WithFuture, LineIsParked, FutureStates
    <3>2. Locked
      BY <3>1 DEF Locked, ToSet
    <3> QED  BY <2>2, <3>2 DEF AcquireAtOnce
  <2>3. CASE ResumeGranted(a)
    <3>1. t = a /\ fut[t] = "granted"
      BY <2>3 DEF ResumeGranted
    <3>2. pc[t] = "parked"
      BY <3>1 DEF LineIsParked, WithFuture, TasksAt, FutureStates
    <3> QED  BY <3>1, <3>2 DEF GrantedFirst, WithFuture
  <2>4. ASSUME ~AcquireAtOnce(a), ~ResumeGranted(a) PROVE FALSE
    BY <2>1, <2>4 DEF Acquire, AcquireRefused, Park, TimerFires, Resume, ResumeTimedOut, Release, AnswerBusy
  <2> QED  BY <2>2, <2>3, <2>4
<1> QED  BY <1>1, <1>2, NextGrantedFirst, GateInvariant, PTL DEF Spec, NoOvertaking

\* A task about to hold leaves room for itself among the holders.
LEMMA RoomToEnter ==
  ASSUME IInv, NEW t \in Tasks, AcquireAtOnce(t) \/ ResumeGranted(t)
  PROVE  Cardinality(Holders) < Limit
<1> USE GateAssumption DEF GateAssumption
<1>1. CASE AcquireAtOnce(t)
  BY <1>1, SetsFinite DEF AcquireAtOnce, Locked, IInv, TypeOK, PermitConservation
<1>2. CASE ResumeGranted(t)
  <2>1. Promised # {}
    BY <1>2 DEF ResumeGranted, Promised, WithFuture
  <2>2. Cardinality(Promised) > 0
    BY <2>1, SetsFinite, FS_EmptySet
  <2>3. QED
    BY <2>2, SetsFinite DEF IInv, TypeOK, PermitConservation
<1>3. QED
  BY <1>1, <1>2

\* HeavyOperationGate implements the permit pool: at most Limit operations
\* run at once, whatever the order of grants, timeouts and releases.
THEOREM GateImplementsPool == Spec => ImplementsPool
<1>1. Init => Pool!Init
  BY DEF Init, Pool!Init, Holders, TasksAt
<1>2. IInv /\ [Next]_gateVars => [Pool!Next]_(Pool!vars)
  <2> SUFFICES ASSUME IInv, [Next]_gateVars PROVE [Pool!Next]_(Pool!vars)
    OBVIOUS
  <2> USE DEF IInv, TypeOK, Holders, TasksAt, Pool!vars
  <2>1. ASSUME NEW t \in Tasks, AcquireRefused(t) \/ AnswerBusy(t) \/ TimerFires(t)
        PROVE  UNCHANGED Pool!vars
    BY <2>1 DEF AcquireRefused, AnswerBusy, TimerFires
  <2>2. ASSUME NEW t \in Tasks, AcquireAtOnce(t) \/ ResumeGranted(t) PROVE Pool!Enter(t)
    <3>1. pc[t] # "holding" /\ pc' = [pc EXCEPT ![t] = "holding"]
      BY <2>2 DEF AcquireAtOnce, ResumeGranted, LineIsParked, WithFuture
    <3>2. Cardinality(Holders) < Limit
      BY <2>2, RoomToEnter
    <3>3. Pool!Cardinality(Holders) = Cardinality(Holders)
      BY DEF Pool!Cardinality, Cardinality
    <3>4. QED
      BY <3>1, <3>2, <3>3 DEF Pool!Enter
  <2>3. ASSUME NEW t \in Tasks, Park(t) PROVE Pool!Queue(t)
    BY <2>3 DEF Park, Pool!Queue
  <2>4. ASSUME NEW t \in Tasks, ResumeTimedOut(t) PROVE Pool!GiveUp(t)
    <3>1. pc[t] = "parked" /\ pc' = [pc EXCEPT ![t] = "refused"]
      BY <2>4 DEF ResumeTimedOut, LineIsParked, WithFuture, FutureStates
    <3>2. QED
      BY <3>1 DEF Pool!GiveUp
  <2>5. ASSUME NEW t \in Tasks, Release(t) PROVE Pool!Leave(t)
    BY <2>5 DEF Release, Pool!Leave
  <2>6. CASE UNCHANGED gateVars
    BY <2>6 DEF gateVars
  <2>7. QED
    BY <2>1, <2>2, <2>3, <2>4, <2>5, <2>6 DEF Next, Acquire, Resume, Pool!Next
<1>3. QED
  BY <1>1, <1>2, GateInvariant, PTL DEF Spec, ImplementsPool, Pool!Spec
=============================================================================
