---------------------------- MODULE SingleFlight ----------------------------
(***************************************************************************)
(* BoundedSingleFlight of operations.py, through which artifact audits and *)
(* comparisons run: threads that ask for the same key at the same time     *)
(* share one execution.  The table of flights is read and changed under a  *)
(* lock, but the owner publishes its outcome, sets the event and removes   *)
(* the entry in separate steps, so other threads act in between.           *)
(***************************************************************************)
EXTENDS Naturals, FiniteSets

CONSTANTS Threads,    \* threads of the worker pool that call run()
          Keys,       \* flight keys: operation, suffix and content hash
          Slots,      \* names for _Flight objects; as many as can be referenced at once
          MaxFlights, \* DATUMGUARD_SINGLE_FLIGHT_MAX_KEYS, at least 1
          NoFlight    \* None

ASSUME FlightAssumption ==
    /\ NoFlight \notin Slots
    /\ MaxFlights \in Nat \ {0}

VARIABLES table,   \* self._flights
          keyOf,   \* the key a _Flight object was made for
          event,   \* flight.event is set
          outcome, \* flight.result or flight.error, "unset" while both are None
          pc,      \* where the thread is in run()
          key,     \* the key argument of the thread's call
          cur,     \* the local variable flight
          answer   \* what the thread's last call returned or raised

flightVars == <<table, keyOf, event, outcome, pc, key, cur, answer>>

Outcomes == {"value", "error"}
Inside == {"owner", "publish", "pop"}   \* the owner's part of run()

\* Objects that the table or a local variable still refers to.
Referenced == {table[k] : k \in Keys} \cup {cur[t] : t \in Threads}
Registered == {k \in Keys : table[k] # NoFlight}

Init ==
    /\ table = [k \in Keys |-> NoFlight]
    /\ keyOf \in [Slots -> Keys] /\ \A s, r \in Slots : keyOf[s] = keyOf[r]
    /\ event = [s \in Slots |-> FALSE]
    /\ outcome = [s \in Slots |-> "unset"]
    /\ pc = [t \in Threads |-> "idle"]
    /\ key \in [Threads -> Keys] /\ \A t, u \in Threads : key[t] = key[u]
    /\ cur = [t \in Threads |-> NoFlight]
    /\ answer = [t \in Threads |-> "none"]

\* run(key): no flight under way and room in the table; register a new one.
BecomeOwner(t, k) ==
    /\ pc[t] = "idle"
    /\ table[k] = NoFlight
    /\ Cardinality(Registered) < MaxFlights
    /\ \E s \in Slots \ Referenced :
        /\ table' = [table EXCEPT ![k] = s]
        /\ keyOf' = [keyOf EXCEPT ![s] = k]
        /\ event' = [event EXCEPT ![s] = FALSE]
        /\ outcome' = [outcome EXCEPT ![s] = "unset"]
        /\ cur' = [cur EXCEPT ![t] = s]
    /\ pc' = [pc EXCEPT ![t] = "owner"]
    /\ key' = [key EXCEPT ![t] = k]
    /\ answer' = [answer EXCEPT ![t] = "none"]

\* run(key): a flight for the key is under way; wait for its event.
Join(t, k) ==
    /\ pc[t] = "idle"
    /\ table[k] # NoFlight
    /\ cur' = [cur EXCEPT ![t] = table[k]]
    /\ pc' = [pc EXCEPT ![t] = "waiting"]
    /\ key' = [key EXCEPT ![t] = k]
    /\ answer' = [answer EXCEPT ![t] = "none"]
    /\ UNCHANGED <<table, keyOf, event, outcome>>

\* run(key): the table is full of other keys; run the operation unshared.
RunAlone(t, k) ==
    /\ pc[t] = "idle"
    /\ table[k] = NoFlight
    /\ Cardinality(Registered) >= MaxFlights
    /\ pc' = [pc EXCEPT ![t] = "solo"]
    /\ key' = [key EXCEPT ![t] = k]
    /\ answer' = [answer EXCEPT ![t] = "none"]
    /\ UNCHANGED <<table, keyOf, event, outcome, cur>>

\* Mutant of OperationEnds: the event is set before the outcome is stored.
OperationEndsEarlySet(t, o) ==
    /\ pc[t] = "owner"
    /\ event' = [event EXCEPT ![cur[t]] = TRUE]
    /\ outcome' = IF event[cur[t]] THEN [outcome EXCEPT ![cur[t]] = o] ELSE outcome
    /\ pc' = [pc EXCEPT ![t] = IF event[cur[t]] THEN "publish" ELSE "owner"]
    /\ UNCHANGED <<table, keyOf, key, cur, answer>>

\* Mutant of OperationEnds: an exception leaves run() past the event.
OperationEndsUnpublished(t, o) ==
    /\ pc[t] = "owner"
    /\ outcome' = [outcome EXCEPT ![cur[t]] = o]
    /\ pc' = [pc EXCEPT ![t] = IF o = "error" THEN "pop" ELSE "publish"]
    /\ UNCHANGED <<table, keyOf, event, key, cur, answer>>

\* The owner's operation returns or raises; the flight keeps the outcome.
OperationEnds(t, o) ==
    /\ pc[t] = "owner"
    /\ outcome' = [outcome EXCEPT ![cur[t]] = o]
    /\ pc' = [pc EXCEPT ![t] = "publish"]
    /\ UNCHANGED <<table, keyOf, event, key, cur, answer>>

\* finally: flight.event.set()
Publish(t) ==
    /\ pc[t] = "publish"
    /\ event' = [event EXCEPT ![cur[t]] = TRUE]
    /\ pc' = [pc EXCEPT ![t] = "pop"]
    /\ UNCHANGED <<table, keyOf, outcome, key, cur, answer>>

\* Mutant of Pop: the entry stays in the table.
PopForgotten(t) ==
    /\ pc[t] = "pop"
    /\ answer' = [answer EXCEPT ![t] = outcome[cur[t]]]
    /\ pc' = [pc EXCEPT ![t] = "idle"]
    /\ cur' = [cur EXCEPT ![t] = NoFlight]
    /\ UNCHANGED <<table, keyOf, event, outcome, key>>

\* finally: the entry is removed under the lock, and the owner returns the
\* result or raises the error it kept.
Pop(t) ==
    /\ pc[t] = "pop"
    /\ table' = [table EXCEPT ![key[t]] = NoFlight]
    /\ answer' = [answer EXCEPT ![t] = outcome[cur[t]]]
    /\ pc' = [pc EXCEPT ![t] = "idle"]
    /\ cur' = [cur EXCEPT ![t] = NoFlight]
    /\ UNCHANGED <<keyOf, event, outcome, key>>

\* event.wait() returned True: the waiter returns or raises the shared outcome.
WaiterReturns(t) ==
    /\ pc[t] = "waiting"
    /\ event[cur[t]]
    /\ answer' = [answer EXCEPT ![t] = outcome[cur[t]]]
    /\ pc' = [pc EXCEPT ![t] = "idle"]
    /\ cur' = [cur EXCEPT ![t] = NoFlight]
    /\ UNCHANGED <<table, keyOf, event, outcome, key>>

\* event.wait() timed out: the waiter runs the operation itself, unshared.
WaitTimesOut(t) ==
    /\ pc[t] = "waiting"
    /\ ~event[cur[t]]
    /\ pc' = [pc EXCEPT ![t] = "solo"]
    /\ cur' = [cur EXCEPT ![t] = NoFlight]
    /\ UNCHANGED <<table, keyOf, event, outcome, key, answer>>

\* An unshared operation returns or raises to its own caller.
SoloEnds(t, o) ==
    /\ pc[t] = "solo"
    /\ answer' = [answer EXCEPT ![t] = o]
    /\ pc' = [pc EXCEPT ![t] = "idle"]
    /\ UNCHANGED <<table, keyOf, event, outcome, key, cur>>

Call(t) == \E k \in Keys : BecomeOwner(t, k) \/ Join(t, k) \/ RunAlone(t, k)

Progress(t) ==
    \/ \E o \in Outcomes : OperationEnds(t, o) \/ SoloEnds(t, o)
    \/ Publish(t) \/ Pop(t) \/ WaiterReturns(t)

Next == \E t \in Threads : Call(t) \/ Progress(t) \/ WaitTimesOut(t)

Spec == Init /\ [][Next]_flightVars
-----------------------------------------------------------------------------
(* Properties *)

Phases == {"idle", "owner", "publish", "pop", "waiting", "solo"}

TypeOK ==
    /\ table \in [Keys -> Slots \cup {NoFlight}]
    /\ keyOf \in [Slots -> Keys]
    /\ event \in [Slots -> BOOLEAN]
    /\ outcome \in [Slots -> Outcomes \cup {"unset"}]
    /\ pc \in [Threads -> Phases]
    /\ key \in [Threads -> Keys]
    /\ cur \in [Threads -> Slots \cup {NoFlight}]
    /\ answer \in [Threads -> Outcomes \cup {"none", "unset"}]

\* "Coalesce only concurrent duplicates; completed values are never cached":
\* an entry of the table belongs to a thread that is inside run() for that
\* very key, so whoever joins it overlaps the call it shares.
NeverCached ==
    \A k \in Registered : \E t \in Threads :
        pc[t] \in Inside /\ key[t] = k /\ cur[t] = table[k]

\* Two threads never execute or publish a shared flight for one key at a time.
OneOwnerPerKey ==
    \A t, u \in Threads :
        pc[t] \in Inside /\ pc[u] \in Inside /\ key[t] = key[u] => t = u

\* A caller is never handed the None of a flight that has no outcome yet.
NoHollowAnswer == \A t \in Threads : answer[t] # "unset"

\* The object a waiter holds is still the flight of its own key, however long
\* ago its owner left: the outcome it will read is never another key's.
AnswerIsForMyKey ==
    \A t \in Threads : pc[t] = "waiting" => cur[t] # NoFlight /\ keyOf[cur[t]] = key[t]

\* A waiter whose owner has left run() finds the event set: nobody is left
\* waiting for a publication that already had its chance.
NoOrphanedWaiter ==
    \A t \in Threads : pc[t] = "waiting" /\ ~event[cur[t]] =>
        \E u \in Threads : pc[u] \in {"owner", "publish"} /\ cur[u] = cur[t]
=============================================================================
