----------------------------- MODULE PermitPool -----------------------------
(***************************************************************************)
(* What the heavy-operation gate promises its callers, with no counters,   *)
(* futures or timers: at most Limit tasks hold a permit at any time, a     *)
(* task that waits either enters or gives up, and a task leaves once.      *)
(* HeavyGate.tla is shown to implement this module.                        *)
(***************************************************************************)
EXTENDS Naturals, FiniteSets

CONSTANTS Tasks,   \* the request tasks of the event loop
          Limit    \* heavy operations allowed to run at once

VARIABLES holders, \* tasks that run a heavy operation
          queued   \* tasks that wait for a permit

vars == <<holders, queued>>

Init == holders = {} /\ queued = {}

Queue(t) ==
    /\ t \notin holders \cup queued
    /\ queued' = queued \cup {t}
    /\ UNCHANGED holders

\* A task gets a permit, at once or after waiting.
Enter(t) ==
    /\ t \notin holders
    /\ Cardinality(holders) < Limit
    /\ holders' = holders \cup {t}
    /\ queued' = queued \ {t}

GiveUp(t) ==
    /\ t \in queued
    /\ queued' = queued \ {t}
    /\ UNCHANGED holders

Leave(t) ==
    /\ t \in holders
    /\ holders' = holders \ {t}
    /\ UNCHANGED queued

Next == \E t \in Tasks : Queue(t) \/ Enter(t) \/ GiveUp(t) \/ Leave(t)

Spec == Init /\ [][Next]_vars
=============================================================================
