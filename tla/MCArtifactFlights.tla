------------------------- MODULE MCArtifactFlights --------------------------
(* A small instance of ArtifactFlights for TLC. *)
EXTENDS ArtifactFlights

CONSTANTS w1, w2, f1, f2, s1, s2

TwoWorkers == {w1, w2}
TwoFrames == TwoWorkers \X {"request", "audit"}
TwoSlots == {s1, s2}

\* An audit, a comparison of that file with another one, and with itself.
SomeRequests == {<<f1>>, <<f1, f2>>, <<f1, f1>>}
SomeKeys == {FlightKey(r) : r \in SomeRequests \cup {<<f2>>}}
=============================================================================
