----------------------------- MODULE MCPlateRun ------------------------------
(* A small instance of PlateRun for TLC. *)
EXTENDS PlateRun

\* A coordinate with two spellings, and a direction of which one component may be free
\* and either locked.
ThreeFields == {"x", "dx", "dy"}
FourPaths == {"center.0", "center.00", "direction.0", "direction.1"}
Names == [p \in FourPaths |-> CASE p = "direction.0" -> "dx" [] p = "direction.1" -> "dy" [] OTHER -> "x"]
Others == [f \in {"dx", "dy"} |-> IF f = "dx" THEN "dy" ELSE "dx"]

\* A range that starts between two microns, and one on whole microns.
TwoRanges == {[min |-> 1, max |-> 6, step |-> 2], [min |-> 2, max |-> 6, step |-> 4]}

\* Starting values below the ranges and inside them.
TwoStarts == {0, 4}
=============================================================================
