-------------------------- MODULE MCArchitectureRun --------------------------
(* A small instance of ArchitectureRun for TLC. *)
EXTENDS ArchitectureRun

TwoPaths == {"column.x", "door.offset"}

\* A range that starts between two microns.
OneRange == {[min |-> 1, max |-> 8, step |-> 4]}
TwoStarts == {0, 5}
=============================================================================
