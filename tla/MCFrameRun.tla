----------------------------- MODULE MCFrameRun ------------------------------
(* A small instance of FrameRun for TLC. *)
EXTENDS FrameRun

CONSTANTS column, beam

Columns == {column, beam}
ThreePaths == {<<column, "area">>, <<beam, "area">>, <<beam, "inertia">>}

\* Two parameters share a path with different ranges, and one has a coarse step.
ThreeParameters ==
    {[id |-> 1, path |-> <<beam, "area">>,    min |-> 1, max |-> 5, step |-> 1],
     [id |-> 2, path |-> <<beam, "area">>,    min |-> 1, max |-> 3, step |-> 1],
     [id |-> 3, path |-> <<beam, "inertia">>, min |-> 1, max |-> 4, step |-> 2]}
=============================================================================
