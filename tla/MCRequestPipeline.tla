------------------------- MODULE MCRequestPipeline --------------------------
(* A small instance of RequestPipeline for TLC. *)
EXTENDS RequestPipeline, TLC

CONSTANTS a, b, c

ThreeTasks == {a, b, c}

\* Requests are interchangeable.
Interchangeable == Permutations(ThreeTasks)
=============================================================================
