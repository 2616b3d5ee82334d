----------------------- MODULE MCArchitectureWorkspace -----------------------
(* A small instance of ArchitectureWorkspace for TLC. *)
EXTENDS ArchitectureWorkspace

CONSTANTS studio, openLoop, edited

ThreeDrafts == {studio, openLoop, edited}
=============================================================================
