-------------------------- MODULE MCPipingWorkspace --------------------------
(* A small instance of PipingWorkspace for TLC. *)
EXTENDS PipingWorkspace

CONSTANTS utility, clash, edited

ThreeDrafts == {utility, clash, edited}
=============================================================================
