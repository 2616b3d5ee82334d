---------------------------- MODULE MCHeavyGate -----------------------------
(* A small instance of HeavyGate for TLC. *)
EXTENDS HeavyGate

CONSTANTS t1, t2, t3, t4

FourTasks == {t1, t2, t3, t4}
=============================================================================
