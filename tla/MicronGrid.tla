----------------------------- MODULE MicronGrid ------------------------------
(***************************************************************************)
(* The bounded search of the repair engines: a declared range, whose ends  *)
(* need not be whole microns, is rounded to microns and searched in steps. *)
(* Lengths are counted in half microns, the coarsest unit in which the     *)
(* rounding shows.                                                         *)
(***************************************************************************)
EXTENDS Integers

\* _to_microns, with Python's rounding of halves to even.
Microns(v) == IF v % 2 = 0 \/ v % 4 = 3 THEN (v + 1) \div 2 ELSE v \div 2

\* _solve_nearest: a multiple of the step from the minimum, all in microns.  The
\* search is cut off after 0.25 s, so any of them may be returned, or none.
Grid(range) ==
    LET low == Microns(range.min)
        step == IF Microns(range.step) > 1 THEN Microns(range.step) ELSE 1
        count == (Microns(range.max) - low) \div step
    IN {2 * (low + k * step) : k \in 0 .. (IF count > 0 THEN count ELSE 0)}
=============================================================================
