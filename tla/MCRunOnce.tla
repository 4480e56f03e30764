------------------------------ MODULE MCRunOnce ------------------------------
(* A small instance of RunOnce for TLC.                                    *)
EXTENDS RunOnce, TLC

CONSTANTS m1

MCTarget == [p \in Paths |-> m1]

(* Operators and run IDs are interchangeable; used with safety only.       *)
MCSymmetry == Permutations(Operators) \cup Permutations(Runs)
=============================================================================
