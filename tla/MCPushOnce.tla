----------------------------- MODULE MCPushOnce -----------------------------
(* A small instance of PushOnce for TLC.                                   *)
EXTENDS PushOnce, TLC

(* Operators and paths are interchangeable; used with safety only.         *)
MCSymmetry == Permutations(Operators) \cup Permutations(Paths)
=============================================================================
