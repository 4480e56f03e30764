---------------------------- MODULE MCPublication ----------------------------
(***************************************************************************)
(* Two commands at a time: two writers of one output, two publishers of    *)
(* one package, and one of each; and a publisher beside somebody who edits *)
(* the source files.                                                       *)
(***************************************************************************)
EXTENDS Publication

CONSTANTS w1, w2, p1, p2, home, away

MCBeside == {{p} : p \in {p1, p2}}
MCTogether == {{w1, w2}, {p1, p2}} \cup {{w, p} : w \in {w1, w2}, p \in {p1, p2}}
              \cup MCBeside
MCEditable == {Items, ResultSchema}
Symmetry == Permutations({w1, w2}) \cup Permutations({p1, p2})
=============================================================================
