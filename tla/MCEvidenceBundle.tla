---------------------------- MODULE MCEvidenceBundle ----------------------------
(* A small instance of EvidenceBundle for TLC.                             *)
EXTENDS EvidenceBundle

(* Writers are interchangeable, and only safety is checked.                *)
MCSymmetry == Permutations(Writers)
=============================================================================
