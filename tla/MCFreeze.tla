------------------------------ MODULE MCFreeze ------------------------------
(* Freeze for TLC: edits and exports are interchangeable.                   *)
EXTENDS Freeze, TLC

FreezeSymmetry == Permutations(Editor) \cup Permutations(Exporter)

==============================================================================
