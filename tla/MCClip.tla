------------------------------- MODULE MCClip -------------------------------
(* Instances of Clip for TLC.                                               *)
EXTENDS Clip

MCFile(size) == [size |-> size, folder |-> FALSE, sized |-> TRUE]
MCFolder == [size |-> 0, folder |-> TRUE, sized |-> FALSE]

(* Two files, one of them empty; one of two ranges; one that cannot be sent *)
(* beside one that can.                                                     *)
MCFileLists == {<<MCFile(0), MCFile(1)>>, <<MCFile(2)>>, <<MCFile(1), MCFolder>>}

MCTwoLimits == {NoLimit, 1}
=============================================================================
