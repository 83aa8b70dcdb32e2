--------------------------------- MODULE Lists ---------------------------------
(****************************************************************************)
(* What the models do with lists: filter them, join them and run over them. *)
(* They are recursive functions, which the proofs can unfold.               *)
(****************************************************************************)
EXTENDS Integers, Sequences

Members(s) == {s[i] : i \in DOMAIN s}

(* The members of S in s, in their order.                                   *)
Only(s, S) ==
    LET only[i \in 0..Len(s)] ==
            IF i = 0 THEN <<>>
            ELSE IF s[i] \in S THEN Append(only[i - 1], s[i]) ELSE only[i - 1]
    IN only[Len(s)]

(* s worked through by step, from start.                                    *)
Over(s, start, step) ==
    LET over[i \in 0..Len(s)] == IF i = 0 THEN start ELSE step[<<over[i - 1], s[i]>>]
    IN over[Len(s)]
==============================================================================
