---------------------------- MODULE MCConnections ----------------------------
(* Connections, instantiated for TLC.                                       *)
EXTENDS Connections, TLC

CONSTANTS u1, u2, s1, k1, k2, t1

(* Connections are interchangeable, and so are requests.                    *)
ConnSymmetry == Permutations(Conn)
RequestSymmetry == Permutations(Request)

(* One sign-in, one server: everything that can happen to one connection.   *)
OneHolder == k1 :> u1
OneTicket == t1 :> [user |-> u1, server |-> s1]
OneArchives == {[users |-> {u1}, servers |-> {s1}, assigned |-> {<<u1, s1>>},
                 sessions |-> {k1}]}

(* Two users: a ticket presented twice, or by the other user.               *)
TwoHolder == k1 :> u1 @@ k2 :> u2
TwoArchives == {[users |-> {u1}, servers |-> {s1}, assigned |-> {<<u1, s1>>},
                 sessions |-> {k1}]}

==============================================================================
