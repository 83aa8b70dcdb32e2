------------------------------- MODULE Listener -------------------------------
(****************************************************************************)
(* Places under max_connections (server.rs accept_loop, web.rs              *)
(* ConnectionPermit and ws_upgrade, proxy.rs serve).                        *)
(*                                                                          *)
(* A connection has up to two tasks.  The one spawned on accept runs the    *)
(* TLS handshake and the HTTP cycle; an upgrade spawns another, which waits *)
(* for the first to hand the connection over and then runs the session.     *)
(* The permit is in the cell both can reach until the upgrade takes it.     *)
(* Every wait before the relay has a deadline in the code; here a wait may  *)
(* end at any moment, so every order of a deadline and what it races with   *)
(* happens.                                                                 *)
(****************************************************************************)
EXTENDS Integers, FiniteSets

CONSTANTS
    Conn,               \* connections; one is used again when both tasks are over
    max_connections

VARIABLES
    free,     \* permits the semaphore holds
    http,     \* the accept task, by connection
    ws,       \* the upgrade's task
    cell,     \* whether the permit is in the ConnectionPermit
    setup     \* whether it is in Session.setup_permit

vars == <<free, http, ws, cell, setup>>

Http == {"none", "tls", "serving", "switched"}
Ws == {"none", "upgrading", "handed", "broken", "setup", "relay"}

TypeOK ==
    /\ free \in 0..max_connections
    /\ http \in [Conn -> Http] /\ ws \in [Conn -> Ws]
    /\ cell \in [Conn -> BOOLEAN] /\ setup \in [Conn -> BOOLEAN]

Init ==
    /\ free = max_connections
    /\ http = [c \in Conn |-> "none"] /\ ws = [c \in Conn |-> "none"]
    /\ cell = [c \in Conn |-> FALSE] /\ setup = [c \in Conn |-> FALSE]

(* accept_loop: without a permit the connection is closed at once.          *)
Accept(c) ==
    /\ http[c] = "none" /\ ws[c] = "none" /\ free > 0
    /\ free' = free - 1
    /\ http' = [http EXCEPT ![c] = "tls"] /\ cell' = [cell EXCEPT ![c] = TRUE]
    /\ UNCHANGED <<ws, setup>>

TlsDone(c) ==
    /\ http[c] = "tls"
    /\ http' = [http EXCEPT ![c] = "serving"]
    /\ UNCHANGED <<free, ws, cell, setup>>

(* The accept task ends and drops what the cell holds: a handshake that     *)
(* failed or timed out, the end of the HTTP cycle, its header deadline.     *)
HttpEnds(c) ==
    /\ http[c] \in {"tls", "serving"}
    /\ http' = [http EXCEPT ![c] = "none"] /\ cell' = [cell EXCEPT ![c] = FALSE]
    /\ free' = free + (IF cell[c] THEN 1 ELSE 0)
    /\ UNCHANGED <<ws, setup>>

(* Faulty: the permit stays with the accept task.                           *)
UpgradeSharing(c) ==
    /\ http[c] = "serving"
    /\ http' = [http EXCEPT ![c] = "switched"] /\ ws' = [ws EXCEPT ![c] = "upgrading"]
    /\ UNCHANGED <<free, cell, setup>>

(* ws_upgrade: the permit moves before the task is spawned.                 *)
Upgrade(c) ==
    /\ http[c] = "serving"
    /\ http' = [http EXCEPT ![c] = "switched"] /\ ws' = [ws EXCEPT ![c] = "upgrading"]
    /\ setup' = [setup EXCEPT ![c] = cell[c]] /\ cell' = [cell EXCEPT ![c] = FALSE]
    /\ UNCHANGED free

(* The 101 is out and the connection handed over, or it broke first; the    *)
(* accept task ends either way.  The other task may be gone by then.        *)
HandOver(c, result) ==
    /\ http[c] = "switched"
    /\ http' = [http EXCEPT ![c] = "none"] /\ cell' = [cell EXCEPT ![c] = FALSE]
    /\ ws' = [ws EXCEPT ![c] = IF @ = "upgrading" THEN result ELSE @]
    /\ free' = free + (IF cell[c] THEN 1 ELSE 0)
    /\ UNCHANGED setup

(* The session starts on the connection it was handed.                      *)
Run(c) ==
    /\ ws[c] = "handed"
    /\ ws' = [ws EXCEPT ![c] = "setup"]
    /\ UNCHANGED <<free, http, cell, setup>>

(* The upgrade's task ends: the hand-over failed or took too long, the      *)
(* sign-in ended, the request never came or was refused, the server could   *)
(* not be reached, the relay is over.                                       *)
WsEnds(c) ==
    /\ ws[c] # "none"
    /\ ws' = [ws EXCEPT ![c] = "none"] /\ setup' = [setup EXCEPT ![c] = FALSE]
    /\ free' = free + (IF setup[c] THEN 1 ELSE 0)
    /\ UNCHANGED <<http, cell>>

(* serve, step 5: established, the session stops counting.                  *)
Establish(c) ==
    /\ ws[c] = "setup"
    /\ ws' = [ws EXCEPT ![c] = "relay"] /\ setup' = [setup EXCEPT ![c] = FALSE]
    /\ free' = free + (IF setup[c] THEN 1 ELSE 0)
    /\ UNCHANGED <<http, cell>>

Next ==
    \E c \in Conn :
        \/ Accept(c) \/ TlsDone(c) \/ HttpEnds(c)
        \/ Upgrade(c) \/ HandOver(c, "handed") \/ HandOver(c, "broken")
        \/ Run(c) \/ WsEnds(c) \/ Establish(c)

Spec == Init /\ [][Next]_vars

------------------------------------------------------------------------------
(* A connection that counts: from accept to the end of its request cycle,   *)
(* or of its session's setup.                                               *)
Counts(c) == http[c] \in {"tls", "serving"} \/ ws[c] \in Ws \ {"none", "relay"}

(* The free places are exactly those no connection counts against: none is  *)
(* lost when a deadline, a sign-out or a broken hand-over ends one of the   *)
(* two tasks, none comes back twice, and no connection is set up without    *)
(* one (Limits.max_connections).                                            *)
PlacesAccounted == free + Cardinality({c \in Conn : Counts(c)}) = max_connections
==============================================================================
