-------------------------- MODULE ConnectionsProofs --------------------------
(****************************************************************************)
(* Proofs about Connections, for any sets of users, servers, tokens,        *)
(* tickets, connections and requests: the types, what a connection keeps of *)
(* its sign-in, and what is admitted: a ticket admits one connection, and a *)
(* connection is assigned its server as long as assignments have one editor *)
(* at a time.                                                               *)
(****************************************************************************)
EXTENDS Connections, TLAPS

(* The database stays a database and each task's state keeps its type.      *)
LEMMA WrittenType ==
    ASSUME db \in Database, NEW q \in RequestState,
           q.op \in {"logout", "revoke", "clear_sid", "remove_user", "remove_server"}
    PROVE  Written(q) \in Database
BY Zenon DEF Written, Database, RequestState, Op

(* The state of a request slot between two handlers has the type of one.    *)
LEMMA IdleType == Idle \in RequestState
BY DEF Idle, RequestState, Op

(* What TypeOK says of a connection's task and of a request, so that a step *)
(* of one of them is checked alone.                                         *)
ConnOK == conn \in [Conn -> ConnState]
RequestOK ==
    /\ request \in [Request \cup Editor -> RequestState]
    /\ \A r \in Request \cup Editor : request[r].op = "connect" => request[r].ticket \in Ticket

(* Every step of a connection keeps the type of its task.                   *)
LEMMA ConnStepType ==
    ASSUME TypeOK, NEW c \in Conn, ConnNext(c) PROVE ConnOK'
<1> USE DEF ConnOK
<1>0. conn \in [Conn -> ConnState] /\ conn[c] \in ConnState /\ generation \in Nat
  BY DEF TypeOK
<1>1. ASSUME NEW k \in Token, Upgrade(c, k) PROVE ConnOK'
  BY <1>0, <1>1, Zenon DEF Upgrade, ConnState, ConnStep
<1>2. CASE Register(c)
  BY <1>0, <1>2, Zenon DEF Register, ConnState, ConnStep
<1>3. ASSUME NEW step \in ConnStep, Goto(c, step) PROVE ConnOK'
  BY <1>0, <1>3 DEF Goto, ConnState
<1>4. ASSUME NEW t \in Ticket, NEW s \in Server, AdmitRedeem(c, t, s) PROVE ConnOK'
  <2> DEFINE x == [conn[c] EXCEPT !.step = "redeemed", !.ticket = t, !.target = s]
  <2>1. x \in ConnState
    BY <1>0, Zenon DEF ConnState, ConnStep
  <2>2. Goto(c, "refused") \/ conn' = [conn EXCEPT ![c] = x]
    BY <1>4 DEF AdmitRedeem
  <2>3. QED
    BY <1>0, <1>3, <2>1, <2>2 DEF ConnStep
<1>5. CASE AdmitSetServer(c) \/ AdmitSignIn(c) \/ AdmitServer(c) \/ AdmitAssigned(c) \/ AdmitRows(c)
  BY <1>3, <1>5
     DEF AdmitSetServer, AdmitSignIn, AdmitServer, AdmitAssigned, AdmitRows, AdmitCheck, ConnStep
<1>6. CASE RecordOpen(c) \/ Establish(c) \/ RecordEnd(c)
  BY <1>3, <1>6 DEF RecordOpen, Establish, RecordEnd, ConnStep
<1>7. CASE Leave(c) \/ SeeCancel(c)
  BY <1>3, <1>7 DEF Leave, SeeCancel, Remove, ConnStep
<1>8. QED
  BY <1>1, <1>2, <1>4, <1>5, <1>6, <1>7 DEF ConnNext, AdmitStep

(* Every step of a handler keeps the type of its state.                     *)
LEMMA RequestStepType ==
    ASSUME TypeOK, NEW r \in Request \cup Editor, RequestNext(r) \/ EditorNext(r)
    PROVE  RequestOK'
<1>0. RequestOK /\ request[r] \in RequestState
  BY DEF TypeOK, RequestOK
<1>1. ASSUME NEW x \in RequestState, request' = [request EXCEPT ![r] = x],
             x.op = "connect" => x.ticket \in Ticket
      PROVE  RequestOK'
  BY <1>0, <1>1 DEF RequestOK
<1>2. CASE Finish(r)
  BY <1>1, <1>2, IdleType, Zenon DEF Finish, Idle
<1>3. ASSUME NEW k \in Token, NEW t \in Ticket, BeginConnect(r, k, t) PROVE RequestOK'
  BY <1>1, <1>3, Zenon DEF BeginConnect, Idle, RequestState, Op
<1>4. ASSUME NEW k \in Token, BeginLogout(r, k) PROVE RequestOK'
  BY <1>1, <1>4, Zenon DEF BeginLogout, Begin, Idle, RequestState, Op
<1>5. ASSUME NEW u \in User, NEW op, BeginOnUser(r, op, u) PROVE RequestOK'
  BY <1>1, <1>5, Zenon DEF BeginOnUser, Begin, Idle, RequestState, Op
<1>6. ASSUME NEW s \in Server, BeginRemoveServer(r, s) PROVE RequestOK'
  BY <1>1, <1>6, Zenon DEF BeginRemoveServer, Begin, Idle, RequestState, Op
<1>7. ASSUME NEW u \in User, NEW wanted \in SUBSET Server, BeginSetServers(r, u, wanted)
      PROVE  RequestOK'
  BY <1>1, <1>7, Zenon DEF BeginSetServers, Begin, Idle, RequestState, Op
<1>8. CASE ReadBefore(r)
  <2> DEFINE x == [request[r] EXCEPT !.step = "write",
                     !.servers = {s \in Server : <<request[r].user, s>> \in db.assigned}]
  <2>1. x \in RequestState /\ (x.op = "connect" => x.ticket \in Ticket)
    BY <1>0, Zenon DEF RequestState, RequestOK
  <2>2. request' = [request EXCEPT ![r] = x]
    BY <1>8 DEF ReadBefore
  <2>3. QED
    BY <1>1, <2>1, <2>2, Zenon
<1>9. CASE Write(r)
  <2> DEFINE x == [request[r] EXCEPT !.step = "end"]
  <2>1. x \in RequestState /\ (x.op = "connect" => x.ticket \in Ticket)
    BY <1>0 DEF RequestState, RequestOK
  <2>2. request' = [request EXCEPT ![r] = x] \/ Finish(r)
    BY <1>9 DEF Write, Advance
  <2>3. QED
    BY <1>1, <1>2, <2>1, <2>2, Zenon
<1>10. CASE SetAssignments(r)
  <2> DEFINE x == [request[r] EXCEPT !.step = "end", !.servers = request[r].servers \ request[r].wanted]
  <2>1. x \in RequestState /\ (x.op = "connect" => x.ticket \in Ticket)
    BY <1>0, Zenon DEF RequestState, RequestOK
  <2>2. request' = [request EXCEPT ![r] = x] \/ Finish(r)
    BY <1>10 DEF SetAssignments
  <2>3. QED
    BY <1>1, <1>2, <2>1, <2>2, Zenon
<1>11. CASE Issue(r) \/ End(r)
  BY <1>2, <1>11 DEF Issue, End
<1>12. ASSUME NEW from \in User, NEW to \in User, CopyFrom(r, from, to) PROVE RequestOK'
  BY <1>0, <1>12 DEF CopyFrom, RequestOK
<1>13. QED
  BY <1>3, <1>4, <1>5, <1>6, <1>7, <1>8, <1>9, <1>10, <1>11, <1>12 DEF RequestNext, EditorNext

(* TypeOK is inductive: no handler, connection step or import leaves a      *)
(* variable outside its type.                                               *)
LEMMA TypeStep == TypeOK /\ [Next]_vars => TypeOK'
<1> SUFFICES ASSUME TypeOK, [Next]_vars PROVE TypeOK'
  OBVIOUS
<1> USE DEF dbVars, ticketVars
<1>1. ASSUME NEW k \in Token, SignIn(k) \/ Expire(k) PROVE TypeOK'
  BY <1>1 DEF SignIn, Expire, TypeOK, Database
<1>2. ASSUME NEW t \in Ticket, TicketExpires(t) PROVE TypeOK'
  BY <1>2 DEF TicketExpires, TypeOK
<1>3. ASSUME NEW c \in Conn, ConnNext(c) PROVE TypeOK'
  <2>1. ConnOK'
    BY <1>3, ConnStepType
  <2>2. /\ UNCHANGED <<db, signed, expired, issued, generation, cancelled, request, check, import>>
        /\ opens' \subseteq opens \cup {c} /\ ends' \subseteq ends \cup {c}
        /\ tickets' \subseteq tickets
    BY <1>3, Zenon DEF ConnNext, Upgrade, Register, AdmitStep, AdmitRedeem, AdmitSetServer,
         AdmitSignIn, AdmitServer, AdmitAssigned, AdmitRows, AdmitCheck, RecordOpen,
         Establish, Leave, SeeCancel, Remove, RecordEnd
  <2>3. QED
    BY <2>1, <2>2 DEF TypeOK, ConnOK
<1>4. ASSUME NEW r \in Request \cup Editor, RequestNext(r) \/ EditorNext(r) PROVE TypeOK'
  <2>0. RequestOK' /\ request[r] \in RequestState
    BY <1>4, RequestStepType DEF TypeOK
  <2>1. db' \in Database
    <3>1. CASE Write(r)
      BY <2>0, <3>1, WrittenType DEF Write, TypeOK
    <3>2. CASE SetAssignments(r)
      BY <2>0, <3>2 DEF SetAssignments, TypeOK, Database, RequestState
    <3>3. ASSUME NEW from \in User, NEW to \in User, CopyFrom(r, from, to) PROVE db' \in Database
      BY <3>3 DEF CopyFrom, TypeOK, Database
    <3>4. db' = db \/ Write(r) \/ SetAssignments(r) \/ \E from, to \in User : CopyFrom(r, from, to)
      BY <1>4, Zenon DEF RequestNext, EditorNext, BeginConnect, Issue, BeginLogout, BeginOnUser,
           BeginRemoveServer, BeginSetServers, Begin, ReadBefore, End
    <3>5. QED
      BY <3>1, <3>2, <3>3, <3>4 DEF TypeOK
  <2>2. tickets' \subseteq Ticket /\ issued' \subseteq Ticket
    BY <1>4, Zenon DEF RequestNext, EditorNext, BeginConnect, Issue, BeginLogout, BeginOnUser,
           BeginRemoveServer, BeginSetServers, Begin, ReadBefore, Write, SetAssignments,
           CopyFrom, End, TypeOK
  <2>3. cancelled' \subseteq Conn /\ UNCHANGED <<opens, ends, signed, expired, generation, conn, check, import>>
    BY <1>4, Zenon DEF RequestNext, EditorNext, BeginConnect, Issue, BeginLogout, BeginOnUser,
           BeginRemoveServer, BeginSetServers, Begin, ReadBefore, Write, SetAssignments,
           CopyFrom, End, TypeOK
  <2>4. QED
    BY <2>0, <2>1, <2>2, <2>3 DEF TypeOK, RequestOK
<1>5. CASE CheckNext
  BY <1>5 DEF CheckNext, CheckPurge, CheckCollect, CheckEnd, TypeOK, Database
<1>6. ASSUME NEW d \in Archives, ImportSwap(d) PROVE TypeOK'
  BY <1>6, ConstantsAssumption DEF ImportSwap, TypeOK, Database
<1>7. CASE ImportBump \/ ImportClear \/ ImportEndAll
  BY <1>7 DEF ImportBump, ImportClear, ImportEndAll, TypeOK
<1>8. CASE UNCHANGED vars
  BY <1>8 DEF vars, TypeOK
<1>9. QED
  BY <1>1, <1>2, <1>3, <1>4, <1>5, <1>6, <1>7, <1>8 DEF Next, ImportNext

(* Every variable keeps its type in every behaviour.                        *)
THEOREM TypeCorrect == Spec => []TypeOK
<1>1. Init => TypeOK
  BY ConstantsAssumption, IdleType DEF Init, TypeOK, Database, ConnState, ConnStep, Idle
<1>2. QED
  BY <1>1, TypeStep, PTL DEF Spec

------------------------------------------------------------------------------
(* What each process leaves alone.                                          *)

(* A connection's step leaves the database's rows, the generation, the      *)
(* handlers, the check and the import alone.                                *)
LEMMA ConnFrame ==
    ASSUME TypeOK, NEW c \in Conn, ConnNext(c)
    PROVE  /\ UNCHANGED <<db, signed, expired, issued, generation, cancelled, request, check, import>>
           /\ \A d \in Conn : d # c => conn'[d] = conn[d]
BY Zenon DEF TypeOK, ConnNext, Upgrade, Register, AdmitStep, AdmitRedeem, AdmitSetServer,
       AdmitSignIn, AdmitServer, AdmitAssigned, AdmitRows, AdmitCheck, RecordOpen,
       Establish, Leave, SeeCancel, Remove, RecordEnd, Goto, dbVars, ticketVars

(* A handler's step leaves the connections' tasks, the generation and the   *)
(* import alone.                                                            *)
LEMMA RequestFrame ==
    ASSUME TypeOK, NEW r \in Request \cup Editor, RequestNext(r) \/ EditorNext(r)
    PROVE  /\ UNCHANGED <<opens, ends, signed, expired, generation, conn, check, import>>
           /\ \A q \in Request \cup Editor : q # r => request'[q] = request[q]
           /\ cancelled \subseteq cancelled'
BY Zenon DEF TypeOK, RequestNext, EditorNext, BeginConnect, Issue, BeginLogout, BeginOnUser,
       BeginRemoveServer, BeginSetServers, Begin, ReadBefore, Write, SetAssignments,
       CopyFrom, End, Advance, Finish, dbVars, ticketVars

(* The session check leaves everything but expired sign-ins and cancels     *)
(* alone.                                                                   *)
LEMMA CheckFrame ==
    ASSUME CheckNext
    PROVE  /\ UNCHANGED <<opens, ends, signed, expired, tickets, issued, generation, conn, request, import>>
           /\ cancelled \subseteq cancelled'
BY DEF CheckNext, CheckPurge, CheckCollect, CheckEnd, dbVars, ticketVars

(* A connection's moves, with what each of them has seen.                   *)
Keeps(c) == /\ conn'[c].token = conn[c].token /\ conn'[c].gen = conn[c].gen
            /\ conn'[c].ticket = conn[c].ticket /\ conn'[c].target = conn[c].target
            /\ tickets' = tickets

Path == {<<"redeemed", "placed">>, <<"signedin", "found">>, <<"assigned", "admitted">>,
         <<"opened", "relaying">>}

Upgraded(c) ==
    /\ conn[c].step = "new" /\ conn'[c].step = "upgrade" /\ ~Exclusive
    /\ conn'[c].token \in Token /\ conn'[c].ticket = conn[c].ticket
    /\ UNCHANGED <<opens, ends, tickets>>
MadeLive(c) ==
    /\ conn[c].step = "upgrade" /\ conn'[c].step = "setup"
    /\ conn'[c].gen = generation
    /\ conn'[c].token = conn[c].token /\ conn'[c].ticket = conn[c].ticket
    /\ UNCHANGED <<opens, ends, tickets>>
Redeemed(c) ==
    /\ conn[c].step = "setup" /\ conn'[c].step = "redeemed" /\ ~Exclusive
    /\ conn'[c].ticket \in tickets /\ tickets' = tickets \ {conn'[c].ticket}
    /\ TicketFor[conn'[c].ticket].user = UserOf(c)
    /\ conn'[c].token = conn[c].token /\ conn'[c].gen = conn[c].gen
    /\ UNCHANGED <<opens, ends>>
Spent(c) ==
    /\ conn[c].step = "setup" /\ conn'[c].step = "refused"
    /\ conn'[c].token = conn[c].token /\ conn'[c].gen = conn[c].gen
    /\ conn'[c].ticket = conn[c].ticket /\ tickets' \subseteq tickets
    /\ UNCHANGED <<opens, ends>>
Left(c) ==
    /\ conn[c].step \in RegisteredStep /\ conn'[c].step \in {"refused", "closed", "ending"}
    /\ Keeps(c) /\ UNCHANGED <<opens, ends>>
SawSignIn(c) ==
    /\ conn[c].step = "placed" /\ conn'[c].step = "signedin" /\ SignedIn(conn[c].token)
    /\ Keeps(c) /\ UNCHANGED <<opens, ends>>
SawAssigned(c) ==
    /\ conn[c].step = "found" /\ conn'[c].step = "assigned"
    /\ <<UserOf(c), conn[c].target>> \in db.assigned
    /\ conn[c].target = TicketFor[conn[c].ticket].server
    /\ Keeps(c) /\ UNCHANGED <<opens, ends>>
WentOn(c) ==
    /\ <<conn[c].step, conn'[c].step>> \in Path
    /\ Keeps(c) /\ UNCHANGED <<opens, ends>>
Opened(c) ==
    /\ conn[c].step = "admitted" /\ conn'[c].step = "opened" /\ ~Exclusive
    /\ conn[c].gen = generation /\ opens' = opens \cup {c} /\ UNCHANGED ends
    /\ Keeps(c)
Closed(c) ==
    /\ conn[c].step = "ending" /\ conn'[c].step = "closed" /\ ~Exclusive
    /\ UNCHANGED opens /\ Keeps(c)
    /\ ends' = ends \/ (conn[c].gen = generation /\ ends' = ends \cup {c})

Moves(c) == \/ Upgraded(c) \/ MadeLive(c) \/ Redeemed(c) \/ Spent(c) \/ Left(c)
            \/ SawSignIn(c) \/ SawAssigned(c) \/ WentOn(c) \/ Opened(c) \/ Closed(c)

(* Every step of a connection is one of the moves above and leaves the      *)
(* other connections' tasks alone.                                          *)
LEMMA ConnMoves ==
    ASSUME TypeOK, NEW c \in Conn, ConnNext(c)
    PROVE  Moves(c)
<1>0. conn \in [Conn -> ConnState] /\ conn[c] \in ConnState
  BY DEF TypeOK
<1>1. ASSUME NEW step, Goto(c, step), UNCHANGED tickets
      PROVE  Keeps(c) /\ conn'[c].step = step
  BY <1>0, <1>1 DEF Goto, ConnState, Keeps
<1> USE DEF dbVars, ticketVars, RegisteredStep, Path
<1>2. ASSUME NEW k \in Token, Upgrade(c, k)
      PROVE  Upgraded(c)
  BY <1>0, <1>2 DEF Upgrade, ConnState, Upgraded
<1>3. CASE Register(c)
  <2>1. MadeLive(c)
    BY <1>0, <1>3 DEF Register, ConnState, MadeLive
  <2>2. QED
    BY <2>1 DEF Moves
<1>4. ASSUME NEW t \in Ticket, NEW s \in Server, AdmitRedeem(c, t, s)
      PROVE  Redeemed(c) \/ Spent(c)
  <2>1. CASE Goto(c, "refused")
    BY <1>0, <1>4, <2>1 DEF AdmitRedeem, Goto, ConnState, Spent
  <2>2. CASE /\ conn' = [conn EXCEPT ![c] =
                          [@ EXCEPT !.step = "redeemed", !.ticket = t, !.target = s]]
             /\ t \in tickets /\ tickets' = tickets \ {t} /\ TicketFor[t].user = UserOf(c)
    BY <1>0, <1>4, <2>2 DEF AdmitRedeem, ConnState, Redeemed
  <2>3. QED
    BY <1>4, <2>1, <2>2 DEF AdmitRedeem
<1>5. CASE AdmitSetServer(c)
  BY <1>1, <1>5 DEF AdmitSetServer, Moves, WentOn
<1>6. CASE AdmitSignIn(c)
  BY <1>1, <1>6 DEF AdmitSignIn, AdmitCheck, Moves, SawSignIn, Left
<1>7. CASE AdmitServer(c)
  BY <1>1, <1>7 DEF AdmitServer, AdmitCheck, Moves, WentOn, Left
<1>8. CASE AdmitAssigned(c)
  BY <1>1, <1>8 DEF AdmitAssigned, AdmitCheck, Moves, SawAssigned, Left
<1>9. CASE AdmitRows(c)
  BY <1>1, <1>9 DEF AdmitRows, AdmitCheck, Moves, WentOn, Left
<1>10. CASE RecordOpen(c)
  BY <1>1, <1>10 DEF RecordOpen, Moves, Opened, Left
<1>11. CASE Establish(c)
  BY <1>1, <1>11 DEF Establish, Moves, WentOn
<1>12. CASE Leave(c) \/ SeeCancel(c)
  BY <1>1, <1>12 DEF Leave, SeeCancel, Remove, Waiting, Moves, Left
<1>13. CASE RecordEnd(c)
  BY <1>1, <1>13 DEF RecordEnd, Moves, Closed
<1>14. QED
  BY <1>2, <1>3, <1>4, <1>5, <1>6, <1>7, <1>8, <1>9, <1>10, <1>11, <1>12, <1>13
     DEF ConnNext, AdmitStep, Moves

------------------------------------------------------------------------------
(* The database a connection and its history belong to.                     *)

(* ImportAlone is inductive: an import takes the gate only when no request  *)
(* and no admission has it, and none begins while it is held                *)
(* (gate_requests, import_exclusive).                                       *)
LEMMA AloneStep ==
    ASSUME TypeOK, ImportAlone, [Next]_vars
    PROVE  ImportAlone'
<1> USE DEF ImportAlone
<1>1. CASE \E c \in Conn : ConnNext(c)
  <2> PICK c \in Conn : ConnNext(c)
    BY <1>1
  <2>0. Moves(c)
    BY ConnMoves, Zenon
  <2>1. Exclusive' => Exclusive /\ ~HoldsGate(c)
    BY ConnFrame DEF Exclusive
  <2>2. Exclusive => ~HoldsGate(c)'
    <3>1. Exclusive /\ ~HoldsGate(c) => ~HoldsGate(c)'
      BY <2>0 DEF Moves, Upgraded, MadeLive, Redeemed, Spent, Left, SawSignIn,
             SawAssigned, WentOn, Opened, Closed, Path, HoldsGate, RegisteredStep
    <3>2. QED
      BY <3>1
  <2>3. QED
    BY <2>1, <2>2, ConnFrame DEF HoldsGate
<1>2. CASE \E r \in Request \cup Editor : RequestNext(r) \/ EditorNext(r)
  <2> PICK r \in Request \cup Editor : RequestNext(r) \/ EditorNext(r)
    BY <1>2
  <2>1. Exclusive => FALSE
    BY DEF RequestNext, EditorNext, BeginConnect, Issue, BeginLogout, BeginOnUser,
           BeginRemoveServer, BeginSetServers, Begin, ReadBefore, Write, SetAssignments,
           CopyFrom, End
  <2>2. QED
    BY <2>1, RequestFrame DEF Exclusive
<1>3. CASE CheckNext
  BY <1>3, CheckFrame DEF Exclusive, HoldsGate
<1>4. CASE ImportNext
  BY <1>4 DEF ImportNext, ImportSwap, ImportBump, ImportClear, ImportEndAll, GateFree,
              Exclusive, HoldsGate
<1>5. CASE \/ \E k \in Token : SignIn(k) \/ Expire(k)
           \/ \E t \in Ticket : TicketExpires(t)
           \/ UNCHANGED vars
  BY <1>5 DEF SignIn, Expire, TicketExpires, vars, Exclusive, HoldsGate
<1>6. QED
  BY <1>1, <1>2, <1>3, <1>4, <1>5 DEF Next

(* ConnectionIsOfThisDatabase is kept by every step: register numbers a     *)
(* connection with the generation in place, and end_all comes after the     *)
(* bump under the same hold.                                                *)
LEMMA GenerationStep ==
    ASSUME TypeOK, ConnectionIsOfThisDatabase, [Next]_vars
    PROVE  ConnectionIsOfThisDatabase'
<1> USE DEF ConnectionIsOfThisDatabase
<1>1. CASE \E c \in Conn : ConnNext(c)
  <2> PICK c \in Conn : ConnNext(c)
    BY <1>1
  <2>0. Moves(c)
    BY ConnMoves, Zenon
  <2>1. Registered(c)' => \/ Registered(c) /\ conn'[c].gen = conn[c].gen
                          \/ conn'[c].gen = generation
    BY <2>0 DEF Moves, Upgraded, MadeLive, Redeemed, Spent, Left, SawSignIn,
             SawAssigned, WentOn, Opened, Closed, Keeps, Path, Registered, RegisteredStep
  <2>2. QED
    BY <2>1, ConnFrame DEF Registered, Exclusive
<1>2. CASE \E r \in Request \cup Editor : RequestNext(r) \/ EditorNext(r)
  BY <1>2, RequestFrame DEF Exclusive, Registered
<1>3. CASE CheckNext
  BY <1>3, CheckFrame DEF Exclusive, Registered
<1>4. CASE ImportNext
  BY <1>4 DEF ImportNext, ImportSwap, ImportBump, ImportClear, ImportEndAll,
              Exclusive, Registered
<1>5. CASE \/ \E k \in Token : SignIn(k) \/ Expire(k)
           \/ \E t \in Ticket : TicketExpires(t)
           \/ UNCHANGED vars
  BY <1>5 DEF SignIn, Expire, TicketExpires, vars, Exclusive, Registered
<1>6. QED
  BY <1>1, <1>2, <1>3, <1>4, <1>5 DEF Next

(* "A connection records the database generation it was admitted under": an *)
(* import leaves no connection of the database it replaced uncancelled      *)
(* (migrate::apply, LiveSessions::end_all), for any number of imports.      *)
THEOREM GenerationCorrect == Spec => []ConnectionIsOfThisDatabase
<1>1. Init => ConnectionIsOfThisDatabase
  BY DEF Init, ConnectionIsOfThisDatabase, Registered, RegisteredStep
<1>2. QED
  BY <1>1, TypeCorrect, GenerationStep, PTL DEF Spec

(* HistoryIsOfThisDatabase and HistoryHolds are kept by every step:         *)
(* record_open and record_end compare generations under the gate.           *)
LEMMA HistoryStep ==
    ASSUME TypeOK, HistoryHolds, HistoryIsOfThisDatabase, [Next]_vars
    PROVE  (HistoryHolds /\ HistoryIsOfThisDatabase)'
<1> USE DEF HistoryHolds, HistoryIsOfThisDatabase
<1>0. opens \subseteq Conn /\ ends \subseteq Conn
  BY DEF TypeOK
<1>1. CASE \E c \in Conn : ConnNext(c)
  <2> PICK c \in Conn : ConnNext(c)
    BY <1>1
  <2>0. Moves(c)
    BY ConnMoves, Zenon
  <2>2. /\ opens' \cup ends' \subseteq opens \cup ends \cup {c}
        /\ c \in opens' \cup ends' =>
              conn'[c].gen = generation /\ conn'[c].step \notin {"new", "upgrade"}
    BY <1>0, <2>0 DEF Moves, Upgraded, MadeLive, Redeemed, Spent, Left, SawSignIn,
             SawAssigned, WentOn, Opened, Closed, Keeps, Path, RegisteredStep
  <2>3. import = "swapped" => opens' = opens /\ ends' = ends
    BY <2>0 DEF Moves, Upgraded, MadeLive, Redeemed, Spent, Left, SawSignIn,
             SawAssigned, WentOn, Opened, Closed, Keeps, Path, Exclusive
  <2>4. QED
    BY <1>0, <2>2, <2>3, ConnFrame
<1>2. CASE \E r \in Request \cup Editor : RequestNext(r) \/ EditorNext(r)
  BY <1>2, RequestFrame
<1>3. CASE CheckNext
  BY <1>3, CheckFrame
<1>4. CASE ImportNext
  BY <1>4 DEF ImportNext, ImportSwap, ImportBump, ImportClear, ImportEndAll, dbVars
<1>5. CASE \/ \E k \in Token : SignIn(k) \/ Expire(k)
           \/ \E t \in Ticket : TicketExpires(t)
           \/ UNCHANGED vars
  BY <1>5 DEF SignIn, Expire, TicketExpires, vars, dbVars
<1>6. QED
  BY <1>1, <1>2, <1>3, <1>4, <1>5 DEF Next

(* Openings and ends are recorded only in the database the connection was   *)
(* registered under (record_open, record_end), however imports interleave.  *)
THEOREM HistoryCorrect == Spec => []HistoryIsOfThisDatabase
<1>1. Init => HistoryHolds /\ HistoryIsOfThisDatabase
  BY DEF Init, HistoryHolds, HistoryIsOfThisDatabase
<1>2. QED
  BY <1>1, TypeCorrect, HistoryStep, PTL DEF Spec

------------------------------------------------------------------------------
(* Sign-ins.  A handler that has written and not yet ended connections goes *)
(* on covering a connection that moves, and other handlers' steps leave it  *)
(* alone; when it ends connections, the connection is cancelled.            *)

Admitted == {"signedin", "found", "assigned", "admitted", "opened", "relaying"}

(* A connection among the admitted was so before, under the same token and  *)
(* ticket, or has just seen its sign-in.                                    *)
LEMMA AdmittedMoves ==
    ASSUME NEW c \in Conn, Moves(c), conn'[c].step \in Admitted
    PROVE  \/ SawSignIn(c)
           \/ /\ conn[c].step \in Admitted
              /\ conn'[c].token = conn[c].token /\ conn'[c].ticket = conn[c].ticket
<1>1. ~(Upgraded(c) \/ MadeLive(c) \/ Redeemed(c) \/ Spent(c))
  BY DEF Upgraded, MadeLive, Redeemed, Spent, Admitted
<1>2. ~(Left(c) \/ Closed(c))
  BY DEF Left, Closed, Admitted
<1>3. CASE SawAssigned(c)
  BY <1>3 DEF SawAssigned, Keeps, Admitted
<1>4. CASE WentOn(c)
  <2>1. conn[c].step \in {"signedin", "assigned", "opened"}
    BY <1>4 DEF WentOn, Path, Admitted
  <2>2. QED
    BY <1>4, <2>1 DEF WentOn, Keeps, Admitted
<1>5. CASE Opened(c)
  BY <1>5 DEF Opened, Keeps, Admitted
<1>6. QED
  BY <1>1, <1>2, <1>3, <1>4, <1>5 DEF Moves

(* A connection's step keeps it within reach of a handler about to end it.  *)
LEMMA WillEndMoves ==
    ASSUME TypeOK, NEW d \in Conn, ConnNext(d), NEW c \in Conn, WillEnd(c),
           conn[c].step \in Admitted, conn'[c].step \in Admitted
    PROVE  WillEnd(c)'
<1>1. request' = request
  BY ConnFrame
<1>2. /\ conn'[c].token = conn[c].token /\ conn'[c].ticket = conn[c].ticket
  <2>1. CASE c = d
    <3>1. Moves(c)
      BY <2>1, ConnMoves, Zenon
    <3>2. QED
      BY <3>1, AdmittedMoves DEF SawSignIn, Keeps
  <2>2. CASE c # d
    BY <2>2, ConnFrame
  <2>3. QED
    BY <2>1, <2>2
<1>3. UserOf(c)' = UserOf(c) /\ ServerOf(c)' = ServerOf(c)
  BY <1>2 DEF UserOf, ServerOf, Admitted
<1>4. QED
  BY <1>1, <1>2, <1>3 DEF WillEnd, Covers

(* Another handler's step keeps a connection within reach of a handler      *)
(* about to end it.                                                         *)
LEMMA WillEndKept ==
    ASSUME TypeOK, NEW r \in Request \cup Editor, RequestNext(r) \/ EditorNext(r),
           NEW c \in Conn, WillEnd(c), Registered(c), c \notin cancelled'
    PROVE  WillEnd(c)'
<1>1. PICK q \in Request \cup Editor : request[q].step = "end" /\ Covers(request[q], c)
  BY DEF WillEnd
<1>2. UserOf(c)' = UserOf(c) /\ ServerOf(c)' = ServerOf(c) /\ conn' = conn
  BY RequestFrame DEF UserOf, ServerOf
<1>3. CASE q # r
  <2>1. request'[q] = request[q]
    BY <1>3, RequestFrame
  <2>2. QED
    BY <1>1, <1>2, <2>1 DEF WillEnd, Covers
<1>4. CASE q = r
  <2>1. End(r) \/ request' = request
    BY <1>1, <1>4, Zenon DEF RequestNext, EditorNext, BeginConnect, Issue, BeginLogout,
           BeginOnUser, BeginRemoveServer, BeginSetServers, Begin, ReadBefore, Write,
           SetAssignments, CopyFrom
  <2>2. ~End(r)
    BY <1>1, <1>4 DEF End
  <2>3. QED
    BY <1>1, <1>2, <2>1, <2>2 DEF WillEnd, Covers
<1>5. QED
  BY <1>3, <1>4

(* A handler's write that deletes the sign-in of a connection leaves that   *)
(* handler about to end the connection.                                     *)
LEMMA SignInTaken ==
    ASSUME TypeOK, NEW r \in Request \cup Editor, RequestNext(r) \/ EditorNext(r),
           NEW c \in Conn, conn[c].token \in db.sessions, conn[c].token \notin db'.sessions
    PROVE  WillEnd(c)'
<1>0. db \in Database /\ request[r] \in RequestState
  BY DEF TypeOK
<1>1. Write(r) /\ db' = Written(request[r]) /\ Advance(r, "end")
  BY <1>0, Zenon DEF RequestNext, EditorNext, BeginConnect, Issue, BeginLogout, BeginOnUser,
         BeginRemoveServer, BeginSetServers, Begin, ReadBefore, Write, SetAssignments,
         CopyFrom, End, dbVars, Database
<1>2. conn' = conn /\ UserOf(c)' = UserOf(c) /\ ServerOf(c)' = ServerOf(c)
  BY RequestFrame DEF UserOf, ServerOf
<1>3. request'[r] = [request[r] EXCEPT !.step = "end"]
  BY <1>1 DEF Advance, TypeOK
<1>4. /\ request'[r].step = "end" /\ request'[r].op = request[r].op
      /\ request'[r].token = request[r].token /\ request'[r].user = request[r].user
  BY <1>0, <1>3 DEF RequestState
<1>5. \/ request[r].op = "logout" /\ conn[c].token = request[r].token
      \/ request[r].op \in {"revoke", "clear_sid", "remove_user"} /\ UserOf(c) = request[r].user
  <2>1. request[r].op \in {"logout", "revoke", "clear_sid", "remove_user", "remove_server"}
    BY <1>1 DEF Write
  <2>2. QED
    BY <1>0, <1>1, <2>1 DEF Written, Database, UserOf
<1>6. QED
  BY <1>2, <1>4, <1>5 DEF WillEnd, Covers

(* ConnectionIsSignedIn is kept by every step.                              *)
LEMMA SignedInStep ==
    ASSUME TypeOK, ConnectionIsSignedIn, [Next]_vars
    PROVE  ConnectionIsSignedIn'
<1> SUFFICES ASSUME NEW c \in Conn, PastSignIn(c)', ~Exclusive'
             PROVE  conn'[c].token \in db'.sessions \cup expired' \/ WillEnd(c)'
  BY DEF ConnectionIsSignedIn
<1>0. conn'[c].step \in Admitted /\ c \notin cancelled'
  BY DEF PastSignIn, Admitted
<1>h. ASSUME conn[c].step \in Admitted, c \notin cancelled, ~Exclusive
      PROVE  conn[c].token \in db.sessions \cup expired \/ WillEnd(c)
  BY <1>h DEF ConnectionIsSignedIn, PastSignIn, Admitted
<1>1. CASE \E d \in Conn : ConnNext(d)
  <2> PICK d \in Conn : ConnNext(d)
    BY <1>1
  <2>1. UNCHANGED <<db, expired, cancelled, import, request>>
    BY ConnFrame
  <2>2. CASE conn[c].step \in Admitted /\ conn'[c].token = conn[c].token
    BY <1>0, <1>h, <2>1, <2>2, WillEndMoves DEF Exclusive
  <2>3. CASE c = d /\ SawSignIn(c)
    BY <2>1, <2>3 DEF SawSignIn, SignedIn, Keeps
  <2>4. CASE c = d
    <3>1. Moves(c)
      BY <2>4, ConnMoves, Zenon
    <3>2. SawSignIn(c) \/ (conn[c].step \in Admitted /\ conn'[c].token = conn[c].token)
      BY <1>0, <3>1, AdmittedMoves
    <3>3. QED
      BY <2>2, <2>3, <2>4, <3>2
  <2>5. CASE c # d
    BY <1>0, <2>2, <2>5, ConnFrame
  <2>6. QED
    BY <2>4, <2>5
<1>2. CASE \E r \in Request \cup Editor : RequestNext(r) \/ EditorNext(r)
  <2> PICK r \in Request \cup Editor : RequestNext(r) \/ EditorNext(r)
    BY <1>2
  <2>1. UNCHANGED <<conn, expired, import>> /\ cancelled \subseteq cancelled'
    BY RequestFrame
  <2>2. conn[c].token \in db.sessions \cup expired \/ WillEnd(c)
    BY <1>0, <1>h, <2>1 DEF Exclusive
  <2>3. Registered(c)
    BY <1>0, <2>1 DEF Registered, RegisteredStep, Admitted
  <2>4. CASE WillEnd(c)
    BY <1>0, <2>3, <2>4, WillEndKept
  <2>5. CASE conn[c].token \in db.sessions \cup expired
    BY <2>1, <2>5, SignInTaken
  <2>6. QED
    BY <2>2, <2>4, <2>5
<1>3. CASE CheckNext
  <2>1. UNCHANGED <<conn, expired, import, request>> /\ cancelled \subseteq cancelled'
    BY <1>3, CheckFrame
  <2>2. db.sessions \ expired \subseteq db'.sessions
    BY <1>3 DEF CheckNext, CheckPurge, CheckCollect, CheckEnd, dbVars, TypeOK, Database
  <2>3. WillEnd(c)' = WillEnd(c)
    BY <2>1 DEF WillEnd, Covers, UserOf, ServerOf
  <2>4. QED
    BY <1>0, <1>h, <2>1, <2>2, <2>3 DEF Exclusive
<1>4. CASE ImportNext
  <2>1. ImportEndAll
    BY <1>4 DEF ImportNext, ImportSwap, ImportBump, ImportClear, Exclusive
  <2>2. QED
    BY <1>0, <2>1 DEF ImportEndAll, Registered, RegisteredStep, Admitted
<1>5. CASE \/ \E k \in Token : SignIn(k) \/ Expire(k)
           \/ \E t \in Ticket : TicketExpires(t)
           \/ UNCHANGED vars
  <2>1. UNCHANGED <<conn, import, request, cancelled>> /\ expired \subseteq expired'
    BY <1>5 DEF SignIn, Expire, TicketExpires, vars
  <2>2. db.sessions \subseteq db'.sessions
    BY <1>5 DEF SignIn, Expire, TicketExpires, vars, dbVars, TypeOK, Database
  <2>3. WillEnd(c)' = WillEnd(c)
    BY <2>1 DEF WillEnd, Covers, UserOf, ServerOf
  <2>4. QED
    BY <1>0, <1>h, <2>1, <2>2, <2>3 DEF Exclusive
<1>6. QED
  BY <1>1, <1>2, <1>3, <1>4, <1>5 DEF Next

(* However admission and revocation interleave, a connection past its       *)
(* sign-in check has its sign-in, or a handler that deleted the sign-in     *)
(* (logout, revocation, clear_sid, remove_user) is about to end it: the     *)
(* order register, check in ws_upgrade and admit against write, end in the  *)
(* handlers leaves no gap.                                                  *)
THEOREM SignInCorrect == Spec => []ConnectionIsSignedIn
<1>1. Init => ConnectionIsSignedIn
  BY DEF Init, ConnectionIsSignedIn, PastSignIn
<1>2. QED
  BY <1>1, TypeCorrect, SignedInStep, PTL DEF Spec

------------------------------------------------------------------------------
(* Tickets.                                                                 *)

(* TaskHolds holds before any connection is made.                           *)
LEMMA TaskInit == Init => TaskHolds
<1> SUFFICES ASSUME Init, NEW c \in Conn
             PROVE  conn[c].step = "new" /\ conn[c].ticket = None
  BY DEF TaskHolds
<1> QED
  BY DEF Init

(* TaskHolds is kept by every step: what admit has learnt stays with the    *)
(* task.                                                                    *)
LEMMA TaskStep ==
    ASSUME TypeOK, TaskHolds, [Next]_vars
    PROVE  TaskHolds'
<1>1. CASE \E c \in Conn : ConnNext(c)
  <2> PICK c \in Conn : ConnNext(c)
    BY <1>1
  <2>0. Moves(c)
    BY ConnMoves, Zenon
  <2>1. conn[c] \in ConnState /\ tickets \subseteq Ticket /\ None \notin Ticket
    BY ConstantsAssumption DEF TypeOK
  <2>2. TaskHolds!(c)'
    BY <2>0, <2>1 DEF TaskHolds, Moves, Upgraded, MadeLive, Redeemed, Spent, Left, SawSignIn,
             SawAssigned, WentOn, Opened, Closed, Keeps, Path, UserOf, RegisteredStep
  <2>3. ASSUME NEW d \in Conn, d # c
        PROVE  TaskHolds!(d)'
    BY <2>3, ConnFrame DEF TaskHolds, UserOf
  <2>4. QED
    BY <2>2, <2>3 DEF TaskHolds
<1>2. CASE conn' = conn
  BY <1>2 DEF TaskHolds, UserOf
<1>3. CASE \E r \in Request \cup Editor : RequestNext(r) \/ EditorNext(r)
  BY <1>2, <1>3, RequestFrame
<1>4. CASE CheckNext \/ ImportNext
  BY <1>2, <1>4, CheckFrame DEF ImportNext, ImportSwap, ImportBump, ImportClear, ImportEndAll
<1>5. CASE \/ \E k \in Token : SignIn(k) \/ Expire(k)
           \/ \E t \in Ticket : TicketExpires(t)
           \/ UNCHANGED vars
  BY <1>2, <1>5 DEF SignIn, Expire, TicketExpires, vars
<1>6. QED
  BY <1>1, <1>3, <1>4, <1>5 DEF Next

(* TicketsSpent survives tickets leaving the table: expiry and an import's  *)
(* clear.                                                                   *)
LEMMA SpentShrinks ==
    ASSUME TypeOK, TicketsSpent, UNCHANGED <<conn, issued>>, tickets' \subseteq tickets,
           \A q \in Request : request'[q].ticket \in {None, request[q].ticket}
    PROVE  TicketsSpent'
<1>1. (tickets \subseteq issued)'
  BY DEF TicketsSpent
<1>2. ASSUME NEW c \in Conn, conn[c].ticket # None
      PROVE  /\ conn[c].ticket \in issued \ tickets'
             /\ \A r \in Request : request'[r].ticket # conn[c].ticket
             /\ \A d \in Conn : d # c => conn[d].ticket # conn[c].ticket
  BY <1>2 DEF TicketsSpent
<1>3. ASSUME NEW r \in Request, request'[r].ticket # None
      PROVE  /\ request'[r].ticket \in issued \ tickets'
             /\ \A q \in Request : q # r => request'[q].ticket # request'[r].ticket
  BY <1>3 DEF TicketsSpent
<1>4. QED
  BY <1>1, <1>2, <1>3 DEF TicketsSpent

(* TicketsSpent is kept by every step: a ticket goes from its request to    *)
(* the table to one connection, and never back.                             *)
LEMMA SpentStep ==
    ASSUME TypeOK, TicketsSpent, [Next]_vars
    PROVE  TicketsSpent'
<1>0. /\ tickets \subseteq Ticket /\ None \notin Ticket
      /\ \A c \in Conn : conn[c] \in ConnState
      /\ \A r \in Request : request[r] \in RequestState
      /\ request \in [Request \cup Editor -> RequestState]
  BY ConstantsAssumption DEF TypeOK
<1>1. CASE \E c \in Conn : ConnNext(c)
  <2> PICK c \in Conn : ConnNext(c)
    BY <1>1
  <2>0. /\ Moves(c) /\ UNCHANGED <<issued, request>>
        /\ \A d \in Conn : d # c => conn'[d] = conn[d]
    BY ConnMoves, ConnFrame
  <2>1. CASE Redeemed(c)
    <3>1. /\ conn'[c].ticket \in tickets /\ tickets' = tickets \ {conn'[c].ticket}
          /\ conn'[c].ticket # None
      BY <1>0, <2>1 DEF Redeemed
    <3>2. /\ \A d \in Conn : d # c => conn[d].ticket # conn'[c].ticket
          /\ \A r \in Request : request[r].ticket # conn'[c].ticket
      BY <3>1 DEF TicketsSpent
    <3>3. QED
      BY <2>0, <3>1, <3>2 DEF TicketsSpent
  <2>2. CASE conn'[c].ticket = conn[c].ticket /\ tickets' \subseteq tickets
    BY <2>0, <2>2 DEF TicketsSpent
  <2>3. QED
    BY <2>0, <2>1, <2>2 DEF Moves, Upgraded, MadeLive, Spent, Left, SawSignIn,
             SawAssigned, WentOn, Opened, Closed, Keeps
<1>2. CASE \E r \in Request : RequestNext(r)
  <2> PICK r \in Request : RequestNext(r)
    BY <1>2
  <2>0. /\ conn' = conn
        /\ \A q \in Request : q # r => request'[q] = request[q]
    BY RequestFrame
  <2>1. ASSUME NEW k \in Token, NEW t \in Ticket, BeginConnect(r, k, t)
        PROVE  TicketsSpent'
    <3>1. t \notin issued /\ t \notin tickets /\ issued' = issued \cup {t} /\ tickets' = tickets
      BY <2>1 DEF BeginConnect, TicketsSpent
    <3>2. request'[r].ticket = t
      BY <1>0, <2>1 DEF BeginConnect, Idle
    <3>3. (tickets \subseteq issued)'
      BY <3>1 DEF TicketsSpent
    <3>4. ASSUME NEW c \in Conn, conn[c].ticket # None
          PROVE  /\ conn[c].ticket \in issued' \ tickets'
                 /\ \A q \in Request : request'[q].ticket # conn[c].ticket
                 /\ \A d \in Conn : d # c => conn[d].ticket # conn[c].ticket
      <4>1. /\ conn[c].ticket \in issued \ tickets
            /\ \A q \in Request : request[q].ticket # conn[c].ticket
            /\ \A d \in Conn : d # c => conn[d].ticket # conn[c].ticket
        BY <3>4 DEF TicketsSpent
      <4>2. QED
        BY <2>0, <3>1, <3>2, <4>1
    <3>5. ASSUME NEW p \in Request, request'[p].ticket # None
          PROVE  /\ request'[p].ticket \in issued' \ tickets'
                 /\ \A q \in Request : q # p => request'[q].ticket # request'[p].ticket
      <4>1. \A q \in Request : request[q].ticket # None =>
               /\ request[q].ticket \in issued \ tickets
               /\ \A x \in Request : x # q => request[x].ticket # request[q].ticket
        BY DEF TicketsSpent
      <4>2. CASE p = r
        BY <1>0, <2>0, <3>1, <3>2, <4>1, <4>2
      <4>3. CASE p # r
        BY <2>0, <3>1, <3>2, <3>5, <4>1, <4>3
      <4>4. QED
        BY <4>2, <4>3
    <3>6. QED
      BY <2>0, <3>3, <3>4, <3>5 DEF TicketsSpent
  <2>2. CASE Issue(r)
    <3>1. /\ request[r].ticket \in Ticket
          /\ tickets' = tickets \cup {request[r].ticket} /\ issued' = issued
      BY <2>2 DEF Issue, TypeOK
    <3>2. request'[r].ticket = None
      BY <1>0, <2>2 DEF Issue, Finish, Idle
    <3>3. QED
      BY <1>0, <2>0, <3>1, <3>2 DEF TicketsSpent
  <2>3. ASSUME UNCHANGED ticketVars, request'[r].ticket \in {None, request[r].ticket}
        PROVE  TicketsSpent'
    BY <2>0, <2>3, SpentShrinks DEF ticketVars
  <2>4. ASSUME NEW q, q.ticket = None, Begin(r, q)
        PROVE  TicketsSpent'
    BY <1>0, <2>3, <2>4 DEF Begin
  <2>5. ASSUME NEW k \in Token, BeginLogout(r, k)
        PROVE  TicketsSpent'
    BY <2>4, <2>5, Zenon DEF BeginLogout, Idle
  <2>6. ASSUME NEW u \in User, NEW op, BeginOnUser(r, op, u)
        PROVE  TicketsSpent'
    BY <2>4, <2>6, Zenon DEF BeginOnUser, Idle
  <2>7. ASSUME NEW s \in Server, BeginRemoveServer(r, s)
        PROVE  TicketsSpent'
    BY <2>4, <2>7, Zenon DEF BeginRemoveServer, Idle
  <2>8. CASE Write(r) \/ End(r)
    BY <1>0, <2>3, <2>8 DEF Write, End, Advance, Finish, Idle, RequestState
  <2>9. QED
    BY <2>1, <2>2, <2>5, <2>6, <2>7, <2>8 DEF RequestNext
<1>7. CASE \E e \in Editor : EditorNext(e)
  <2> PICK e \in Editor : EditorNext(e)
    BY <1>7
  <2>1. UNCHANGED <<conn, tickets, issued>>
    BY Zenon DEF EditorNext, BeginSetServers, Begin, ReadBefore, SetAssignments, CopyFrom, End,
           ticketVars
  <2>2. \A q \in Request : request'[q] = request[q]
    BY RequestFrame, ConstantsAssumption
  <2>3. QED
    BY <2>1, <2>2, SpentShrinks
<1>3. CASE CheckNext
  BY <1>3, CheckFrame, SpentShrinks
<1>4. CASE ImportNext
  BY <1>4, SpentShrinks DEF ImportNext, ImportSwap, ImportBump, ImportClear, ImportEndAll,
       ticketVars
<1>5. CASE \/ \E k \in Token : SignIn(k) \/ Expire(k)
           \/ \E t \in Ticket : TicketExpires(t)
           \/ UNCHANGED vars
  BY <1>5, SpentShrinks DEF SignIn, Expire, TicketExpires, vars, ticketVars
<1>6. QED
  BY <1>1, <1>2, <1>3, <1>4, <1>5, <1>7 DEF Next

(* A connect ticket admits one connection, of the user and to the server it *)
(* was minted for (Tickets::redeem, Session::admit), however connections    *)
(* race for it.                                                             *)
THEOREM TicketCorrect == Spec => []TicketAdmitsOnce
<1>1. Init => TaskHolds /\ TicketsSpent
  <2>1. Init => TaskHolds
    BY TaskInit, Zenon
  <2>2. Init => TicketsSpent
    BY DEF Init, TicketsSpent, Idle
  <2> QED
    BY <2>1, <2>2
<1>2. TypeOK /\ TaskHolds /\ TicketsSpent => TicketAdmitsOnce
  <2> SUFFICES ASSUME TypeOK, TaskHolds, TicketsSpent PROVE TicketAdmitsOnce
    OBVIOUS
  <2>1. ASSUME NEW c \in Conn,
               conn[c].step \in {"assigned", "admitted", "opened", "relaying"}
        PROVE  TicketFor[conn[c].ticket] = [user |-> UserOf(c), server |-> conn[c].target]
    <3>1. /\ conn[c].ticket \in Ticket /\ None \notin Ticket
          /\ TicketFor[conn[c].ticket].user = UserOf(c)
          /\ TicketFor[conn[c].ticket].server = conn[c].target
      BY <2>1, ConstantsAssumption DEF TaskHolds
    <3>2. TicketFor[conn[c].ticket] \in [user : User, server : Server]
      BY <3>1, ConstantsAssumption
    <3>3. QED
      BY <3>1, <3>2
  <2>2. QED
    BY <2>1 DEF TicketAdmitsOnce, TicketsSpent
<1>3. QED
  BY <1>1, <1>2, TypeCorrect, TaskStep, SpentStep, PTL DEF Spec

------------------------------------------------------------------------------
(* Assignments.  set_user_servers ends the connections of the assignments   *)
(* it read before its write and no longer wants, so the read must still be  *)
(* current at the write: it is when assignments have one editor at a time.  *)

OneEditor == \A e, f \in Editor : e = f

(* With one editor, BeforeIsCurrent is kept by every step: between          *)
(* set_user_servers' read and its write nobody adds an assignment.          *)
LEMMA BeforeStep ==
    ASSUME OneEditor, TypeOK, ImportAlone, BeforeIsCurrent, [Next]_vars
    PROVE  BeforeIsCurrent'
<1>0. db \in Database
  BY DEF TypeOK
<1> SUFFICES ASSUME NEW e \in Editor, request'[e].step = "write", NEW s \in Server,
                    <<request'[e].user, s>> \in db'.assigned
             PROVE  s \in request'[e].servers
  BY DEF BeforeIsCurrent
<1>1. CASE request'[e] = request[e] /\ db'.assigned \subseteq db.assigned
  BY <1>1 DEF BeforeIsCurrent
<1>2. CASE \E c \in Conn : ConnNext(c)
  BY <1>1, <1>2, ConnFrame
<1>3. CASE \E r \in Request : RequestNext(r)
  <2> PICK r \in Request : RequestNext(r)
    BY <1>3
  <2>1. request'[e] = request[e]
    BY RequestFrame, ConstantsAssumption
  <2>2. db' = db \/ (Write(r) /\ db' = Written(request[r]))
    BY Zenon DEF RequestNext, BeginConnect, Issue, BeginLogout, BeginOnUser,
           BeginRemoveServer, Begin, Write, End, dbVars
  <2>3. ASSUME Write(r), db' = Written(request[r])
        PROVE  db'.assigned \subseteq db.assigned
    <3>1. request[r].op \in {"logout", "revoke", "clear_sid", "remove_user", "remove_server"}
      BY <2>3 DEF Write
    <3>2. QED
      BY <1>0, <2>3, <3>1 DEF Written, Database
  <2>4. QED
    BY <1>1, <2>1, <2>2, <2>3
<1>4. CASE EditorNext(e)
  <2>0. request[e] \in RequestState /\ request \in [Request \cup Editor -> RequestState]
    BY DEF TypeOK
  <2>1. ASSUME NEW u \in User, NEW wanted \in SUBSET Server, BeginSetServers(e, u, wanted)
        PROVE  FALSE
    BY <2>0, <2>1 DEF BeginSetServers, Begin, Idle
  <2>2. CASE ReadBefore(e)
    <3>1. request'[e].user = request[e].user /\ db' = db
      BY <2>0, <2>2 DEF ReadBefore, RequestState, dbVars
    <3>2. request'[e].servers = {x \in Server : <<request[e].user, x>> \in db.assigned}
      BY <2>0, <2>2 DEF ReadBefore, RequestState
    <3>3. QED
      BY <3>1, <3>2
  <2>7. ASSUME Finish(e) PROVE FALSE
    <3>0. e \in DOMAIN request
      BY <2>0
    <3>1. request'[e] = Idle
      BY <3>0, <2>7, Zenon DEF Finish
    <3>2. QED
      BY <3>1 DEF Idle
  <2>3. ASSUME SetAssignments(e) PROVE FALSE
    <3>1. ASSUME request' = [request EXCEPT ![e] =
             [@ EXCEPT !.step = "end", !.servers = request[e].servers \ request[e].wanted]]
          PROVE  FALSE
      <4>1. request'[e] = [request[e] EXCEPT !.step = "end",
                             !.servers = request[e].servers \ request[e].wanted]
        BY <2>0, <3>1
      <4>2. QED
        BY <2>0, <4>1 DEF RequestState
    <3>2. QED
      BY <2>3, <2>7, <3>1 DEF SetAssignments
  <2>6. ~End(e)
    BY <2>7 DEF End
  <2>4. ~(\E from, to \in User : CopyFrom(e, from, to))
    BY <2>0 DEF CopyFrom
  <2>5. QED
    BY <1>4, <2>1, <2>2, <2>3, <2>4, <2>6 DEF EditorNext
<1>5. CASE CheckNext
  BY <1>0, <1>1, <1>5, CheckFrame DEF CheckNext, CheckPurge, CheckCollect, CheckEnd, dbVars,
       Database
<1>6. CASE ImportNext
  <2>1. request' = request /\ (db' = db \/ GateFree)
    BY <1>6 DEF ImportNext, ImportSwap, ImportBump, ImportClear, ImportEndAll, dbVars
  <2>2. QED
    BY <1>1, <2>1 DEF GateFree
<1>7. CASE \/ \E k \in Token : SignIn(k) \/ Expire(k)
           \/ \E t \in Ticket : TicketExpires(t)
           \/ UNCHANGED vars
  BY <1>0, <1>1, <1>7 DEF SignIn, Expire, TicketExpires, vars, dbVars, Database
<1>8. QED
  BY <1>2, <1>3, <1>4, <1>5, <1>6, <1>7 DEF Next, OneEditor

Acts(r) == \/ r \in Request /\ RequestNext(r)
           \/ r \in Editor /\ EditorNext(r)

(* A handler's write that takes an assignment away leaves that handler      *)
(* about to end the connections it covers.                                  *)
LEMMA AssignmentTaken ==
    ASSUME TypeOK, TaskHolds, BeforeIsCurrent, NEW r \in Request \cup Editor, Acts(r),
           NEW c \in Conn, conn[c].step \in {"assigned", "admitted", "opened", "relaying"},
           <<UserOf(c), conn[c].target>> \in db.assigned,
           <<UserOf(c), conn[c].target>> \notin db'.assigned
    PROVE  WillEnd(c)'
<1>0. db \in Database /\ request[r] \in RequestState
  BY DEF TypeOK
<1>a. RequestNext(r) \/ EditorNext(r)
  BY DEF Acts
<1>1. conn' = conn /\ UserOf(c)' = UserOf(c) /\ ServerOf(c)' = ServerOf(c)
  BY <1>a, RequestFrame DEF UserOf, ServerOf
<1>2. ServerOf(c) = conn[c].target
  BY ConstantsAssumption DEF TaskHolds, ServerOf
<1>3. \/ Write(r) /\ db' = Written(request[r]) /\ Advance(r, "end")
      \/ r \in Editor /\ SetAssignments(r)
  BY <1>0, Zenon DEF Acts, RequestNext, EditorNext, BeginConnect, Issue, BeginLogout, BeginOnUser,
         BeginRemoveServer, BeginSetServers, Begin, ReadBefore, Write,
         CopyFrom, End, dbVars, Database
<1>4. CASE Write(r) /\ db' = Written(request[r]) /\ Advance(r, "end")
  <2>1. request'[r] = [request[r] EXCEPT !.step = "end"]
    BY <1>4 DEF Advance, TypeOK
  <2>2. /\ request'[r].step = "end" /\ request'[r].op = request[r].op
        /\ request'[r].server = request[r].server /\ request'[r].user = request[r].user
    BY <1>0, <2>1 DEF RequestState
  <2>3. request[r].op \in {"logout", "revoke", "clear_sid", "remove_user", "remove_server"}
    BY <1>4 DEF Write
  <2>4. \/ request[r].op = "remove_user" /\ UserOf(c) = request[r].user
        \/ request[r].op = "remove_server" /\ conn[c].target = request[r].server
    BY <1>0, <1>4, <2>3 DEF Written, Database
  <2>5. QED
    BY <1>1, <1>2, <2>2, <2>4 DEF WillEnd, Covers
<1>5. CASE r \in Editor /\ SetAssignments(r)
  <2>1. request[r].step = "write" /\ request[r].op = "set_servers"
    BY <1>5 DEF SetAssignments
  <2>2. db' = [db EXCEPT !.assigned = {a \in @ : a[1] # request[r].user}
                                         \cup ({request[r].user} \X request[r].wanted)]
        /\ request' = [request EXCEPT ![r] =
              [@ EXCEPT !.step = "end", !.servers = request[r].servers \ request[r].wanted]]
    BY <1>5 DEF SetAssignments
  <2>3. UserOf(c) = request[r].user /\ conn[c].target \notin request[r].wanted
    BY <1>0, <2>2 DEF Database
  <2>4. conn[c].target \in Server
    BY <1>0 DEF Database
  <2>5. conn[c].target \in request[r].servers \ request[r].wanted
    BY <1>5, <2>1, <2>3, <2>4 DEF BeforeIsCurrent
  <2>6. /\ request'[r].step = "end" /\ request'[r].op = "set_servers"
        /\ request'[r].user = request[r].user
        /\ request'[r].servers = request[r].servers \ request[r].wanted
    BY <1>0, <2>1, <2>2 DEF RequestState, TypeOK
  <2>7. QED
    BY <1>1, <1>2, <2>3, <2>5, <2>6 DEF WillEnd, Covers
<1>6. QED
  BY <1>3, <1>4, <1>5

(* ConnectionIsAssigned is kept by every step, given BeforeIsCurrent.       *)
LEMMA AssignedStep ==
    ASSUME TypeOK, TaskHolds, BeforeIsCurrent, ConnectionIsAssigned, [Next]_vars
    PROVE  ConnectionIsAssigned'
<1> DEFINE past == {"assigned", "admitted", "opened", "relaying"}
<1> SUFFICES ASSUME NEW c \in Conn, PastAssigned(c)', ~Exclusive'
             PROVE  <<UserOf(c)', conn'[c].target>> \in db'.assigned \/ WillEnd(c)'
  BY DEF ConnectionIsAssigned
<1>0. conn'[c].step \in past /\ c \notin cancelled'
  BY DEF PastAssigned
<1>h. ASSUME conn[c].step \in past, c \notin cancelled, ~Exclusive
      PROVE  <<UserOf(c), conn[c].target>> \in db.assigned \/ WillEnd(c)
  BY <1>h DEF ConnectionIsAssigned, PastAssigned
<1>1. CASE \E d \in Conn : ConnNext(d)
  <2> PICK d \in Conn : ConnNext(d)
    BY <1>1
  <2>1. UNCHANGED <<db, cancelled, import, request>>
    BY ConnFrame
  <2>2. CASE conn[c].step \in past /\ conn'[c].token = conn[c].token
             /\ conn'[c].target = conn[c].target
    <3>1. UserOf(c)' = UserOf(c)
      BY <2>2 DEF UserOf
    <3>2. conn[c].step \in Admitted /\ conn'[c].step \in Admitted
      BY <1>0, <2>2 DEF Admitted
    <3>3. QED
      BY <1>0, <1>h, <2>1, <2>2, <3>1, <3>2, WillEndMoves DEF Exclusive
  <2>3. CASE SawAssigned(c)
    BY <2>1, <2>3 DEF SawAssigned, UserOf, Keeps
  <2>4. CASE c = d
    <3>1. Moves(c)
      BY <2>4, ConnMoves, Zenon
    <3>2. \/ SawAssigned(c)
          \/ /\ conn[c].step \in past /\ conn'[c].token = conn[c].token
             /\ conn'[c].target = conn[c].target
      BY <1>0, <3>1 DEF Moves, Upgraded, MadeLive, Redeemed, Spent, Left,
             SawSignIn, WentOn, Opened, Closed, Keeps, Path
    <3>3. QED
      BY <2>2, <2>3, <3>2
  <2>5. CASE c # d
    <3>1. conn'[c] = conn[c]
      BY <2>5, ConnFrame
    <3>2. QED
      BY <1>0, <2>2, <3>1, Zenon
  <2>6. QED
    BY <2>4, <2>5
<1>2. CASE \E r \in Request \cup Editor : Acts(r)
  <2> PICK r \in Request \cup Editor : Acts(r)
    BY <1>2
  <2>0. RequestNext(r) \/ EditorNext(r)
    BY DEF Acts
  <2>1. UNCHANGED <<conn, import>> /\ cancelled \subseteq cancelled' /\ UserOf(c)' = UserOf(c)
    BY <2>0, RequestFrame DEF UserOf
  <2>2. <<UserOf(c), conn[c].target>> \in db.assigned \/ WillEnd(c)
    BY <1>0, <1>h, <2>1 DEF Exclusive
  <2>3. Registered(c)
    BY <1>0, <2>1 DEF Registered, RegisteredStep
  <2>4. CASE WillEnd(c)
    BY <1>0, <2>0, <2>3, <2>4, WillEndKept
  <2>5. CASE <<UserOf(c), conn[c].target>> \in db.assigned
    BY <1>0, <2>1, <2>5, AssignmentTaken
  <2>6. QED
    BY <2>2, <2>4, <2>5
<1>4. CASE ImportNext
  <2>1. ImportEndAll
    BY <1>4 DEF ImportNext, ImportSwap, ImportBump, ImportClear, Exclusive
  <2>2. QED
    BY <1>0, <2>1 DEF ImportEndAll, Registered, RegisteredStep
<1>5. CASE \/ \E k \in Token : SignIn(k) \/ Expire(k)
           \/ \E t \in Ticket : TicketExpires(t)
           \/ CheckNext
           \/ UNCHANGED vars
  <2>1. UNCHANGED <<conn, import, request>> /\ cancelled \subseteq cancelled'
    BY <1>5, CheckFrame DEF SignIn, Expire, TicketExpires, vars
  <2>2. db'.assigned = db.assigned
    BY <1>5 DEF SignIn, Expire, TicketExpires, CheckNext, CheckPurge, CheckCollect, CheckEnd,
           vars, dbVars, TypeOK, Database
  <2>3. WillEnd(c)' = WillEnd(c) /\ UserOf(c)' = UserOf(c)
    BY <2>1 DEF WillEnd, Covers, UserOf, ServerOf
  <2>4. QED
    BY <1>0, <1>h, <2>1, <2>2, <2>3 DEF Exclusive
<1>6. QED
  BY <1>1, <1>2, <1>4, <1>5 DEF Next, Acts

(* When assignments have one editor at a time, a connection past its        *)
(* assignment check is assigned, or a handler that took the assignment away *)
(* (set_user_servers, remove_user, remove_server) is about to end it.  With *)
(* two editors it is not so: ConnectionsEditors.cfg.                        *)
THEOREM AssignedCorrect == OneEditor => (Spec => []ConnectionIsAssigned)
<1> SUFFICES ASSUME OneEditor PROVE Spec => []ConnectionIsAssigned
  OBVIOUS
<1>1. Init => ImportAlone /\ TaskHolds /\ BeforeIsCurrent /\ ConnectionIsAssigned
  <2>1. Init => ImportAlone
    BY DEF Init, ImportAlone, Exclusive
  <2>2. Init => TaskHolds
    BY TaskInit, Zenon
  <2>3. Init => BeforeIsCurrent
    <3> SUFFICES ASSUME Init, NEW e \in Editor PROVE request[e].step = "idle"
      BY DEF BeforeIsCurrent
    <3>1. request[e] = Idle
      BY DEF Init
    <3>2. Idle.step = "idle"
      BY Zenon DEF Idle
    <3> QED
      BY <3>1, <3>2
  <2>4. Init => ConnectionIsAssigned
    BY DEF Init, ConnectionIsAssigned, PastAssigned
  <2> QED
    BY <2>1, <2>2, <2>3, <2>4
<1>2. TypeOK /\ ImportAlone /\ BeforeIsCurrent /\ [Next]_vars => BeforeIsCurrent'
  BY BeforeStep
<1>3. QED
  BY <1>1, <1>2, TypeCorrect, AloneStep, TaskStep, AssignedStep, PTL DEF Spec
==============================================================================
