------------------------------ MODULE Connections ------------------------------
(****************************************************************************)
(* The admission and the ending of RDP connections: the live registry       *)
(* (live.rs), connect tickets (auth.rs), the setup of one connection        *)
(* (web.rs ws_upgrade, proxy.rs Session), the requests that revoke          *)
(* (web.rs, admin.rs, server.rs) and the import that replaces the database  *)
(* (migrate.rs), interleaved one store call, registry call or ticket call   *)
(* at a time.                                                               *)
(*                                                                          *)
(* Requests and connections hold app.gate shared and run at the same time;  *)
(* only an import holds it exclusively.  Nothing else orders an admission   *)
(* and a revocation: what makes them right is the order of the calls in     *)
(* each.                                                                    *)
(****************************************************************************)
EXTENDS Integers, FiniteSets

CONSTANTS
    User, Server,  \* ids of rows; schema 4 never reuses one
    Token,         \* sign-in session tokens, each random and minted once
    Ticket,        \* connect tickets, each random and minted once
    Conn,          \* WebSocket connections; live.rs numbers each afresh
    Request,       \* requests that may run at the same time
    Editor,        \* requests that edit assignments, likewise
    Holder,        \* the user a token signs in
    TicketFor,     \* the user and the server a ticket is minted for
    Archives,      \* databases an import may bring
    None,          \* no value
    MaxGeneration  \* bound on the number of imports

Database == [users : SUBSET User, servers : SUBSET Server,
             assigned : SUBSET (User \X Server), sessions : SUBSET Token]

(* A database the schema allows: rows reference rows that exist.            *)
Consistent(d) ==
    /\ d.assigned \subseteq d.users \X d.servers
    /\ \A k \in d.sessions : Holder[k] \in d.users

ASSUME ConstantsAssumption ==
    /\ Holder \in [Token -> User]
    /\ TicketFor \in [Ticket -> [user : User, server : Server]]
    /\ Archives \subseteq {d \in Database : Consistent(d)}
    /\ None \notin User \cup Server \cup Token \cup Ticket
    /\ Request \cap Editor = {}
    /\ MaxGeneration \in Nat

VARIABLES
    db,           \* the database in place
    opens,        \* connections whose opening is in its activity log
    ends,         \* connections whose end was recorded in its session log
    signed,       \* tokens ever minted
    expired,      \* tokens whose lifetime has passed
    tickets,      \* tickets issued and not spent
    issued,       \* tickets ever minted
    generation,   \* App.generation
    cancelled,    \* live registry entries whose cancel has been sent
    conn,         \* each connection's task: where it is and what it holds
    request,      \* each request's handler
    check,        \* the periodic session check
    import        \* the step of the import holding the gate, or "idle"

dbVars == <<db, opens, ends>>
ticketVars == <<tickets, issued>>
vars == <<db, opens, ends, signed, expired, tickets, issued, generation,
          cancelled, conn, request, check, import>>

ConnStep == {"new", "upgrade", "setup", "redeemed", "placed", "signedin",
             "found", "assigned", "admitted", "opened", "relaying", "refused",
             "ending", "closed"}

(* The steps of a connection that has an entry in the live registry, from   *)
(* register to remove.                                                      *)
RegisteredStep == {"setup", "redeemed", "placed", "signedin", "found",
                   "assigned", "admitted", "opened", "relaying", "refused"}

ConnState == [step : ConnStep, token : Token \cup {None}, gen : Nat,
              ticket : Ticket \cup {None}, target : Server \cup {None}]

Op == {"none", "connect", "logout", "revoke", "clear_sid", "remove_user",
       "remove_server", "set_servers", "copy_from"}

(* A handler in flight.  servers is what set_user_servers reads before it   *)
(* writes and, once it has written, what it took away.                      *)
RequestState == [step : {"idle", "read", "write", "end"}, op : Op,
                 token : Token \cup {None}, user : User \cup {None},
                 server : Server \cup {None}, ticket : Ticket \cup {None},
                 servers : SUBSET Server, wanted : SUBSET Server]

Idle == [step |-> "idle", op |-> "none", token |-> None, user |-> None,
         server |-> None, ticket |-> None, servers |-> {}, wanted |-> {}]

TypeOK ==
    /\ db \in Database
    /\ opens \subseteq Conn /\ ends \subseteq Conn
    /\ signed \subseteq Token /\ expired \subseteq Token
    /\ tickets \subseteq Ticket /\ issued \subseteq Ticket
    /\ generation \in Nat
    /\ cancelled \subseteq Conn
    /\ conn \in [Conn -> ConnState]
    /\ request \in [Request \cup Editor -> RequestState]
    /\ \A r \in Request \cup Editor : request[r].op = "connect" => request[r].ticket \in Ticket
    /\ check \in [step : {"idle", "purged", "collected"}, stale : SUBSET Conn]
    /\ import \in {"idle", "swapped", "bumped", "cleared"}

Init ==
    /\ db = [users |-> User, servers |-> Server,
             assigned |-> User \X Server, sessions |-> {}]
    /\ opens = {} /\ ends = {}
    /\ signed = {} /\ expired = {}
    /\ tickets = {} /\ issued = {}
    /\ generation = 0
    /\ cancelled = {}
    /\ conn = [c \in Conn |-> [step |-> "new", token |-> None, gen |-> 0,
                               ticket |-> None, target |-> None]]
    /\ request = [r \in Request \cup Editor |-> Idle]
    /\ check = [step |-> "idle", stale |-> {}]
    /\ import = "idle"

------------------------------------------------------------------------------
(* The gate.  An import waits for every holder and keeps new ones out.      *)

(* Steps of a connection made while it holds the gate shared: the upgrade   *)
(* request and Session::admit.  admit does not await between them.          *)
HoldsGate(c) == conn[c].step \in {"upgrade", "redeemed", "placed", "signedin",
                                  "found", "assigned"}

Exclusive == import # "idle"

GateFree ==
    /\ ~Exclusive
    /\ \A c \in Conn : ~HoldsGate(c)
    /\ \A r \in Request \cup Editor : request[r].step = "idle"
    /\ check.step = "idle"

(* Store::session_user: the row is there and has not expired.               *)
SignedIn(k) == k \in db.sessions /\ k \notin expired

UserOf(c) == Holder[conn[c].token]

Goto(c, step) == conn' = [conn EXCEPT ![c].step = step]

------------------------------------------------------------------------------
(* Sign-in, expiry and tickets.                                             *)

(* start_session: a fresh token for a row that exists, under the gate.      *)
SignIn(k) ==
    /\ ~Exclusive
    /\ k \notin signed
    /\ Holder[k] \in db.users
    /\ db' = [db EXCEPT !.sessions = @ \cup {k}]
    /\ signed' = signed \cup {k}
    /\ UNCHANGED <<opens, ends, expired, ticketVars, generation, cancelled, conn,
                   request, check, import>>

(* The clock passes a sign-in's expiry.                                     *)
Expire(k) ==
    /\ k \in signed \ expired
    /\ expired' = expired \cup {k}
    /\ UNCHANGED <<dbVars, signed, ticketVars, generation, cancelled, conn,
                   request, check, import>>

(* The clock passes a ticket's 60 seconds: redeem would answer None.        *)
TicketExpires(t) ==
    /\ t \in tickets
    /\ tickets' = tickets \ {t}
    /\ UNCHANGED <<dbVars, signed, expired, issued, generation, cancelled, conn,
                   request, check, import>>

------------------------------------------------------------------------------
(* One connection, from the upgrade to the end of its task.                 *)

Registered(c) == conn[c].step \in RegisteredStep

(* Faulty: set_server runs once the connection is admitted.                 *)
ServerOfLate(c) == IF conn[c].step \in {"admitted", "opened", "relaying"}
                   THEN TicketFor[conn[c].ticket].server ELSE None

(* Live::server_id: set_server runs as soon as the ticket is redeemed.      *)
ServerOf(c) == IF conn[c].ticket # None /\ conn[c].step # "redeemed"
               THEN TicketFor[conn[c].ticket].server ELSE None

(* ws_upgrade, under the request's hold: the cookie's session is read.      *)
Upgrade(c, k) ==
    /\ ~Exclusive
    /\ conn[c].step = "new"
    /\ SignedIn(k)
    /\ conn' = [conn EXCEPT ![c] = [@ EXCEPT !.step = "upgrade", !.token = k]]
    /\ UNCHANGED <<dbVars, signed, expired, ticketVars, generation, cancelled,
                   request, check, import>>

(* LiveSessions::register, with the generation of this moment.  The         *)
(* response goes out, the hold is released, the task is spawned.            *)
Register(c) ==
    /\ conn[c].step = "upgrade"
    /\ conn' = [conn EXCEPT ![c] = [@ EXCEPT !.step = "setup", !.gen = generation]]
    /\ UNCHANGED <<dbVars, signed, expired, ticketVars, generation, cancelled,
                   request, check, import>>

(* Faulty: redeem leaves the ticket in the table.                           *)
AdmitRedeemKeeps(c, t, s) ==
    /\ ~Exclusive
    /\ conn[c].step = "setup" /\ conn[c].gen = generation
    /\ t \in tickets /\ TicketFor[t].user = UserOf(c)
    /\ conn' = [conn EXCEPT ![c] = [@ EXCEPT !.step = "redeemed", !.ticket = t, !.target = s]]
    /\ UNCHANGED <<dbVars, signed, expired, ticketVars, generation, cancelled,
                   request, check, import>>

(* admit: the generation is compared, then the ticket is spent whatever     *)
(* comes next.  t and s are what the client's RDCleanPath request carries.  *)
AdmitRedeem(c, t, s) ==
    /\ ~Exclusive
    /\ conn[c].step = "setup"
    /\ \/ /\ conn[c].gen # generation \/ t \notin tickets
          /\ Goto(c, "refused")
          /\ UNCHANGED tickets
       \/ /\ conn[c].gen = generation /\ t \in tickets
          /\ tickets' = tickets \ {t}
          /\ \/ /\ TicketFor[t].user # UserOf(c)
                /\ Goto(c, "refused")
             \/ /\ TicketFor[t].user = UserOf(c)
                /\ conn' = [conn EXCEPT ![c] =
                             [@ EXCEPT !.step = "redeemed", !.ticket = t, !.target = s]]
    /\ UNCHANGED <<dbVars, signed, expired, issued, generation, cancelled,
                   request, check, import>>

(* admit: set_server.                                                       *)
AdmitSetServer(c) ==
    /\ conn[c].step = "redeemed"
    /\ Goto(c, "placed")
    /\ UNCHANGED <<dbVars, signed, expired, ticketVars, generation, cancelled,
                   request, check, import>>

(* A check of admit on the store: on to the next step, or refused.  A store *)
(* error refuses as well.                                                   *)
AdmitCheck(c, from, passes, to) ==
    /\ conn[c].step = from
    /\ \/ passes /\ Goto(c, to)
       \/ Goto(c, "refused")
    /\ UNCHANGED <<dbVars, signed, expired, ticketVars, generation, cancelled,
                   request, check, import>>

(* Faulty: the sign-in read at the upgrade is taken for good.               *)
AdmitSignInUnchecked(c) == AdmitCheck(c, "placed", TRUE, "signedin")

(* admit: session_user of the sign-in the WebSocket was opened under.       *)
AdmitSignIn(c) == AdmitCheck(c, "placed", SignedIn(conn[c].token), "signedin")

(* policy::resolve: server_by_id, then is_assigned; the resolved server     *)
(* must be the ticket's.                                                    *)
AdmitServer(c) == AdmitCheck(c, "signedin", conn[c].target \in db.servers, "found")

AdmitAssigned(c) ==
    AdmitCheck(c, "found",
               /\ <<UserOf(c), conn[c].target>> \in db.assigned
               /\ conn[c].target = TicketFor[conn[c].ticket].server,
               "assigned")

(* admit: the rows' incarnations are read and kept; the hold is released.   *)
AdmitRows(c) ==
    AdmitCheck(c, "assigned",
               UserOf(c) \in db.users /\ conn[c].target \in db.servers,
               "admitted")

(* record_open, once the name is resolved: only in the database the         *)
(* connection was admitted from, else the connection is refused.            *)
RecordOpen(c) ==
    /\ ~Exclusive
    /\ conn[c].step = "admitted"
    /\ \/ /\ conn[c].gen = generation
          /\ opens' = opens \cup {c}
          /\ Goto(c, "opened")
       \/ /\ conn[c].gen # generation
          /\ Goto(c, "refused")
          /\ UNCHANGED opens
    /\ UNCHANGED <<db, ends, signed, expired, ticketVars, generation, cancelled,
                   request, check, import>>

(* The server is reached and answered; set_established; bytes flow.         *)
Establish(c) ==
    /\ conn[c].step = "opened"
    /\ Goto(c, "relaying")
    /\ UNCHANGED <<dbVars, signed, expired, ticketVars, generation, cancelled,
                   request, check, import>>

(* LiveSessions::remove, however the task ends.  An established             *)
(* connection's end is still to be recorded.                                *)
Remove(c) ==
    /\ Goto(c, IF conn[c].step = "relaying" THEN "ending" ELSE "closed")
    /\ UNCHANGED <<dbVars, signed, expired, ticketVars, generation, cancelled,
                   request, check, import>>

(* Steps at which the task waits, so that a cancel is seen or the setup     *)
(* fails, times out or is left by the client.                               *)
Waiting(c) == conn[c].step \in {"setup", "admitted", "opened", "relaying", "refused"}

Leave(c) == Waiting(c) /\ c \notin cancelled /\ Remove(c)

SeeCancel(c) == Waiting(c) /\ c \in cancelled /\ Remove(c)

(* Faulty: the end is recorded in whatever database is in place.            *)
RecordEndAnywhere(c) ==
    /\ ~Exclusive
    /\ conn[c].step = "ending"
    /\ ends' = ends \cup {c}
    /\ Goto(c, "closed")
    /\ UNCHANGED <<db, opens, signed, expired, ticketVars, generation, cancelled,
                   request, check, import>>

(* record_end: under the gate, only in the connection's own database, and   *)
(* only against rows that are still there.                                  *)
RecordEnd(c) ==
    /\ ~Exclusive
    /\ conn[c].step = "ending"
    /\ ends' = IF /\ conn[c].gen = generation
                  /\ UserOf(c) \in db.users /\ conn[c].target \in db.servers
               THEN ends \cup {c} ELSE ends
    /\ Goto(c, "closed")
    /\ UNCHANGED <<db, opens, signed, expired, ticketVars, generation, cancelled,
                   request, check, import>>

------------------------------------------------------------------------------
(* Requests.  Each holds the gate shared from its first step to its last.   *)

Advance(r, step) == request' = [request EXCEPT ![r].step = step]

Finish(r) == request' = [request EXCEPT ![r] = Idle]

Begin(r, state) ==
    /\ ~Exclusive
    /\ request[r].step = "idle"
    /\ request' = [request EXCEPT ![r] = state]
    /\ UNCHANGED <<dbVars, signed, expired, ticketVars, generation, cancelled,
                   conn, check, import>>

(* web::connect: the caller's session and policy::resolve for the server,   *)
(* which may both be stale by the time the ticket is in the table.  The     *)
(* random token is no other request's, so it is taken here.                 *)
BeginConnect(r, k, t) ==
    /\ ~Exclusive
    /\ request[r].step = "idle"
    /\ SignedIn(k) /\ t \notin issued
    /\ TicketFor[t].user = Holder[k]
    /\ <<Holder[k], TicketFor[t].server>> \in db.assigned
    /\ issued' = issued \cup {t}
    /\ request' = [request EXCEPT ![r] =
                     [Idle EXCEPT !.step = "write", !.op = "connect", !.ticket = t]]
    /\ UNCHANGED <<dbVars, signed, expired, tickets, generation, cancelled,
                   conn, check, import>>

(* Tickets::issue.                                                          *)
Issue(r) ==
    /\ request[r].step = "write" /\ request[r].op = "connect"
    /\ tickets' = tickets \cup {request[r].ticket}
    /\ Finish(r)
    /\ UNCHANGED <<dbVars, signed, expired, issued, generation, cancelled, conn,
                   check, import>>

(* web::logout, by the holder of a session.                                 *)
BeginLogout(r, k) ==
    /\ SignedIn(k)
    /\ Begin(r, [Idle EXCEPT !.step = "write", !.op = "logout", !.token = k])

(* apply_lookups revoking a user, admin::clear_sid and admin::remove_user.  *)
(* Each has just read the user's row.                                       *)
BeginOnUser(r, op, u) ==
    /\ op \in {"revoke", "clear_sid", "remove_user"}
    /\ u \in db.users
    /\ Begin(r, [Idle EXCEPT !.step = "write", !.op = op, !.user = u])

(* admin::remove_server.                                                    *)
BeginRemoveServer(r, s) ==
    /\ s \in db.servers
    /\ Begin(r, [Idle EXCEPT !.step = "write", !.op = "remove_server", !.server = s])

(* admin::set_user_servers: the user's row is read.                         *)
BeginSetServers(e, u, wanted) ==
    /\ u \in db.users
    /\ Begin(e, [Idle EXCEPT !.step = "read", !.op = "set_servers", !.user = u,
                             !.wanted = wanted])

(* set_user_servers: the assignments before the edit, by a call of its own. *)
ReadBefore(e) ==
    /\ request[e].step = "read"
    /\ request' = [request EXCEPT ![e] =
         [@ EXCEPT !.step = "write",
                   !.servers = {s \in Server : <<request[e].user, s>> \in db.assigned}]]
    /\ UNCHANGED <<dbVars, signed, expired, ticketVars, generation, cancelled,
                   conn, check, import>>

(* What one store call of a handler leaves in the database: session_delete, *)
(* sessions_delete_user, user_clear_sid, user_delete with its cascades and  *)
(* server_delete with its cascades.                                         *)
Written(q) ==
    LET without(u) == {k \in db.sessions : Holder[k] # u} IN
    CASE q.op = "logout" -> [db EXCEPT !.sessions = @ \ {q.token}]
      [] q.op \in {"revoke", "clear_sid"} -> [db EXCEPT !.sessions = without(q.user)]
      [] q.op = "remove_user" ->
           [db EXCEPT !.users = @ \ {q.user}, !.sessions = without(q.user),
                      !.assigned = {a \in @ : a[1] # q.user}]
      [] q.op = "remove_server" ->
           [db EXCEPT !.servers = @ \ {q.server},
                      !.assigned = {a \in @ : a[2] # q.server}]

(* The row the call is for is still there; if not, it answers NotFound and  *)
(* the handler returns.  sessions_delete_user and session_delete do not     *)
(* mind.                                                                    *)
RowThere(q) ==
    /\ q.op \in {"remove_user", "clear_sid"} => q.user \in db.users
    /\ q.op = "remove_server" => q.server \in db.servers

Write(r) ==
    /\ request[r].step = "write"
    /\ request[r].op \in {"logout", "revoke", "clear_sid", "remove_user", "remove_server"}
    /\ \/ RowThere(request[r]) /\ db' = Written(request[r]) /\ Advance(r, "end")
       \/ ~RowThere(request[r]) /\ UNCHANGED db /\ Finish(r)
    /\ UNCHANGED <<opens, ends, signed, expired, ticketVars, generation,
                   cancelled, conn, check, import>>

(* Store::set_assignments, one transaction: refused when the user or a      *)
(* wanted server is gone.                                                   *)
SetAssignments(e) ==
    LET q == request[e]
        allowed == q.user \in db.users /\ q.wanted \subseteq db.servers
    IN
    /\ q.step = "write" /\ q.op = "set_servers"
    /\ \/ /\ allowed
          /\ db' = [db EXCEPT !.assigned = {a \in @ : a[1] # q.user}
                                             \cup ({q.user} \X q.wanted)]
          /\ request' = [request EXCEPT ![e] =
                          [@ EXCEPT !.step = "end", !.servers = q.servers \ q.wanted]]
       \/ ~allowed /\ UNCHANGED db /\ Finish(e)
    /\ UNCHANGED <<opens, ends, signed, expired, ticketVars, generation,
                   cancelled, conn, check, import>>

(* admin::copy_from: Store::copy_assignments, one statement; refused by the *)
(* foreign key when the receiving user is gone.                             *)
CopyFrom(e, from, to) ==
    /\ ~Exclusive
    /\ request[e].step = "idle"
    /\ from \in db.users /\ to \in db.users
    /\ db' = [db EXCEPT !.assigned = @ \cup {<<to, a[2]>> : a \in {x \in @ : x[1] = from}}]
    /\ UNCHANGED <<opens, ends, signed, expired, ticketVars, generation,
                   cancelled, conn, request, check, import>>

(* Faulty: set_user_servers ends the connections it should keep.            *)
CoversWanted(q, c) ==
    \/ q.op = "logout" /\ conn[c].token = q.token
    \/ q.op \in {"revoke", "clear_sid", "remove_user"} /\ UserOf(c) = q.user
    \/ q.op = "remove_server" /\ ServerOf(c) = q.server
    \/ q.op = "set_servers" /\ UserOf(c) = q.user /\ ServerOf(c) \in q.wanted

(* The connections a handler ends once it has written: LiveSessions::       *)
(* end_session, end_user, end_server, and end_user_server for each server   *)
(* set_user_servers took away.                                              *)
Covers(q, c) ==
    \/ q.op = "logout" /\ conn[c].token = q.token
    \/ q.op \in {"revoke", "clear_sid", "remove_user"} /\ UserOf(c) = q.user
    \/ q.op = "remove_server" /\ ServerOf(c) = q.server
    \/ q.op = "set_servers" /\ UserOf(c) = q.user /\ ServerOf(c) \in q.servers

End(r) ==
    /\ request[r].step = "end"
    /\ cancelled' = cancelled \cup {c \in Conn : Registered(c) /\ Covers(request[r], c)}
    /\ Finish(r)
    /\ UNCHANGED <<dbVars, signed, expired, ticketVars, generation, conn, check,
                   import>>

------------------------------------------------------------------------------
(* server::session_checks, every 30 seconds under a shared hold.            *)

CheckPurge ==
    /\ ~Exclusive
    /\ check.step = "idle"
    /\ db' = [db EXCEPT !.sessions = @ \ expired]
    /\ check' = [check EXCEPT !.step = "purged"]
    /\ UNCHANGED <<opens, ends, signed, expired, ticketVars, generation,
                   cancelled, conn, request, import>>

(* end_orphaned_connections: the registry is copied and each connection's   *)
(* session looked up.  A sign-in that is gone stays gone under the hold, so *)
(* the lookups are taken together.                                          *)
CheckCollect ==
    /\ check.step = "purged"
    /\ check' = [step |-> "collected",
                 stale |-> {c \in Conn : Registered(c) /\ ~SignedIn(conn[c].token)}]
    /\ UNCHANGED <<dbVars, signed, expired, ticketVars, generation, cancelled,
                   conn, request, import>>

(* Faulty: only connections still being set up are ended.                   *)
CheckEndSetup ==
    /\ check.step = "collected"
    /\ cancelled' = cancelled \cup {c \in check.stale : conn[c].step = "setup"}
    /\ check' = [step |-> "idle", stale |-> {}]
    /\ UNCHANGED <<dbVars, signed, expired, ticketVars, generation, conn,
                   request, import>>

(* LiveSessions::end_ids: those of them that are still registered.          *)
CheckEnd ==
    /\ check.step = "collected"
    /\ cancelled' = cancelled \cup {c \in check.stale : Registered(c)}
    /\ check' = [step |-> "idle", stale |-> {}]
    /\ UNCHANGED <<dbVars, signed, expired, ticketVars, generation, conn,
                   request, import>>

------------------------------------------------------------------------------
(* migrate::apply under the exclusive gate.  Connections outside the gate   *)
(* go on meanwhile.                                                         *)

(* replace_with: the archive is the database.  Its own history names no     *)
(* connection of this process.                                              *)
ImportSwap(d) ==
    /\ GateFree
    /\ generation < MaxGeneration
    /\ db' = d
    /\ opens' = {} /\ ends' = {}
    /\ signed' = signed \cup d.sessions
    /\ import' = "swapped"
    /\ UNCHANGED <<expired, ticketVars, generation, cancelled, conn, request, check>>

ImportBump ==
    /\ import = "swapped"
    /\ generation' = generation + 1
    /\ import' = "bumped"
    /\ UNCHANGED <<dbVars, signed, expired, ticketVars, cancelled, conn, request, check>>

(* tickets.clear.                                                           *)
ImportClear ==
    /\ import = "bumped"
    /\ tickets' = {}
    /\ import' = "cleared"
    /\ UNCHANGED <<dbVars, signed, expired, issued, generation, cancelled, conn,
                   request, check>>

(* Faulty: the gate is released without ending the connections.             *)
ImportLeaves ==
    /\ import = "cleared"
    /\ import' = "idle"
    /\ UNCHANGED <<dbVars, signed, expired, ticketVars, generation, cancelled, conn,
                   request, check>>

(* live.end_all, and the gate is released.                                  *)
ImportEndAll ==
    /\ import = "cleared"
    /\ cancelled' = cancelled \cup {c \in Conn : Registered(c)}
    /\ import' = "idle"
    /\ UNCHANGED <<dbVars, signed, expired, ticketVars, generation, conn,
                   request, check>>

------------------------------------------------------------------------------
AdmitStep(c) ==
    \/ \E t \in Ticket, s \in Server : AdmitRedeem(c, t, s)
    \/ AdmitSetServer(c)
    \/ AdmitSignIn(c)
    \/ AdmitServer(c)
    \/ AdmitAssigned(c)
    \/ AdmitRows(c)

ConnNext(c) ==
    \/ \E k \in Token : Upgrade(c, k)
    \/ Register(c)
    \/ AdmitStep(c)
    \/ RecordOpen(c)
    \/ Establish(c)
    \/ Leave(c)
    \/ SeeCancel(c)
    \/ RecordEnd(c)

RequestNext(r) ==
    \/ \E k \in Token, t \in Ticket : BeginConnect(r, k, t)
    \/ Issue(r)
    \/ \E k \in Token : BeginLogout(r, k)
    \/ \E u \in User : \/ BeginOnUser(r, "revoke", u)
                       \/ BeginOnUser(r, "clear_sid", u)
                       \/ BeginOnUser(r, "remove_user", u)
    \/ \E s \in Server : BeginRemoveServer(r, s)
    \/ Write(r)
    \/ End(r)

EditorNext(e) ==
    \/ \E u \in User, wanted \in SUBSET Server : BeginSetServers(e, u, wanted)
    \/ ReadBefore(e)
    \/ SetAssignments(e)
    \/ \E from, to \in User : CopyFrom(e, from, to)
    \/ End(e)

CheckNext == CheckPurge \/ CheckCollect \/ CheckEnd

ImportNext ==
    \/ \E d \in Archives : ImportSwap(d)
    \/ ImportBump
    \/ ImportClear
    \/ ImportEndAll

Next ==
    \/ \E k \in Token : SignIn(k) \/ Expire(k)
    \/ \E t \in Ticket : TicketExpires(t)
    \/ \E c \in Conn : ConnNext(c)
    \/ \E r \in Request : RequestNext(r)
    \/ \E e \in Editor : EditorNext(e)
    \/ CheckNext
    \/ ImportNext

Spec == Init /\ [][Next]_vars

(* Handlers and admissions that have begun run on: they await nothing that  *)
(* can fail to come.  The check's timer fires again and again.  A task      *)
(* whose cancel was sent is woken by it.  Nothing makes users, clients,     *)
(* administrators, clocks or imports act.                                   *)
Fairness ==
    /\ \A c \in Conn : /\ WF_vars(Register(c))
                       /\ WF_vars(\/ AdmitSetServer(c) \/ AdmitSignIn(c)
                                  \/ AdmitServer(c) \/ AdmitAssigned(c)
                                  \/ AdmitRows(c))
                       /\ WF_vars(SeeCancel(c))
                       /\ WF_vars(RecordEnd(c))
    /\ \A r \in Request \cup Editor : WF_vars(Issue(r) \/ ReadBefore(r) \/ Write(r)
                                              \/ SetAssignments(r) \/ End(r))
    /\ WF_vars(CheckNext)
    /\ WF_vars(ImportBump \/ ImportClear \/ ImportEndAll)

FairSpec == Spec /\ Fairness

------------------------------------------------------------------------------
(* Properties.                                                              *)

(* A request that has written and not yet ended connections will reach c.   *)
WillEnd(c) == \E r \in Request \cup Editor :
                 request[r].step = "end" /\ Covers(request[r], c)

(* admit has seen the sign-in, or the assignment, and c may still carry on. *)
PastSignIn(c) == /\ conn[c].step \in {"signedin", "found", "assigned",
                                      "admitted", "opened", "relaying"}
                 /\ c \notin cancelled
PastAssigned(c) == /\ conn[c].step \in {"assigned", "admitted", "opened", "relaying"}
                   /\ c \notin cancelled

(* "A connection ... belongs to the sign-in it was opened under": once      *)
(* admission has checked it, the sign-in is in the database until the clock *)
(* passes it, unless a handler that deleted it is about to end the          *)
(* connection, or an import is.                                             *)
ConnectionIsSignedIn ==
    \A c \in Conn : PastSignIn(c) =>
        \/ conn[c].token \in db.sessions \cup expired
        \/ WillEnd(c)
        \/ Exclusive

(* "the assignment or server being removed ... ends it at any stage": once  *)
(* admission has checked the assignment, the user is assigned the server,   *)
(* unless a handler that took the assignment, the server or the user away   *)
(* is about to end the connection, or an import is.                         *)
ConnectionIsAssigned ==
    \A c \in Conn : PastAssigned(c) =>
        \/ <<UserOf(c), conn[c].target>> \in db.assigned
        \/ WillEnd(c)
        \/ Exclusive

(* A connection is opened only to the server its ticket was minted for, by  *)
(* the user it was minted for, and no two connections are admitted on one   *)
(* ticket: redeem spends it whatever comes next.                            *)
TicketAdmitsOnce ==
    /\ \A c \in Conn : conn[c].step \in {"assigned", "admitted", "opened", "relaying"} =>
          TicketFor[conn[c].ticket] = [user |-> UserOf(c), server |-> conn[c].target]
    /\ \A c, d \in Conn : c # d /\ conn[c].ticket # None => conn[c].ticket # conn[d].ticket

(* An import ends every connection of the database it replaced, and a       *)
(* connection is never set up across one: outside the import's hold, a      *)
(* connection that has not been cancelled was registered in the generation  *)
(* in place.                                                                *)
ConnectionIsOfThisDatabase ==
    \A c \in Conn : Registered(c) /\ c \notin cancelled /\ ~Exclusive
                        => conn[c].gen = generation

(* "Its opening and its end are recorded only in that database": what the   *)
(* database holds of this process's connections was written under the       *)
(* generation they were registered in.                                      *)
HistoryIsOfThisDatabase ==
    \A c \in opens \cup ends : conn[c].gen = generation

(* A connection whose sign-in is gone or has expired ends.                  *)
OrphanEnds ==
    \A c \in Conn : (Registered(c) /\ ~SignedIn(conn[c].token)) ~> ~Registered(c)

(* A connection admitted to a server that its user is no longer assigned    *)
(* ends.                                                                    *)
UnassignedEnds ==
    \A c \in Conn : (/\ conn[c].step \in {"admitted", "opened", "relaying"}
                     /\ <<UserOf(c), conn[c].target>> \notin db.assigned)
                        ~> ~Registered(c)

------------------------------------------------------------------------------
(* What the invariants above rest on.                                       *)

(* An import is alone behind the gate.                                      *)
ImportAlone ==
    Exclusive => /\ \A c \in Conn : ~HoldsGate(c)
                 /\ \A r \in Request \cup Editor : request[r].step = "idle"

(* What a connection's task holds at each of its steps.                     *)
TaskHolds ==
    \A c \in Conn :
        /\ conn[c].step # "new" => conn[c].token \in Token
        /\ conn[c].ticket # None => TicketFor[conn[c].ticket].user = UserOf(c)
        /\ conn[c].step \in {"redeemed", "placed", "signedin", "found", "assigned",
                             "admitted", "opened", "relaying"}
              => conn[c].ticket \in Ticket
        /\ conn[c].step \in {"assigned", "admitted", "opened", "relaying"}
              => conn[c].target = TicketFor[conn[c].ticket].server
        /\ conn[c].step \in {"new", "upgrade", "setup"} => conn[c].ticket = None

(* Only a registered connection has a history, and a database just swapped  *)
(* in holds none.                                                           *)
HistoryHolds ==
    /\ \A c \in opens \cup ends : conn[c].step \notin {"new", "upgrade"}
    /\ import = "swapped" => opens = {} /\ ends = {}

(* A ticket a connection holds is spent for good.                           *)
TicketsSpent ==
    /\ tickets \subseteq issued
    /\ \A c \in Conn : conn[c].ticket # None =>
          /\ conn[c].ticket \in issued \ tickets
          /\ \A r \in Request : request[r].ticket # conn[c].ticket
          /\ \A d \in Conn : d # c => conn[d].ticket # conn[c].ticket
    /\ \A r \in Request : request[r].ticket # None =>
          /\ request[r].ticket \in issued \ tickets
          /\ \A q \in Request : q # r => request[q].ticket # request[r].ticket

(* set_user_servers has read every assignment its write may take away.      *)
BeforeIsCurrent ==
    \A e \in Editor : request[e].step = "write" =>
        \A s \in Server : <<request[e].user, s>> \in db.assigned
                              => s \in request[e].servers

================================================================================
