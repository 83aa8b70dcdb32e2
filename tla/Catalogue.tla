------------------------------- MODULE Catalogue -------------------------------
(****************************************************************************)
(* Servers and their groups (admin.rs, store.rs): the forms that add, edit, *)
(* order and remove them, and the CSV import, which is read line by line    *)
(* and applied row by row in one transaction.                               *)
(*                                                                          *)
(* Each store call runs alone under the connection's lock.  A form's ids    *)
(* are those of the page it was filled in on: the row may be gone by then,  *)
(* and ids are never reused.  Names compare without case; a name here       *)
(* stands for all its spellings.                                            *)
(****************************************************************************)
EXTENDS Integers, Sequences, Lists

CONSTANTS
    Name,          \* names of servers
    GroupName,     \* names of groups
    Host,          \* host names
    Port,          \* ports a form or a row may give, without the default
    Absent,        \* a cell that is not there
    DEFAULT_PORT,  \* 3389
    MaxServers,    \* bound on the servers ever created
    MaxGroups,     \* bound on the groups ever created
    Forms,         \* the server forms sent
    Rows,          \* the rows a file may hold
    MaxRows        \* bound on the rows of a file

VARIABLES
    groups,      \* server_groups by id
    servers,     \* servers by id
    groupIds,    \* group ids given out
    serverIds    \* server ids given out

vars == <<groups, servers, groupIds, serverIds>>

NoGroup == 0

(* group is an id; the default domain is kept as whether there is one.      *)
Server == [name : Name, host : Host, port : Port \cup {DEFAULT_PORT},
           group : 0..MaxGroups, domain : BOOLEAN]
Group == [name : GroupName, sort : Nat]

TypeOK ==
    /\ groupIds \in 0..MaxGroups /\ serverIds \in 0..MaxServers
    /\ DOMAIN groups \subseteq 1..groupIds /\ DOMAIN servers \subseteq 1..serverIds
    /\ \A g \in DOMAIN groups : groups[g] \in Group
    /\ \A s \in DOMAIN servers : servers[s] \in Server

Init == groups = <<>> /\ servers = <<>> /\ groupIds = 0 /\ serverIds = 0

------------------------------------------------------------------------------
(* The tables, as a record, so that the rows of an import follow each other.*)
TablesOf(gs, ss, gi, si) == [groups |-> gs, servers |-> ss, groupIds |-> gi, serverIds |-> si]
Tables == TablesOf(groups, servers, groupIds, serverIds)

Put(f, k, v) == [x \in DOMAIN f \cup {k} |-> IF x = k THEN v ELSE f[x]]
Without(f, k) == [x \in DOMAIN f \ {k} |-> f[x]]

GroupNamed(t, n) == {g \in DOMAIN t.groups : t.groups[g].name = n}
ServerNamed(t, n) == {s \in DOMAIN t.servers : t.servers[s].name = n}

Highest(S) == CHOOSE x \in S : \A y \in S : y <= x

(* group_insert: the new group comes last.                                  *)
NextSort(t) ==
    IF DOMAIN t.groups = {} THEN 0 ELSE Highest({t.groups[g].sort : g \in DOMAIN t.groups}) + 1

GroupInsert(t, n) ==
    TablesOf(Put(t.groups, t.groupIds + 1, [name |-> n, sort |-> NextSort(t)]), t.servers,
             t.groupIds + 1, t.serverIds)

Become(t) ==
    /\ t.groupIds <= MaxGroups /\ t.serverIds <= MaxServers
    /\ groups' = t.groups /\ servers' = t.servers
    /\ groupIds' = t.groupIds /\ serverIds' = t.serverIds

------------------------------------------------------------------------------
(* Groups.                                                                  *)
AddGroup(n) ==
    /\ GroupNamed(Tables, n) = {}
    /\ Become(GroupInsert(Tables, n))

RenameGroup(g, n) ==
    /\ GroupNamed(Tables, n) \subseteq {g} /\ g \in DOMAIN groups
    /\ groups' = [groups EXCEPT ![g].name = n]
    /\ UNCHANGED <<servers, groupIds, serverIds>>

(* group_order: the listed ids get their position; ids that are gone, and   *)
(* groups the page did not know of, are left as they are.                   *)
OrderGroups(ids) ==
    /\ groups' = [g \in DOMAIN groups |->
           IF g \in Members(ids)
           THEN [groups[g] EXCEPT !.sort = Highest({i \in DOMAIN ids : ids[i] = g}) - 1]
           ELSE groups[g]]
    /\ UNCHANGED <<servers, groupIds, serverIds>>

(* A group that still holds servers stays.                                  *)
GroupDelete(g) ==
    /\ g \in DOMAIN groups /\ \A s \in DOMAIN servers : servers[s].group # g
    /\ groups' = Without(groups, g)
    /\ UNCHANGED <<servers, groupIds, serverIds>>

------------------------------------------------------------------------------
(* Servers.                                                                 *)
GroupExists(g) == g = NoGroup \/ g \in DOMAIN groups

(* server_fields: an empty port is the default, an empty domain none.       *)
ServerFields(form) ==
    [form EXCEPT !.port = IF @ = Absent THEN DEFAULT_PORT ELSE @, !.domain = @ = TRUE]

ServerCreate(row) ==
    /\ ServerNamed(Tables, row.name) = {} /\ GroupExists(row.group)
    /\ Become(TablesOf(groups, Put(servers, serverIds + 1, row), groupIds, serverIds + 1))

ServerUpdate(s, row) ==
    /\ ServerNamed(Tables, row.name) \subseteq {s} /\ GroupExists(row.group)
    /\ s \in DOMAIN servers
    /\ servers' = [servers EXCEPT ![s] = row]
    /\ UNCHANGED <<groups, groupIds, serverIds>>

AddServer(form) == ServerCreate(ServerFields(form))
UpdateServer(s, form) == ServerUpdate(s, ServerFields(form))

RemoveServer(s) ==
    /\ s \in DOMAIN servers
    /\ servers' = Without(servers, s)
    /\ UNCHANGED <<groups, groupIds, serverIds>>

------------------------------------------------------------------------------
(* The import.  A row is what its cells say: an absent group or domain cell *)
(* keeps what the server has, an empty one clears it.                       *)
Row == [name : Name, host : Host, port : Port \cup {Absent},
        group : GroupName \cup {NoGroup, Absent}, domain : BOOLEAN \cup {Absent}]

(* servers_import, for one row: its group is found or made first.           *)
WithGroup(t, row) ==
    IF row.group \in GroupName /\ GroupNamed(t, row.group) = {} THEN GroupInsert(t, row.group) ELSE t

GroupId(t, row) ==
    IF row.group \in GroupName THEN CHOOSE g \in GroupNamed(t, row.group) : TRUE ELSE NoGroup

Kept(cell, old) == IF cell = Absent THEN old ELSE cell

(* What a row makes of a server that has this port, group and domain.       *)
Filled(t, row, port, group, domain) ==
    [name |-> row.name, host |-> row.host, port |-> Kept(row.port, port),
     group |-> IF row.group = Absent THEN group ELSE GroupId(t, row),
     domain |-> Kept(row.domain, domain)]

(* Faulty: an absent cell clears what an existing server has.               *)
ImportRowClearing(tables, row) ==
    LET t == WithGroup(tables, row)
        found == ServerNamed(t, row.name)
        new == Filled(t, row, DEFAULT_PORT, NoGroup, FALSE)
    IN IF found = {}
       THEN TablesOf(t.groups, Put(t.servers, t.serverIds + 1, new), t.groupIds, t.serverIds + 1)
       ELSE TablesOf(t.groups, Put(t.servers, CHOOSE s \in found : TRUE, new), t.groupIds, t.serverIds)

ImportRow(tables, row) ==
    LET t == WithGroup(tables, row)
        found == ServerNamed(t, row.name)
    IN IF found = {}
       THEN TablesOf(t.groups, Put(t.servers, t.serverIds + 1, Filled(t, row, DEFAULT_PORT, NoGroup, FALSE)),
                     t.groupIds, t.serverIds + 1)
       ELSE LET s == CHOOSE s \in found : TRUE
                old == t.servers[s]
            IN TablesOf(t.groups, Put(t.servers, s, Filled(t, row, old.port, old.group, old.domain)),
                        t.groupIds, t.serverIds)

Files == UNION {[1..n -> Rows] : n \in 1..MaxRows}

(* parse_import: a file with a bad line or a name twice imports nothing.    *)
Parses(file) == file # <<>> /\ \A i, j \in DOMAIN file : file[i].name = file[j].name => i = j

Imported(t, file) ==
    LET after[i \in 0..Len(file)] == IF i = 0 THEN t ELSE ImportRow(after[i - 1], file[i])
    IN after[Len(file)]

ImportServers(file) ==
    /\ Parses(file)
    /\ Become(Imported(Tables, file))

Next ==
    \/ \E n \in GroupName : AddGroup(n) \/ \E g \in DOMAIN groups : RenameGroup(g, n)
    \/ \E n \in 1..2 : \E ids \in [1..n -> 1..groupIds] : OrderGroups(ids)
    \/ \E g \in DOMAIN groups : GroupDelete(g)
    \/ \E form \in Forms : AddServer(form) \/ \E s \in DOMAIN servers : UpdateServer(s, form)
    \/ \E s \in DOMAIN servers : RemoveServer(s)
    \/ \E file \in Files : ImportServers(file)

Spec == Init /\ [][Next]_vars

------------------------------------------------------------------------------
(* What one server is after an import, from the row that names it and what  *)
(* it was before.                                                           *)
AsWritten(row, s) ==
    LET new == servers'[s]
        there == s \in DOMAIN servers
    IN /\ there => servers[s].name = row.name
       /\ new.host = row.host
       /\ new.port = (IF row.port # Absent THEN row.port
                      ELSE IF there THEN servers[s].port ELSE DEFAULT_PORT)
       /\ new.domain = (IF row.domain # Absent THEN row.domain ELSE there /\ servers[s].domain)
       /\ IF row.group \in GroupName
          THEN new.group \in DOMAIN groups' /\ groups'[new.group].name = row.group
          ELSE new.group = (IF row.group = Absent /\ there THEN servers[s].group ELSE NoGroup)

ImportDoesAsWritten ==
    \A file \in Files : ImportServers(file) =>
        /\ \A s \in DOMAIN servers' :
              IF \E i \in DOMAIN file : file[i].name = servers'[s].name
              THEN \E i \in DOMAIN file : file[i].name = servers'[s].name /\ AsWritten(file[i], s)
              ELSE s \in DOMAIN servers /\ servers'[s] = servers[s]
        /\ DOMAIN servers \subseteq DOMAIN servers'
        /\ \A i \in DOMAIN file : \E s \in DOMAIN servers' : servers'[s].name = file[i].name
        /\ \A g \in DOMAIN groups : g \in DOMAIN groups' /\ groups'[g] = groups[g]

(* An import makes each server its file names what the row says and leaves  *)
(* every other server, and every group there was, alone; what a row does    *)
(* does not depend on the rows before it (servers_import).                  *)
ImportIsAsWritten == [][UNCHANGED vars \/ ImportDoesAsWritten]_vars
==============================================================================
