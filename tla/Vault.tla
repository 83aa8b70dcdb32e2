-------------------------------- MODULE Vault --------------------------------
(****************************************************************************)
(* The credential store: the master key in memory and its two wraps in the  *)
(* database (vault.rs), the secrets sealed under it, the requests that      *)
(* change any of them (admin.rs, web.rs), the command line doing the same   *)
(* from another process (main.rs), and the ways a process or a database     *)
(* gets its key: a start, a move to another host, an import.                *)
(*                                                                          *)
(* Requests hold app.gate shared and interleave between their store and     *)
(* vault calls; an import is alone.  One user's row and saved credentials   *)
(* stand for every user's.  A sealed value is the key and the associated    *)
(* data it was sealed under: it opens only with both.                       *)
(****************************************************************************)
EXTENDS Integers

CONSTANTS
    Sid,             \* accounts the user's row may be bound to
    Server,          \* servers
    Host,            \* hosts the database may be on
    None,            \* no value
    Admin,           \* administrators' requests that may run at once
    Client,          \* the user's requests that may run at once
    ConsoleBeside,   \* whether the command line is used while serving
    MaxKeys,         \* bound on the master keys ever made
    MaxMoves         \* bound on the moves of the database to another host

VARIABLES
    serving,     \* whether the service runs
    host,        \* the host the database is on
    moves,       \* how often it moved
    keys,        \* master keys made; a key is its number
    master,      \* Vault.master of the service, 0 when locked
    local,       \* META_LOCAL: the key and the host it is wrapped for
    recovery,    \* META_RECOVERY: the key under the passphrase, 0 for none
    directory,   \* META_DIRECTORY_PASSWORD: the key it is sealed under, or 0
    sid,         \* the user's SID
    assigned,    \* the servers the user may reach
    saved,       \* the user's saved credentials
    req,         \* each request in flight
    console      \* the command line's process and the key it loaded

database == <<host, local, recovery, directory, sid, assigned, saved>>
vars == <<serving, moves, keys, master, database, req, console>>

Key == 1..MaxKeys
NoWrap == [key |-> 0, host |-> None]

(* A saved credential: the key and data it is sealed with, and who saved it.*)
Sealed == [key : Key, aad : Sid \X Server, by : Sid]

Op == {"idle", "set_recovery", "unlock", "reset", "directory", "save", "connect"}

(* key, sid and server are what the handler read so far; cred is what       *)
(* connect read.                                                            *)
Request == [op : Op, step : 0..2, key : 0..MaxKeys, sid : Sid \cup {None},
            server : Server \cup {None}, cred : Sealed \cup {None}]

Idle == [op |-> "idle", step |-> 0, key |-> 0, sid |-> None, server |-> None,
         cred |-> None]

TypeOK ==
    /\ serving \in BOOLEAN /\ host \in Host /\ moves \in 0..MaxMoves
    /\ keys \in 0..MaxKeys /\ master \in 0..keys
    /\ local \in [key : 0..keys, host : Host \cup {None}]
    /\ recovery \in 0..keys /\ directory \in 0..keys
    /\ sid \in Sid \cup {None} /\ assigned \subseteq Server
    /\ saved \in [Server -> Sealed \cup {None}]
    /\ \A s \in Server : saved[s] # None => saved[s].aad[2] = s
    /\ req \in [Admin \cup Client -> Request]
    /\ console \in [open : BOOLEAN, key : 0..keys]

Closed == [open |-> FALSE, key |-> 0]

Init ==
    /\ serving = FALSE /\ host \in Host /\ moves = 0
    /\ keys = 0 /\ master = 0
    /\ local = NoWrap /\ recovery = 0 /\ directory = 0
    /\ sid = None /\ assigned = Server
    /\ saved = [s \in Server |-> None]
    /\ req = [r \in Admin \cup Client |-> Idle]
    /\ console = Closed

------------------------------------------------------------------------------
Wrap(k) == [key |-> k, host |-> host]

(* Vault::load: the local wrap where it opens, locked where it does not or  *)
(* only a recovery wrap is there, and a new key for a new database.         *)
Load(k) ==
    IF local # NoWrap THEN
        k = (IF local.host = host THEN local.key ELSE 0) /\ UNCHANGED <<keys, local>>
    ELSE IF recovery # 0 THEN k = 0 /\ UNCHANGED <<keys, local>>
    ELSE k = keys + 1 /\ k \in Key /\ keys' = k /\ local' = Wrap(k)

Start ==
    /\ ~serving
    /\ console.open => ConsoleBeside
    /\ \E k \in 0..MaxKeys : Load(k) /\ master' = k
    /\ serving' = TRUE
    /\ UNCHANGED <<host, moves, recovery, directory, sid, assigned, saved, req, console>>

(* The process stops or is stopped: whatever was in flight is gone.         *)
Stop ==
    /\ serving
    /\ serving' = FALSE /\ master' = 0
    /\ req' = [r \in Admin \cup Client |-> Idle]
    /\ UNCHANGED <<moves, keys, database, console>>

(* The database file is brought to another host.                            *)
Move ==
    /\ ~serving /\ ~console.open /\ moves < MaxMoves
    /\ host' \in Host \ {host}
    /\ moves' = moves + 1
    /\ UNCHANGED <<serving, keys, master, local, recovery, directory, sid, assigned, saved, req,
                   console>>

------------------------------------------------------------------------------
(* An administrator's requests.                                             *)

Free(r) == serving /\ req[r].op = "idle"
Doing(r, op, step) == req[r].op = op /\ req[r].step = step
Set(r, v) == req' = [req EXCEPT ![r] = v]
Done(r) == Set(r, Idle)
Apart == <<serving, moves, console>>

(* set_recovery reads the key, then the wrap there is, which the current    *)
(* passphrase must open to the same key, and then writes.                   *)
SetRecovery(a) ==
    \/ /\ Free(a) /\ master # 0
       /\ Set(a, [Idle EXCEPT !.op = "set_recovery", !.key = master])
       /\ UNCHANGED <<Apart, keys, master, database>>
    \/ /\ Doing(a, "set_recovery", 0)
       /\ IF recovery \in {0, req[a].key} THEN Set(a, [req[a] EXCEPT !.step = 1]) ELSE Done(a)
       /\ UNCHANGED <<Apart, keys, master, database>>
    \/ /\ Doing(a, "set_recovery", 1)
       /\ recovery' = req[a].key
       /\ Done(a)
       /\ UNCHANGED <<Apart, keys, master, host, local, directory, sid, assigned, saved>>

(* unlock: adopt takes the key through the recovery wrap and wraps it for   *)
(* this host; install puts it in memory.  A wrong passphrase does nothing.  *)
Unlock(a) ==
    \/ /\ Free(a) /\ recovery # 0
       /\ Set(a, [Idle EXCEPT !.op = "unlock", !.key = recovery])
       /\ UNCHANGED <<Apart, keys, master, database>>
    \/ /\ Doing(a, "unlock", 0)
       /\ local' = Wrap(req[a].key)
       /\ Set(a, [req[a] EXCEPT !.step = 1])
       /\ UNCHANGED <<Apart, keys, master, host, recovery, directory, sid, assigned, saved>>
    \/ /\ Doing(a, "unlock", 1)
       /\ master' = req[a].key
       /\ Done(a)
       /\ UNCHANGED <<Apart, keys, database>>

(* Faulty: the recovery wrap stays.                                         *)
ReplaceSecretsKeepingRecovery(k) ==
    /\ local' = Wrap(k) /\ directory' = 0
    /\ saved' = [s \in Server |-> None]
    /\ UNCHANGED <<recovery, host, sid, assigned>>

(* replace_secrets: in one transaction the new local wrap in, and the       *)
(* recovery wrap and everything sealed under the old key out.               *)
ReplaceSecrets(k) ==
    /\ local' = Wrap(k) /\ recovery' = 0 /\ directory' = 0
    /\ saved' = [s \in Server |-> None]
    /\ UNCHANGED <<host, sid, assigned>>

Reset(a) ==
    \/ /\ Free(a) /\ keys < MaxKeys
       /\ keys' = keys + 1
       /\ ReplaceSecrets(keys + 1)
       /\ Set(a, [Idle EXCEPT !.op = "reset", !.key = keys + 1])
       /\ UNCHANGED <<Apart, master>>
    \/ /\ Doing(a, "reset", 0)
       /\ master' = req[a].key
       /\ Done(a)
       /\ UNCHANGED <<Apart, keys, database>>

(* set_directory_password gives the gate up while the directory checks the  *)
(* password, then seals it and stores it.                                   *)
SetDirectoryPassword(a) ==
    \/ /\ Free(a)
       /\ Set(a, [Idle EXCEPT !.op = "directory"])
       /\ UNCHANGED <<Apart, keys, master, database>>
    \/ /\ Doing(a, "directory", 0)
       /\ IF master # 0 THEN Set(a, [req[a] EXCEPT !.step = 1, !.key = master]) ELSE Done(a)
       /\ UNCHANGED <<Apart, keys, master, database>>
    \/ /\ Doing(a, "directory", 1)
       /\ directory' = req[a].key
       /\ Done(a)
       /\ UNCHANGED <<Apart, keys, master, host, local, recovery, sid, assigned, saved>>

(* Of the requests in flight only set_directory_password can be away from   *)
(* the gate, and what it finds then is another database: it is refused.     *)
AwayFromGate(r) == req[r] = Idle \/ Doing(r, "directory", 0)

(* An import puts an archive's database in place with its key adopted for   *)
(* this host; here one with no saved credentials.                           *)
Adopted(k) ==
    /\ k \in Key /\ keys' = k
    /\ local' = Wrap(k) /\ recovery' = k /\ directory' \in {0, k}
    /\ sid' = None /\ assigned' = Server
    /\ saved' = [s \in Server |-> None]
    /\ UNCHANGED host

Import ==
    /\ serving
    /\ \A r \in Admin \cup Client : AwayFromGate(r)
    /\ Adopted(keys + 1) /\ master' = keys + 1
    /\ req' = [r \in Admin \cup Client |-> Idle]
    /\ UNCHANGED Apart

(* set_user_servers: a server taken away takes its credential with it.      *)
SetAssignments(servers) ==
    /\ serving /\ servers # assigned
    /\ assigned' = servers
    /\ saved' = [s \in Server |-> IF s \in servers THEN saved[s] ELSE None]
    /\ UNCHANGED <<Apart, keys, master, host, local, recovery, directory, sid, req>>

ClearSid ==
    /\ serving
    /\ sid' = None
    /\ saved' = [s \in Server |-> None]
    /\ UNCHANGED <<Apart, keys, master, host, local, recovery, directory, assigned, req>>

(* The next account to sign in under the row's name is bound to it.         *)
BindSid ==
    /\ serving /\ sid = None
    /\ sid' \in Sid
    /\ UNCHANGED <<Apart, keys, master, host, local, recovery, directory, assigned, saved, req>>

------------------------------------------------------------------------------
(* The user's requests.                                                     *)

(* Faulty: the account is not part of it.                                   *)
CredentialAadOfServer(s, server) == <<CHOOSE x \in Sid : TRUE, server>>

CredentialAad(s, server) == <<s, server>>

SavingBlocked == recovery = 0 \/ master = 0

(* save_credential: refused while saving is blocked or the server is not    *)
(* the user's; sealed for the SID the session had; then stored.             *)
SaveCredential(c, s) ==
    \/ /\ Free(c) /\ ~SavingBlocked /\ s \in assigned /\ sid # None
       /\ Set(c, [Idle EXCEPT !.op = "save", !.sid = sid, !.server = s])
       /\ UNCHANGED <<Apart, keys, master, database>>
    \/ /\ Doing(c, "save", 0) /\ req[c].server = s
       /\ IF master # 0 THEN Set(c, [req[c] EXCEPT !.step = 1, !.key = master]) ELSE Done(c)
       /\ UNCHANGED <<Apart, keys, master, database>>
    \/ /\ Doing(c, "save", 1) /\ req[c].server = s
       /\ saved' = [saved EXCEPT ![s] = [key |-> req[c].key, by |-> req[c].sid,
                                         aad |-> CredentialAad(req[c].sid, s)]]
       /\ Done(c)
       /\ UNCHANGED <<Apart, keys, master, host, local, recovery, directory, sid, assigned>>

(* connect reads the session's SID and the credential, and hands the        *)
(* password over where it opens.                                            *)
Connect(c, s) ==
    \/ /\ Free(c) /\ sid # None
       /\ Set(c, [Idle EXCEPT !.op = "connect", !.sid = sid, !.server = s])
       /\ UNCHANGED <<Apart, keys, master, database>>
    \/ /\ Doing(c, "connect", 0) /\ req[c].server = s
       /\ IF s \in assigned /\ saved[s] # None
          THEN Set(c, [req[c] EXCEPT !.step = 1, !.cred = saved[s]])
          ELSE Done(c)
       /\ UNCHANGED <<Apart, keys, master, database>>
    \/ /\ Doing(c, "connect", 1) /\ req[c].server = s
       /\ Done(c)
       /\ UNCHANGED <<Apart, keys, master, database>>

Opens(c) ==
    /\ Doing(c, "connect", 1)
    /\ req[c].cred.key = master
    /\ req[c].cred.aad = CredentialAad(req[c].sid, req[c].server)

ForgetCredential(s) ==
    /\ serving /\ s \in assigned
    /\ saved' = [saved EXCEPT ![s] = None]
    /\ UNCHANGED <<Apart, keys, master, host, local, recovery, directory, sid, assigned, req>>

------------------------------------------------------------------------------
(* The command line: a process of its own, which loads the vault first.     *)

ConsoleOpen ==
    /\ ~console.open
    /\ serving => ConsoleBeside
    /\ \E k \in 0..MaxKeys : Load(k) /\ console' = [open |-> TRUE, key |-> k]
    /\ UNCHANGED <<serving, host, moves, master, recovery, directory, sid, assigned, saved, req>>

ConsoleSetSecret ==
    /\ console.open /\ console.key # 0
    /\ \/ recovery' = console.key /\ UNCHANGED directory
       \/ directory' = console.key /\ UNCHANGED recovery
    /\ console' = Closed
    /\ UNCHANGED <<serving, host, moves, keys, master, local, sid, assigned, saved, req>>

ConsoleUnlock ==
    /\ console.open /\ console.key = 0 /\ recovery # 0
    /\ local' = Wrap(recovery)
    /\ console' = Closed
    /\ UNCHANGED <<serving, host, moves, keys, master, recovery, directory, sid, assigned, saved, req>>

ConsoleReset ==
    /\ console.open /\ keys < MaxKeys
    /\ keys' = keys + 1
    /\ ReplaceSecrets(keys + 1)
    /\ console' = Closed
    /\ UNCHANGED <<serving, moves, master, req>>

ConsoleImport ==
    /\ console.open
    /\ Adopted(keys + 1)
    /\ console' = Closed
    /\ UNCHANGED <<serving, moves, master, req>>

ConsoleClose ==
    /\ console.open
    /\ console' = Closed
    /\ UNCHANGED <<serving, moves, keys, master, database, req>>

------------------------------------------------------------------------------
Next ==
    \/ Start \/ Stop \/ Move \/ Import \/ ClearSid \/ BindSid
    \/ \E a \in Admin : SetRecovery(a) \/ Unlock(a) \/ Reset(a) \/ SetDirectoryPassword(a)
    \/ \E servers \in SUBSET Server : SetAssignments(servers)
    \/ \E c \in Client, s \in Server : SaveCredential(c, s) \/ Connect(c, s)
    \/ \E s \in Server : ForgetCredential(s)
    \/ ConsoleOpen \/ ConsoleSetSecret \/ ConsoleUnlock \/ ConsoleReset
    \/ ConsoleImport \/ ConsoleClose

Spec == Init /\ [][Next]_vars

------------------------------------------------------------------------------
(* A saved password is handed only to the account that saved it, though the *)
(* row may have been reset and bound to another account between the steps   *)
(* of the save, and of the connect (web.rs save_credential and connect).    *)
HandedToItsOwner ==
    \A c \in Client : Opens(c) => req[c].cred.by = req[c].sid

AdminIdle == \A a \in Admin : req[a].op \in {"idle", "directory"}

(* An unlocked store has one key: the one in memory is the one the local    *)
(* wrap holds for this host, and the one the recovery passphrase opens, so  *)
(* a restart, and a move to another host, find what is being saved now.     *)
OneKeyPerDatabase ==
    serving /\ master # 0 /\ AdminIdle =>
        /\ local = Wrap(master)
        /\ recovery \in {0, master}

(* The directory password, where one is stored, opens in an unlocked store: *)
(* the periodic account check can run.                                      *)
DirectoryPasswordOpens ==
    serving /\ master # 0 /\ (\A a \in Admin : req[a] = Idle) => directory \in {0, master}
==============================================================================
