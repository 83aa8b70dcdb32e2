-------------------------------- MODULE SignIn --------------------------------
(****************************************************************************)
(* Signing in and losing a sign-in: the password and single sign-on routes  *)
(* (web.rs login, sso.rs sign_in), the row a directory account gets         *)
(* (web.rs finish_directory), the requests that change rows (admin.rs,      *)
(* main.rs local-account) and the periodic check of the accounts            *)
(* (server.rs revocation_pass).                                             *)
(*                                                                          *)
(* Handlers hold app.gate shared, so the store calls of two of them         *)
(* interleave freely: each action below is one store call.  The directory   *)
(* is asked without the gate and changes on its own.  The throttles that    *)
(* may refuse a password unread are in Throttle.                            *)
(****************************************************************************)
EXTENDS Integers, FiniteSetsExt

CONSTANTS
    Name,           \* account names, as normalize_username gives them
    Sid,            \* directory SIDs; a directory never gives one out again
    LocalSid,       \* the synthetic SID of a local account
    None,           \* no value
    Browser,        \* browsers: each holds one sign-in at a time
    ServiceAccount, \* whether config.toml names an account for lookups
    MaxRows,        \* bound on the rows ever created
    MaxPasswords,   \* bound on the passwords ever given to local accounts
    MaxResets,      \* bound on the times an administrator unbinds one row
    MaxChanges,     \* bound on the changes made in the directory
    MaxGeneration   \* bound on the number of imports

ASSUME SidsApart == None \notin Sid \cup {LocalSid} /\ LocalSid \notin Sid

VARIABLES
    users,       \* the rows of the users table, by id and incarnation
    rows,        \* how many rows were ever created
    passwords,   \* how many local passwords were ever set
    sessions,    \* the sign-in session of each browser, or None
    account,     \* the directory: each SID's account, or None
    changes,     \* changes made in the directory
    generation,  \* App.generation
    at,          \* each browser's sign-in request: where it is, what it read
    pass         \* the revocation pass

vars == <<users, rows, passwords, sessions, account, changes, generation, at, pass>>

Account == [username : Name, usable : BOOLEAN]

(* hash is the local password's number, 0 in a directory user's row; resets *)
(* counts how often an administrator unbound the row.                       *)
User == [username : Name, sid : Sid \cup {LocalSid, None}, hash : 0..MaxPasswords,
         sid_mismatch : BOOLEAN, resets : Nat]

(* by is the account that proved itself; resets is what the row had when    *)
(* that account was recorded on it.                                         *)
Session == [user : 1..MaxRows, by : Sid \cup {LocalSid}, gen : 0..MaxGeneration,
            resets : Nat]

Held == {"finish_local", "by_name", "by_sid", "rename", "renamed", "create",
         "record", "unrecorded", "mismatch", "start_session"}

Step == {"idle", "check_local", "check_directory", "checked"} \cup Held

Request == [step : Step, gen : 0..MaxGeneration, user : 0..MaxRows,
            hash : 0..MaxPasswords, username : Name \cup {None},
            sid : Sid \cup {LocalSid, None}, resets : Nat]

Idle == [step |-> "idle", gen |-> 0, user |-> 0, hash |-> 0,
         username |-> None, sid |-> None, resets |-> 0]

(* What a lookup of one row found: the account, that there is none, or that *)
(* the lookup failed.                                                       *)
Found == [what : {"account", "gone", "unread"}, sid : Sid \cup {None}, usable : BOOLEAN]
Gone == [what |-> "gone", sid |-> None, usable |-> FALSE]
Unread == [Gone EXCEPT !.what = "unread"]

NoPass == [step |-> "idle", gen |-> 0, checked |-> <<>>, found |-> <<>>]

TypeOK ==
    /\ DOMAIN users \subseteq 1..rows /\ rows \in 0..MaxRows
    /\ \A r \in DOMAIN users : users[r] \in User
    /\ passwords \in 0..MaxPasswords
    /\ sessions \in [Browser -> Session \cup {None}]
    /\ \A b \in Browser : sessions[b] # None => sessions[b].user \in DOMAIN users
    /\ account \in [Sid -> Account \cup {None}]
    /\ changes \in 0..MaxChanges /\ generation \in 0..MaxGeneration
    /\ at \in [Browser -> Request]
    /\ pass.step \in {"idle", "ask", "answered", "apply"}
    /\ \A r \in DOMAIN pass.found : pass.found[r] \in Found

Init ==
    /\ users = <<>> /\ rows = 0 /\ passwords = 0
    /\ sessions = [b \in Browser |-> None]
    /\ \E f \in [Sid -> Name] :
          /\ \A s, t \in Sid : f[s] = f[t] => s = t
          /\ account = [s \in Sid |-> [username |-> f[s], usable |-> TRUE]]
    /\ changes = 0 /\ generation = 0
    /\ at = [b \in Browser |-> Idle]
    /\ pass = NoPass

------------------------------------------------------------------------------
(* The store.                                                               *)

Row(r) == r \in DOMAIN users
IsLocal(u) == u.hash # 0
ByName(n) == {r \in DOMAIN users : users[r].username = n}
BySid(s) == {r \in DOMAIN users : users[r].sid = s /\ ~IsLocal(users[r])}

(* user_by_name: the schema keeps names unique.                             *)
Named(n) == CHOOSE r \in ByName(n) : TRUE

(* user_create_returning and local_account_set's insert.                    *)
Insert(n, sid, hash) ==
    /\ rows < MaxRows
    /\ rows' = rows + 1
    /\ users' = [r \in DOMAIN users \cup {rows + 1} |->
                   IF Row(r) THEN users[r]
                   ELSE [username |-> n, sid |-> sid, hash |-> hash,
                         sid_mismatch |-> FALSE, resets |-> 0]]

(* Sessions reference the row they are for: ON DELETE CASCADE.              *)
SessionsDeleteUser(r) ==
    sessions' = [b \in Browser |->
                   IF sessions[b] # None /\ sessions[b].user = r THEN None ELSE sessions[b]]

------------------------------------------------------------------------------
(* A sign-in: what to check is read under a short hold of the gate, the     *)
(* check runs without it, and the result is recorded under a second hold.   *)

Goto(b, r) == at' = [at EXCEPT ![b] = r]
Move(b, step) == Goto(b, [at[b] EXCEPT !.step = step])
Refused(b) == Goto(b, Idle)
AtStep(b, step) == at[b].step = step

Others == <<rows, passwords, account, changes, generation, pass>>
SignInVars == <<users, sessions, Others>>

(* The row under the typed name decides how the password is checked: a      *)
(* local account never reaches the directory.                               *)
Login(b, n) ==
    /\ AtStep(b, "idle") /\ sessions[b] = None
    /\ Goto(b, IF ByName(n) # {} /\ IsLocal(users[Named(n)])
               THEN [Idle EXCEPT !.step = "check_local", !.gen = generation,
                                 !.user = Named(n), !.hash = users[Named(n)].hash]
               ELSE [Idle EXCEPT !.step = "check_directory", !.gen = generation])
    /\ UNCHANGED SignInVars

(* Single sign-on asks the directory by the SID of the assertion instead.   *)
SsoSignIn(b) ==
    /\ ServiceAccount
    /\ AtStep(b, "idle") /\ sessions[b] = None
    /\ Goto(b, [Idle EXCEPT !.step = "check_directory", !.gen = generation])
    /\ UNCHANGED SignInVars

(* The typed password verifies against the hash read, or is refused.        *)
CheckLocal(b) ==
    /\ AtStep(b, "check_local")
    /\ Move(b, "checked") \/ Refused(b)
    /\ UNCHANGED SignInVars

(* The account is the one the directory names after the bind (or holding    *)
(* the SID asked for), not one matched to the typed name; one that is not   *)
(* usable, an unreachable directory and a wrong password are refused.       *)
CheckDirectory(b) ==
    /\ AtStep(b, "check_directory")
    /\ \/ \E s \in Sid :
             /\ account[s] # None /\ account[s].usable
             /\ Goto(b, [at[b] EXCEPT !.step = "checked", !.sid = s,
                                      !.username = account[s].username])
       \/ Refused(b)
    /\ UNCHANGED SignInVars

(* Faulty: the database is taken to be the same.                            *)
SameGenerationUnchecked(b) == TRUE

SameGeneration(b) == at[b].gen = generation

(* The second hold of the gate, kept until the request is answered.         *)
Enter(b) ==
    /\ AtStep(b, "checked")
    /\ IF SameGeneration(b)
       THEN Move(b, IF at[b].hash # 0 THEN "finish_local" ELSE "by_name")
       ELSE Refused(b)
    /\ UNCHANGED SignInVars

FinishLocal(b) ==
    /\ AtStep(b, "finish_local")
    /\ LET r == at[b].user IN
       IF Row(r) /\ IsLocal(users[r]) /\ users[r].hash = at[b].hash
       THEN Goto(b, [at[b] EXCEPT !.step = "record",
                                  !.sid = LocalSid])
       ELSE Refused(b)
    /\ UNCHANGED SignInVars

(* Faulty: a local account's row is taken for a directory user's.           *)
WithRowAnyKind(b, r) == Goto(b, [at[b] EXCEPT !.user = r, !.step = "record"])

(* What finish_directory makes of the row it has in hand, as it was read.   *)
WithRow(b, r) ==
    IF IsLocal(users[r]) THEN Refused(b)
    ELSE Goto(b, [at[b] EXCEPT !.user = r,
                    !.step = IF users[r].sid \in {None, at[b].sid}
                             THEN "record" ELSE "mismatch"])

FindByName(b) ==
    /\ AtStep(b, "by_name")
    /\ IF ByName(at[b].username) # {} THEN WithRow(b, Named(at[b].username))
       ELSE Move(b, "by_sid")
    /\ UNCHANGED SignInVars

(* directory_user_by_sid: the oldest row bound to the account.              *)
FindBySid(b) ==
    /\ AtStep(b, "by_sid")
    /\ \/ \E r \in BySid(at[b].sid) :
             /\ \A other \in BySid(at[b].sid) : r <= other
             /\ Goto(b, [at[b] EXCEPT !.step = "rename", !.user = r])
       \/ BySid(at[b].sid) = {} /\ Move(b, "create")
    /\ UNCHANGED SignInVars

(* user_rename: only the row that was read, still bound, and a free name.   *)
Rename(b) ==
    /\ AtStep(b, "rename")
    /\ LET r == at[b].user IN
       IF r \in BySid(at[b].sid) /\ ByName(at[b].username) = {}
       THEN /\ users' = [users EXCEPT ![r] = [@ EXCEPT !.username = at[b].username]]
            /\ Move(b, "renamed")
       ELSE Refused(b) /\ UNCHANGED users
    /\ UNCHANGED <<sessions, Others>>

Renamed(b) ==
    /\ AtStep(b, "renamed")
    /\ IF Row(at[b].user) THEN WithRow(b, at[b].user) ELSE Refused(b)
    /\ UNCHANGED SignInVars

Create(b) ==
    /\ AtStep(b, "create")
    /\ IF ByName(at[b].username) = {}
       THEN /\ Insert(at[b].username, None, 0)
            /\ Goto(b, [at[b] EXCEPT !.step = "record", !.user = rows + 1])
       ELSE Refused(b) /\ UNCHANGED <<users, rows>>
    /\ UNCHANGED <<passwords, sessions, account, changes, generation, pass>>

(* Faulty: the row's SID is not in the condition.                           *)
MayRecordAnySid(u, sid) == TRUE

(* user_record_login: the SID is bound only on a row still unbound or bound *)
(* to it, in one statement.                                                 *)
MayRecord(u, sid) == u.sid \in {None, sid}
Coalesce(sid, new) == IF sid = None THEN new ELSE sid

RecordLogin(b) ==
    /\ AtStep(b, "record")
    /\ LET r == at[b].user IN
       IF Row(r) /\ MayRecord(users[r], at[b].sid)
       THEN /\ users' = [users EXCEPT ![r] =
                           [users[r] EXCEPT !.sid = Coalesce(users[r].sid, at[b].sid)]]
            /\ Goto(b, [at[b] EXCEPT !.step = "start_session", !.resets = users[r].resets])
       ELSE /\ IF at[b].sid = LocalSid THEN Refused(b) ELSE Move(b, "unrecorded")
            /\ UNCHANGED users
    /\ UNCHANGED <<sessions, Others>>

(* Whoever bound the row meanwhile decides what the refusal says.           *)
Unrecorded(b) ==
    /\ AtStep(b, "unrecorded")
    /\ LET r == at[b].user IN
       IF Row(r) /\ users[r].sid \notin {None, at[b].sid} THEN Move(b, "mismatch") ELSE Refused(b)
    /\ UNCHANGED SignInVars

SidMismatch(b) ==
    /\ AtStep(b, "mismatch")
    /\ users' = IF Row(at[b].user)
                THEN [users EXCEPT ![at[b].user] = [@ EXCEPT !.sid_mismatch = TRUE]]
                ELSE users
    /\ Refused(b)
    /\ UNCHANGED <<sessions, Others>>

(* session_create: only for the row that was authenticated.                 *)
MayStart(r) == Row(r)

StartSession(b) ==
    /\ AtStep(b, "start_session")
    /\ sessions' = IF MayStart(at[b].user)
                   THEN [sessions EXCEPT ![b] = [user |-> at[b].user, by |-> at[b].sid,
                                                 gen |-> at[b].gen, resets |-> at[b].resets]]
                   ELSE sessions
    /\ Goto(b, Idle)
    /\ UNCHANGED <<users, Others>>

(* Signing out, and a session whose lifetime passed.                        *)
Logout(b) ==
    /\ sessions[b] # None
    /\ sessions' = [sessions EXCEPT ![b] = None]
    /\ UNCHANGED <<users, at, Others>>

------------------------------------------------------------------------------
(* The requests that change rows.  local-account is another process: it     *)
(* takes no gate.                                                           *)

AddUser(n) ==
    /\ ByName(n) = {}
    /\ Insert(n, None, 0)
    /\ UNCHANGED <<passwords, sessions, account, changes, generation, at, pass>>

RemoveUser(r) ==
    /\ Row(r)
    /\ users' = [x \in DOMAIN users \ {r} |-> users[x]]
    /\ SessionsDeleteUser(r)
    /\ UNCHANGED <<at, Others>>

ClearSid(r) ==
    /\ Row(r)
    /\ users[r].resets < MaxResets
    /\ users' = [users EXCEPT ![r] = [users[r] EXCEPT !.sid = None, !.sid_mismatch = FALSE,
                                                         !.resets = users[r].resets + 1]]
    /\ SessionsDeleteUser(r)
    /\ UNCHANGED <<at, Others>>

(* A new local account, or a new password for one; a directory user of that *)
(* name is refused.                                                         *)
LocalAccountSet(n) ==
    /\ passwords < MaxPasswords
    /\ passwords' = passwords + 1
    /\ \/ /\ ByName(n) = {}
          /\ Insert(n, LocalSid, passwords + 1)
       \/ \E r \in ByName(n) :
            /\ IsLocal(users[r])
            /\ users' = [users EXCEPT ![r] = [@ EXCEPT !.hash = passwords + 1]]
            /\ UNCHANGED rows
    /\ UNCHANGED <<sessions, account, changes, generation, at, pass>>

(* The directory's administrators: an account is renamed, disabled or       *)
(* enabled, or deleted for good.  Names stay unique.                        *)
DirectoryChanges(s) ==
    /\ changes < MaxChanges
    /\ account[s] # None
    /\ \E a \in Account \cup {None} :
          /\ a # account[s]
          /\ a # None => \A t \in Sid \ {s} :
                           account[t] # None => account[t].username # a.username
          /\ account' = [account EXCEPT ![s] = a]
    /\ changes' = changes + 1
    /\ UNCHANGED <<users, rows, passwords, sessions, generation, at, pass>>

(* An import, alone with the gate, puts another database in place; here one *)
(* with no users.                                                           *)
Import ==
    /\ generation < MaxGeneration
    /\ \A b \in Browser : at[b].step \notin Held
    /\ pass.step # "apply"
    /\ generation' = generation + 1
    /\ users' = <<>>
    /\ sessions' = [b \in Browser |-> None]
    /\ UNCHANGED <<rows, passwords, account, changes, at, pass>>

------------------------------------------------------------------------------
(* The revocation pass: who to check is read under a short hold, the        *)
(* directory is asked without the gate, and what it said is applied under   *)
(* a hold to the rows as they are by then.                                  *)

(* Accounts with a session.  One with only a live connection is checked too *)
(* (users_to_check); connections are in module Connections.                 *)
UsersToCheck == {r \in DOMAIN users : ~IsLocal(users[r])
                   /\ \E b \in Browser : sessions[b] # None /\ sessions[b].user = r}

RowVars == <<users, rows, passwords, account, changes, generation, at>>

RevocationPass ==
    /\ ServiceAccount
    /\ pass.step = "idle"
    /\ UsersToCheck # {}
    /\ pass' = [step |-> "ask", gen |-> generation, found |-> <<>>,
                checked |-> [r \in UsersToCheck |-> [username |-> users[r].username,
                                                     sid |-> users[r].sid]]]
    /\ UNCHANGED <<sessions, RowVars>>

(* One account: found by SID where the row has one, and by name otherwise.  *)
Lookup(u) ==
    LET hits == {s \in Sid : /\ account[s] # None
                             /\ IF u.sid = None THEN account[s].username = u.username
                                ELSE s = u.sid} IN
    IF hits = {} THEN Gone
    ELSE LET s == CHOOSE s \in hits : TRUE
         IN [what |-> "account", sid |-> s, usable |-> account[s].usable]

(* An unreachable directory ends the pass; one lookup may fail alone.       *)
DirectoryUnreachable ==
    /\ pass.step = "ask"
    /\ pass' = NoPass
    /\ UNCHANGED <<sessions, RowVars>>

LookupEach(unread) ==
    /\ pass.step = "ask"
    /\ unread \subseteq DOMAIN pass.checked
    /\ pass' = [pass EXCEPT !.step = "answered",
                            !.found = [r \in DOMAIN pass.checked |->
                                         IF r \in unread THEN Unread ELSE Lookup(pass.checked[r])]]
    /\ UNCHANGED <<sessions, RowVars>>

ApplyLookups ==
    /\ pass.step = "answered"
    /\ pass' = IF pass.gen = generation THEN [pass EXCEPT !.step = "apply"] ELSE NoPass
    /\ UNCHANGED <<sessions, RowVars>>

(* Faulty: only an account that is gone is revoked.                         *)
RevocationReasonGone(u, found) == found.what = "gone"

RevocationReason(u, found) ==
    \/ found.what = "gone"
    \/ found.what = "account" /\ (~found.usable \/ u.sid \notin {None, found.sid})

StillTheRow(r) == /\ Row(r) /\ ~IsLocal(users[r])
                  /\ users[r].username = pass.checked[r].username

(* The next row of the answer; the last one ends the pass.                  *)
Revoke ==
    /\ pass.step = "apply"
    /\ LET r == Min(DOMAIN pass.found)
           rest == DOMAIN pass.found \ {r} IN
       /\ IF StillTheRow(r) /\ RevocationReason(users[r], pass.found[r])
          THEN SessionsDeleteUser(r)
          ELSE UNCHANGED sessions
       /\ pass' = IF rest = {} THEN NoPass
                  ELSE [pass EXCEPT !.found = [x \in rest |-> @[x]]]
    /\ UNCHANGED RowVars

------------------------------------------------------------------------------
SignInStep(b) ==
    \/ CheckLocal(b) \/ CheckDirectory(b) \/ Enter(b) \/ FinishLocal(b)
    \/ FindByName(b) \/ FindBySid(b) \/ Rename(b) \/ Renamed(b) \/ Create(b)
    \/ RecordLogin(b) \/ Unrecorded(b) \/ SidMismatch(b) \/ StartSession(b)

(* What happens without an account for lookups in config.toml.              *)
SignInNext ==
    \/ \E b \in Browser : SignInStep(b) \/ Logout(b) \/ \E n \in Name : Login(b, n)
    \/ \E n \in Name : AddUser(n) \/ LocalAccountSet(n)
    \/ \E r \in 1..MaxRows : RemoveUser(r) \/ ClearSid(r)
    \/ \E s \in Sid : DirectoryChanges(s)
    \/ Import

Next ==
    \/ SignInNext
    \/ \E b \in Browser : SsoSignIn(b)
    \/ RevocationPass \/ DirectoryUnreachable
    \/ \E unread \in SUBSET DOMAIN pass.checked : LookupEach(unread)
    \/ ApplyLookups \/ Revoke

(* The proxy's own tasks run; the directory answers again and again.        *)
Fairness ==
    /\ WF_vars(RevocationPass) /\ WF_vars(ApplyLookups) /\ WF_vars(Revoke)
    /\ SF_vars(LookupEach({}))
    /\ \A b \in Browser : WF_vars(SignInStep(b))

SignInSpec == Init /\ [][SignInNext]_vars

Spec == Init /\ [][Next]_vars /\ Fairness

------------------------------------------------------------------------------
SignedIn(b) == sessions[b] # None
RowOf(b) == users[sessions[b].user]

(* A session belongs to the account its row is bound to: whatever sign-ins, *)
(* renames, additions and removals run between the store calls of           *)
(* finish_directory, no account holds a session on a row another account    *)
(* is bound to.  Sessions that started across a reset of the row's binding  *)
(* are the subject of OneAccountPerRow.                                     *)
SessionIsTheRowsAccount ==
    \A b \in Browser :
        SignedIn(b) /\ sessions[b].resets = RowOf(b).resets => RowOf(b).sid = sessions[b].by

(* A local password opens a session only on a local account's row and a     *)
(* directory account only on a directory user's, though local-account adds  *)
(* and administrators remove rows while the password is being checked.      *)
KindsApart ==
    \A b \in Browser : SignedIn(b) => (IsLocal(RowOf(b)) <=> sessions[b].by = LocalSid)

(* A sign-in is recorded only in the database its check was made against,   *)
(* though an import may come between the two.                               *)
RecordedWhereChecked ==
    \A b \in Browser : SignedIn(b) => sessions[b].gen = generation

(* Two accounts never hold sessions on one row.                             *)
OneAccountPerRow ==
    \A b, c \in Browser :
        SignedIn(b) /\ SignedIn(c) /\ sessions[b].user = sessions[c].user
            => sessions[b].by = sessions[c].by

MaySignIn(s) == account[s] # None /\ account[s].usable

HoldsSession(s) ==
    \E b \in Browser : SignedIn(b) /\ sessions[b].by = s /\ sessions[b].resets = RowOf(b).resets

LosesSessions(s) == [](~MaySignIn(s) => <>(MaySignIn(s) \/ ~HoldsSession(s)))

(* An account the directory disabled or deleted loses every session,        *)
(* including one whose sign-in was under way when it was disabled.          *)
UnusableLosesSessions == \A s \in Sid : LosesSessions(s)

==============================================================================
