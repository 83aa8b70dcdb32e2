-------------------------------- MODULE Schema --------------------------------
(****************************************************************************)
(* Opening the database a proxy serves (store.rs open_serving, migrate):    *)
(* builds of several schema versions, one at a time, each of which may      *)
(* crash between any two steps; and the administrator who rolls back.       *)
(*                                                                          *)
(* A database is its schema version and a number that stands for its rows.  *)
(* Each migration is one transaction.                                       *)
(****************************************************************************)
EXTENDS Integers, FiniteSets

CONSTANTS
    Build,          \* the builds, each by its SCHEMA_VERSION, from 1
    MaxChanges,     \* bound on the changes made while serving
    MaxSeconds,     \* bound on the clock
    MaxCopies       \* bound on the copies kept

VARIABLES
    db,        \* the database file; version 0 is no schema yet
    copies,    \* the copies beside it, by name: version found and second
    build,     \* the build running or starting
    step,      \* where open_serving is
    second,    \* the clock
    served     \* by version, the rows a build of that version last served

vars == <<db, copies, build, step, second, served>>

Nothing == -1
Torn == [version |-> 0, rows |-> Nothing]    \* a copy the crash left unfinished

TypeOK ==
    /\ db.version \in {0} \cup Build /\ db.rows \in 0..MaxChanges
    /\ DOMAIN copies \subseteq Build \X (0..MaxSeconds)
    /\ build \in Build /\ step \in {"down", "open", "copy", "migrate", "serving"}
    /\ second \in 0..MaxSeconds
    /\ served \in [Build -> {Nothing} \cup (0..MaxChanges)]

Init ==
    /\ db = [version |-> 0, rows |-> 0] /\ copies = <<>>
    /\ build = 1 /\ step = "down" /\ second = 0
    /\ served = [b \in Build |-> Nothing]

Start(b) ==
    /\ step = "down"
    /\ build' = b /\ step' = "open"
    /\ UNCHANGED <<db, copies, second, served>>

(* Faulty: only the version just before is copied.                          *)
NeedsCopyBefore(b) == db.version = b - 1 /\ db.version > 0

(* open_serving: a schema this build will change is copied first.  The name *)
(* holds the second, and VACUUM INTO refuses a file that is there.          *)
NeedsCopy(b) == db.version \in 1..(b - 1)

CopyName == <<db.version, second>>

Put(f, k, v) == [x \in DOMAIN f \cup {k} |-> IF x = k THEN v ELSE f[x]]

OpenRefused ==
    /\ step = "open"
    /\ \/ db.version > build                                   \* StoreError::Newer
       \/ NeedsCopy(build) /\ CopyName \in DOMAIN copies
    /\ step' = "down"
    /\ UNCHANGED <<db, copies, build, second, served>>

StartCopy ==
    /\ step = "open" /\ NeedsCopy(build)
    /\ CopyName \notin DOMAIN copies /\ Cardinality(DOMAIN copies) < MaxCopies
    /\ copies' = Put(copies, CopyName, Torn) /\ step' = "copy"
    /\ UNCHANGED <<db, build, second, served>>

(* The copy keeps the name it was begun under, the newest of its version.   *)
FinishCopy ==
    LET mine == CHOOSE n \in DOMAIN copies :
                   n[1] = db.version /\ \A o \in DOMAIN copies : o[1] = n[1] => o[2] <= n[2]
    IN /\ step = "copy"
       /\ copies' = [copies EXCEPT ![mine] = db] /\ step' = "migrate"
       /\ UNCHANGED <<db, build, second, served>>

OpenAsIs ==
    /\ step = "open" /\ ~NeedsCopy(build) /\ db.version <= build
    /\ step' = "migrate"
    /\ UNCHANGED <<db, copies, build, second, served>>

(* migrate: the steps to this build's version, each committed on its own.   *)
Migrate ==
    /\ step = "migrate" /\ db.version < build
    /\ db' = [db EXCEPT !.version = @ + 1]
    /\ UNCHANGED <<copies, build, step, second, served>>

Serve ==
    /\ step = "migrate" /\ db.version = build
    /\ step' = "serving" /\ served' = [served EXCEPT ![build] = db.rows]
    /\ UNCHANGED <<db, copies, build, second>>

Change ==
    /\ step = "serving" /\ db.rows < MaxChanges
    /\ db' = [db EXCEPT !.rows = @ + 1] /\ served' = [served EXCEPT ![build] = db.rows + 1]
    /\ UNCHANGED <<copies, build, step, second>>

(* A crash, a stop, or a migration that would break a reference and was     *)
(* rolled back (rebuild_with_foreign_keys_off): what is committed stays.    *)
Crash ==
    /\ step # "down" /\ step' = "down"
    /\ UNCHANGED <<db, copies, build, second, served>>

(* The roll-back open_serving keeps the copy for.  It gives up what newer   *)
(* builds served since.                                                     *)
RollBack(n) ==
    /\ step = "down" /\ copies[n] # Torn /\ copies[n].version < db.version
    /\ db' = copies[n]
    /\ served' = [b \in Build |-> IF b < copies[n].version THEN served[b]
                                  ELSE IF b = copies[n].version THEN copies[n].rows ELSE Nothing]
    /\ UNCHANGED <<copies, build, step, second>>

Tick ==
    /\ second < MaxSeconds /\ second' = second + 1
    /\ UNCHANGED <<db, copies, build, step, served>>

Next ==
    \/ \E b \in Build : Start(b)
    \/ OpenRefused \/ StartCopy \/ FinishCopy \/ OpenAsIs \/ Migrate \/ Serve
    \/ Change \/ Crash \/ Tick
    \/ \E n \in DOMAIN copies : RollBack(n)

Spec == Init /\ [][Next]_vars

------------------------------------------------------------------------------
(* Whatever a build last served, a build of its version can still open: it  *)
(* is the database itself, or, once a newer build has changed the schema, a *)
(* whole copy beside it, wherever the upgrade was interrupted and however   *)
(* often it was tried (open_serving).                                       *)
RollbackKept ==
    \A v \in Build :
        served[v] # Nothing /\ db.version > v =>
            \E n \in DOMAIN copies : copies[n] = [version |-> v, rows |-> served[v]]
==============================================================================
