-------------------------------- MODULE Imports --------------------------------
(****************************************************************************)
(* The gate every request passes (web.rs gate_requests), uploads held until *)
(* an administrator confirms one (migrate.rs stage, cancel, confirm), and   *)
(* the swap itself: the backup of the database it replaces, the rename, and *)
(* what a failure or a crash at each step leaves (migrate.rs apply,         *)
(* store.rs replace_with).                                                  *)
(*                                                                          *)
(* app.gate is tokio's RwLock: who waits is served in order, so a reader    *)
(* behind a waiting writer waits too.  A database is known by its instance, *)
(* which every import makes new; a page carries the one it was loaded from. *)
(****************************************************************************)
EXTENDS Integers, Sequences, FiniteSets

CONSTANTS
    Request,        \* requests that may be in flight
    NoOne,          \* no request
    MAX_PENDING,    \* uploads held at once
    PENDING_TTL,    \* how long an upload is held
    KEEP_BACKUPS,   \* backups kept
    MaxImports,     \* bound on the imports that succeed
    MaxUploads,     \* bound on the uploads
    MaxSeconds,     \* bound on time, in the backup name's unit
    MaxCrashes      \* bound on the crashes

VARIABLES
    seconds,     \* now
    readers,     \* the requests that hold the gate shared
    writer,      \* the request that holds it alone
    queue,       \* the requests that wait for it
    job,         \* each request: what it is, how far, and what it names
    staged,      \* App.imports: uploads and when they came
    uploads,     \* how many came
    instance,    \* META_INSTANCE of the database in place
    replaced,    \* the instance the last import replaced, -1 before any
    backups,     \* backup-<stamp>.db: the stamp and the instance it copies
    temps,       \* import-*.tmp files left in the data directory
    crashes,     \* how often the process stopped
    misapplied   \* whether a change reached another database than its page's

gate == <<readers, writer, queue>>
files == <<instance, replaced, backups, temps>>
vars == <<seconds, gate, job, staged, uploads, files, crashes, misapplied>>

Op == {"none", "change", "upload", "cancel", "confirm"}
Step == {"away", "body", "queued", "in", "checked", "backup", "replace"}
NoJob == [op |-> "none", step |-> "away", names |-> 0]

TypeOK ==
    /\ seconds \in 0..MaxSeconds /\ crashes \in 0..MaxCrashes
    /\ readers \subseteq Request /\ writer \in Request \cup {NoOne}
    /\ writer # NoOne => readers = {}
    /\ \A i \in DOMAIN queue : job[queue[i]].step \in {"queued", "in"}
    /\ job \in [Request -> [op : Op, step : Step, names : 0..(MaxUploads + MaxImports)]]
    /\ uploads \in 0..MaxUploads
    /\ staged \subseteq [id : 1..uploads, at : 0..seconds]
    /\ Cardinality(staged) <= MAX_PENDING
    /\ instance \in 0..MaxImports /\ replaced \in -1..(instance - 1)
    /\ backups \subseteq [stamp : 0..seconds, of : 0..instance]
    /\ temps \in 0..MaxCrashes
    /\ misapplied \in BOOLEAN

Init ==
    /\ seconds = 0 /\ crashes = 0
    /\ readers = {} /\ writer = NoOne /\ queue = <<>>
    /\ job = [r \in Request |-> NoJob]
    /\ staged = {} /\ uploads = 0
    /\ instance = 0 /\ replaced = -1 /\ backups = {} /\ temps = 0
    /\ misapplied = FALSE

------------------------------------------------------------------------------
(* The gate.                                                                *)
Shared(r) == job[r].op # "confirm"

ToStep(r, step) == job' = [job EXCEPT ![r] = [@ EXCEPT !.step = step]]

Leave(r) ==
    /\ readers' = readers \ {r}
    /\ writer' = IF writer = r THEN NoOne ELSE writer
    /\ job' = [job EXCEPT ![r] = NoJob]
    /\ UNCHANGED queue

(* The first in line is let in when nobody is in its way.                   *)
Enter ==
    /\ queue # <<>> /\ writer = NoOne
    /\ LET r == Head(queue)
       IN /\ IF Shared(r) THEN readers' = readers \cup {r} /\ UNCHANGED writer
             ELSE readers = {} /\ writer' = r /\ UNCHANGED readers
          /\ ToStep(r, "in")
    /\ queue' = Tail(queue)
    /\ UNCHANGED <<seconds, staged, uploads, files, crashes, misapplied>>

(* A request arrives.  The id it names is a page's instance for a change,   *)
(* an upload's for a cancel and a confirm.                                  *)
Arrive(r, op) ==
    /\ job[r] = NoJob
    /\ \E names \in CASE op = "change" -> 0..instance
                      [] op = "upload" -> {0}
                      [] OTHER -> 1..uploads :
          job' = [job EXCEPT ![r] = [op |-> op, step |-> "body", names |-> names]]
    /\ UNCHANGED <<seconds, gate, staged, uploads, files, crashes, misapplied>>

(* The body is in and the request asks for the gate.  A body that does not  *)
(* come keeps nobody waiting.                                               *)
Body(r) ==
    /\ job[r].step = "body"
    /\ queue' = Append(queue, r)
    /\ ToStep(r, "queued")
    /\ UNCHANGED <<seconds, readers, writer, staged, uploads, files, crashes, misapplied>>

(* The client goes away, or the deadline passes.  The task of a confirmed   *)
(* import keeps its place in line, and still_wanted refuses it there.       *)
GiveUp(r) ==
    /\ job[r].step \in (IF Shared(r) THEN {"body", "queued"} ELSE {"body"})
    /\ job' = [job EXCEPT ![r] = NoJob]
    /\ queue' = SelectSeq(queue, LAMBDA x : x # r)
    /\ UNCHANGED <<seconds, readers, writer, staged, uploads, files, crashes, misapplied>>

Doing(r, op, step) == job[r].op = op /\ job[r].step = step
InGate(r, op) == Doing(r, op, "in") /\ (r \in readers \/ r = writer)

------------------------------------------------------------------------------
(* Faulty: the page's database is not compared.                             *)
InstanceMatchesAny(r) == TRUE

(* needs_instance and the comparison under the gate.                        *)
InstanceMatches(r) == job[r].names = instance

CheckInstance(r) ==
    /\ InGate(r, "change")
    /\ IF InstanceMatches(r) THEN ToStep(r, "checked") /\ UNCHANGED gate ELSE Leave(r)
    /\ UNCHANGED <<seconds, staged, uploads, files, crashes, misapplied>>

(* The handler's writes, under the same hold.                               *)
Change(r) ==
    /\ Doing(r, "change", "checked")
    /\ misapplied' = (misapplied \/ job[r].names # instance)
    /\ Leave(r)
    /\ UNCHANGED <<seconds, staged, uploads, files, crashes>>

Fresh == {p \in staged : seconds - p.at < PENDING_TTL}

(* stage: expired uploads go, then the oldest while there is no room.       *)
Oldest(s) == CHOOSE p \in s : \A q \in s : p.at < q.at \/ (p.at = q.at /\ p.id <= q.id)

RoomIn(s) == IF Cardinality(s) >= MAX_PENDING THEN s \ {Oldest(s)} ELSE s

Upload(r) ==
    /\ InGate(r, "upload") /\ uploads < MaxUploads
    /\ uploads' = uploads + 1
    /\ staged' = RoomIn(Fresh) \cup {[id |-> uploads + 1, at |-> seconds]}
    /\ Leave(r)
    /\ UNCHANGED <<seconds, files, crashes, misapplied>>

(* read_zip refuses a damaged or a newer archive.                           *)
UploadRefused(r) ==
    /\ InGate(r, "upload")
    /\ Leave(r)
    /\ UNCHANGED <<seconds, staged, uploads, files, crashes, misapplied>>

(* Faulty: it takes the gate again.                                         *)
CancelTakingGate(r) ==
    \/ /\ InGate(r, "cancel") /\ r \notin {queue[i] : i \in DOMAIN queue} /\ job[r].names > 0
       /\ queue' = Append(queue, r)
       /\ job' = [job EXCEPT ![r].names = 0]
       /\ UNCHANGED <<seconds, readers, writer, staged, uploads, files, crashes, misapplied>>
    \/ /\ InGate(r, "cancel") /\ r \notin {queue[i] : i \in DOMAIN queue} /\ job[r].names = 0
       /\ Leave(r)
       /\ UNCHANGED <<seconds, staged, uploads, files, crashes, misapplied>>

(* cancel_import runs under the hold its request came with.                 *)
Cancel(r) ==
    /\ InGate(r, "cancel")
    /\ staged' = {p \in staged : p.id # job[r].names}
    /\ Leave(r)
    /\ UNCHANGED <<seconds, uploads, files, crashes, misapplied>>

(* session_checks drops uploads nobody confirmed.                           *)
SweepPending ==
    /\ writer = NoOne
    /\ staged # Fresh
    /\ staged' = Fresh
    /\ UNCHANGED <<seconds, gate, job, uploads, files, crashes, misapplied>>

------------------------------------------------------------------------------
(* confirm and apply, alone.  Refused: the upload has expired, the host was *)
(* not typed, the passphrase is wrong, the archive does not validate, the   *)
(* client has gone away meanwhile (still_wanted).                           *)
Refuse(r) ==
    /\ InGate(r, "confirm")
    /\ Leave(r)
    /\ UNCHANGED <<seconds, staged, uploads, files, crashes, misapplied>>

(* The archive is decrypted into a temporary file, which is validated.      *)
StageFile(r) ==
    /\ InGate(r, "confirm") /\ instance < MaxImports
    /\ \E p \in Fresh : p.id = job[r].names
    /\ ToStep(r, "backup")
    /\ UNCHANGED <<seconds, gate, staged, uploads, files, crashes, misapplied>>

(* snapshot_to wants a new file: an import in the second of an earlier one  *)
(* is refused, and the earlier one's backup stays.                          *)
Backup(r) ==
    /\ Doing(r, "confirm", "backup")
    /\ IF \E b \in backups : b.stamp = seconds
       THEN Leave(r) /\ UNCHANGED backups
       ELSE /\ backups' = backups \cup {[stamp |-> seconds, of |-> instance]}
            /\ ToStep(r, "replace") /\ UNCHANGED gate
    /\ UNCHANGED <<seconds, staged, uploads, instance, replaced, temps, crashes, misapplied>>

Newest(s) == CHOOSE b \in s : \A c \in s : c.stamp <= b.stamp

(* replace_with is refused: this attempt's copy goes.                       *)
ReplaceFails(r) ==
    /\ Doing(r, "confirm", "replace")
    /\ backups' = backups \ {Newest(backups)}
    /\ Leave(r)
    /\ UNCHANGED <<seconds, staged, uploads, instance, replaced, temps, crashes, misapplied>>

(* Faulty: the oldest are kept.                                             *)
PrunedToOldest(s) == {b \in s : Cardinality({c \in s : c.stamp < b.stamp}) < KEEP_BACKUPS}

Pruned(s) == {b \in s : Cardinality({c \in s : c.stamp > b.stamp}) < KEEP_BACKUPS}

Replace(r) ==
    /\ Doing(r, "confirm", "replace")
    /\ instance' = instance + 1 /\ replaced' = instance
    /\ backups' = Pruned(backups)
    /\ staged' = {p \in staged : p.id # job[r].names}
    /\ Leave(r)
    /\ UNCHANGED <<seconds, uploads, temps, crashes, misapplied>>

(* The process stops: uploads and requests are gone; the database in place, *)
(* the backups and a temporary file in use stay.                            *)
Crash ==
    /\ crashes < MaxCrashes
    /\ crashes' = crashes + 1
    /\ temps' = temps + Cardinality({r \in Request : job[r].step \in {"backup", "replace"}})
    /\ readers' = {} /\ writer' = NoOne /\ queue' = <<>>
    /\ job' = [r \in Request |-> NoJob]
    /\ staged' = {}
    /\ UNCHANGED <<seconds, uploads, instance, replaced, backups, misapplied>>

(* sweep_temp_files at a later start.                                       *)
SweepTemps ==
    /\ temps > 0
    /\ temps' = 0
    /\ UNCHANGED <<seconds, gate, job, staged, uploads, instance, replaced, backups, crashes,
                   misapplied>>

Second ==
    /\ seconds < MaxSeconds
    /\ seconds' = seconds + 1
    /\ UNCHANGED <<gate, job, staged, uploads, files, crashes, misapplied>>

------------------------------------------------------------------------------
Work(r) ==
    \/ CheckInstance(r) \/ Change(r) \/ Upload(r) \/ UploadRefused(r) \/ Cancel(r)
    \/ Refuse(r) \/ Backup(r) \/ Replace(r)

Next ==
    \/ \E r \in Request :
          \/ \E op \in Op \ {"none"} : Arrive(r, op)
          \/ Body(r) \/ GiveUp(r) \/ Work(r)
          \/ StageFile(r) \/ ReplaceFails(r)
    \/ Enter \/ SweepPending \/ Crash \/ SweepTemps \/ Second

(* A request that holds the gate goes on, and the gate lets in who may      *)
(* enter.  Nothing is assumed of the clients: a body may never come.        *)
Fairness == WF_vars(Enter) /\ \A r \in Request : WF_vars(Work(r))

Spec == Init /\ [][Next]_vars /\ Fairness

------------------------------------------------------------------------------
(* A change is made only in the database its page was loaded from, however  *)
(* many imports came between the page, the request and its turn at the gate *)
(* (gate_requests compares the instance under the hold it acts under).      *)
ActsOnItsDatabase == ~misapplied

(* The database the last import replaced is among the backups: through      *)
(* refused and failed imports, imports in one second, crashes between the   *)
(* backup and the swap, and the deletion of old backups (apply).            *)
ReplacedIsBackedUp == replaced >= 0 => \E b \in backups : b.of = replaced

Gets(r) == job[r].step = "queued" ~> job[r].step # "queued"

(* Whoever waits at the gate is let in or goes away, though clients stop in *)
(* the middle of their requests (gate_requests reads the body first,        *)
(* cancel_import does not take the gate again).                             *)
WaitingEnds == \A r \in Request : Gets(r)
==============================================================================
