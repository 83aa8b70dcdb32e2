------------------------------- MODULE HostParts -------------------------------
(****************************************************************************)
(* The parts of the gateway around its process and its files, each an       *)
(* instance of its module: the certificate, the places of connections, the  *)
(* schema, the standing checks, imports and the process itself.  They share *)
(* no state with each other.                                                *)
(****************************************************************************)
EXTENDS Integers, Sequences, FiniteSets

CONSTANTS
    NoOne,                                                   \* no process, no request
    Version, MaxWrites,                                      \* Certificate
    Conn, max_connections,                                   \* Listener
    Build, MaxChanges, MaxCopySeconds, MaxCopies,            \* Schema
    MaxEntries,                                              \* Standing
    GateRequest, MAX_PENDING, PENDING_TTL, KEEP_BACKUPS,     \* Imports
        MaxImports, MaxUploads, MaxSeconds, MaxCrashes,
    Process, Dir, Copy                                       \* Process

VARIABLES
    file, current, stamp, look, quiet,
    free, http, ws, cell, setup,
    db, copies, build, step, second, served,
    error, health, entries,
    seconds, readers, writer, waiting, job, staged, uploads, inst, replaced, backups, temps,
        crashes, misapplied,
    config, proc, lock, port, scans, staging, status

(* max_connections is a number, of connections of which finitely many are   *)
(* there at once.                                                           *)
ASSUME ListenerAssumption == IsFiniteSet(Conn) /\ max_connections \in Nat

(* KEEP_BACKUPS keeps the last backup at least.                             *)
ASSUME ImportsAssumption == NoOne \notin GateRequest /\ KEEP_BACKUPS \in Nat \ {0}

ASSUME ProcessAssumption == NoOne \notin Process

(* Schema versions count from 1.                                            *)
ASSUME SchemaAssumption == Build \subseteq Nat \ {0}

CE == INSTANCE Certificate
LI == INSTANCE Listener
SC == INSTANCE Schema WITH MaxSeconds <- MaxCopySeconds
ST == INSTANCE Standing
IM == INSTANCE Imports WITH Request <- GateRequest, queue <- waiting, instance <- inst
PR == INSTANCE Process WITH copies <- staging

------------------------------------------------------------------------------
(* https.rs reload_if_changed: a renewal is not missed.                     *)
CertificateKeepsUp == CE!CertificateKeepsUp

(* server.rs accept_loop, web.rs ConnectionPermit: no place is lost or      *)
(* given back twice.                                                        *)
PlacesAccounted == LI!PlacesAccounted

(* store.rs open_serving: what a build last served can still be opened.     *)
RollbackKept == SC!RollbackKept

(* server.rs record_revocation, scan/mod.rs transition: each change of      *)
(* standing is in the log once.                                             *)
ChangesLoggedOnce == ST!ChangesLoggedOnce

(* web.rs gate_requests: a change reaches only the database its page was    *)
(* loaded from.                                                             *)
ActsOnItsDatabase == IM!ActsOnItsDatabase

(* migrate.rs apply: the database the last import replaced is kept.         *)
ReplacedIsBackedUp == IM!ReplacedIsBackedUp

(* server.rs serve_blocking, app.rs for_serving: a process is alone in the  *)
(* directory it serves until its last work there is done.                   *)
ServesAlone == PR!ServesAlone

(* service.rs run: running and stopped are told only when they are so.      *)
StatusIsTrue == PR!StatusIsTrue
==============================================================================
