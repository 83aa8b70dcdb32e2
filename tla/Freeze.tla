------------------------------- MODULE Freeze -------------------------------
(****************************************************************************)
(* The freeze of a migrating proxy: exports that set it, hand it over with  *)
(* their archive or lift it (admin.rs export_task, FreezeUndo, Delivery),   *)
(* the edits it stops (admin.rs not_frozen, add_user), the administrator's  *)
(* unfreeze, imports (migrate.rs apply), and the process stopping anywhere  *)
(* and starting again (app.rs lift_stranded_freeze).                        *)
(*                                                                          *)
(* One step is one store call or one wait.  An export's lock outlives its   *)
(* request and its task: it travels with the archive (FreezeUndo) and is    *)
(* let go when the freeze is settled.                                       *)
(****************************************************************************)
EXTENDS Integers

CONSTANTS
    Editor,         \* requests that edit, at the same time
    Exporter,       \* export requests, at the same time
    WriteFails,     \* whether Store::set_flag may fail
    None,           \* no value
    MaxEdits,       \* bound on the edits acknowledged
    MaxGeneration   \* bound on the imports of one run of the process

ASSUME FreezeAssumption ==
    /\ WriteFails \in BOOLEAN
    /\ MaxEdits \in Nat /\ MaxGeneration \in Nat
    /\ None \notin Nat

VARIABLES
    data,        \* the edits the database in place holds
    frozen,      \* its META_FROZEN
    pending,     \* its META_FREEZE_PENDING
    archive,     \* what the archive a kept freeze was handed over with holds
    process,     \* the service: serving, stopped, or lifting at its start
    generation,  \* App.generation
    lock,        \* App.export_lock
    edit,        \* each edit's handler
    export,      \* each export: its request and its task
    undo,        \* the task lifting the freeze of an archive that was dropped
    unfreeze     \* the handler of admin::unfreeze

dbVars == <<data, frozen, pending, archive>>
vars == <<data, frozen, pending, archive, process, generation, lock, edit, export,
          undo, unfreeze>>

EditState == [step : {"idle", "away", "checked"}, gen : Nat]
NoEdit == [step |-> "idle", gen |-> 0]

(* The steps an export makes under its exclusive hold, and after it.        *)
FreezingStep == {"marking", "freezing", "copying", "clearing", "clearing_mark"}
PackedStep == {"packing", "packed", "ready"}
ExportState == [step : {"idle", "locking", "gating", "sharing"} \cup FreezingStep \cup PackedStep,
                freeze : BOOLEAN, froze : BOOLEAN, gone : BOOLEAN, gen : Nat,
                snap : Nat \cup {None}]
NoExport == [step |-> "idle", freeze |-> FALSE, froze |-> FALSE, gone |-> FALSE,
             gen |-> 0, snap |-> None]

UndoState == [step : {"idle", "waiting", "lifting", "clearing_mark"}, gen : Nat]
NoUndo == [step |-> "idle", gen |-> 0]

TypeOK ==
    /\ data \in Nat
    /\ frozen \in BOOLEAN /\ pending \in BOOLEAN
    /\ archive \in Nat \cup {None}
    /\ process \in {"serving", "stopped", "lifting"}
    /\ generation \in Nat
    /\ lock \in BOOLEAN
    /\ edit \in [Editor -> EditState]
    /\ export \in [Exporter -> ExportState]
    /\ undo \in UndoState
    /\ unfreeze \in {"idle", "lifting", "clearing_mark"}

Init ==
    /\ data = 0
    /\ frozen = FALSE /\ pending = FALSE
    /\ archive = None
    /\ process = "serving"
    /\ generation = 0
    /\ lock = FALSE
    /\ edit = [e \in Editor |-> NoEdit]
    /\ export = [x \in Exporter |-> NoExport]
    /\ undo = NoUndo
    /\ unfreeze = "idle"

------------------------------------------------------------------------------
(* The gate.                                                                *)

Exclusive ==
    \/ \E x \in Exporter : export[x].step \in FreezingStep
    \/ undo.step \in {"lifting", "clearing_mark"}

Shared ==
    \/ \E e \in Editor : edit[e].step = "checked"
    \/ \E x \in Exporter : export[x].step = "sharing"
    \/ unfreeze # "idle"

GateFree == ~Exclusive /\ ~Shared

------------------------------------------------------------------------------
(* Edits.  A handler checks and writes under one shared hold; add_user and  *)
(* set_directory_password check, ask the directory without the gate, and    *)
(* check again under another.                                               *)

EditAway(e) ==
    /\ process = "serving" /\ ~Exclusive
    /\ edit[e].step = "idle"
    /\ ~frozen
    /\ edit' = [edit EXCEPT ![e] = [step |-> "away", gen |-> generation]]
    /\ UNCHANGED <<dbVars, process, generation, lock, export, undo, unfreeze>>

EditCheck(e) ==
    /\ process = "serving" /\ ~Exclusive
    /\ edit[e].step = "idle" \/ (edit[e].step = "away" /\ edit[e].gen = generation)
    /\ ~frozen
    /\ edit' = [edit EXCEPT ![e] = [step |-> "checked", gen |-> generation]]
    /\ UNCHANGED <<dbVars, process, generation, lock, export, undo, unfreeze>>

(* Refused on its return: same_generation or not_frozen.                    *)
EditRefused(e) ==
    /\ ~Exclusive
    /\ edit[e].step = "away"
    /\ edit[e].gen # generation \/ frozen
    /\ edit' = [edit EXCEPT ![e] = NoEdit]
    /\ UNCHANGED <<dbVars, process, generation, lock, export, undo, unfreeze>>

EditWrite(e) ==
    /\ edit[e].step = "checked"
    /\ data < MaxEdits
    /\ data' = data + 1
    /\ edit' = [edit EXCEPT ![e] = NoEdit]
    /\ UNCHANGED <<frozen, pending, archive, process, generation, lock, export, undo,
                   unfreeze>>

(* The write is refused, the request is left, or MaxEdits is reached.       *)
EditAbandon(e) ==
    /\ edit[e].step # "idle"
    /\ edit' = [edit EXCEPT ![e] = NoEdit]
    /\ UNCHANGED <<dbVars, process, generation, lock, export, undo, unfreeze>>

------------------------------------------------------------------------------
(* One export.                                                              *)

Goto(x, step) == export' = [export EXCEPT ![x] = [@ EXCEPT !.step = step]]

(* The task returns an error before a freeze travels with an archive.       *)
Return(x) == export' = [export EXCEPT ![x] = NoExport] /\ lock' = FALSE

(* Faulty: a dropped archive only lets the lock go.                         *)
DropForgets(x) ==
    /\ export' = [export EXCEPT ![x] = NoExport]
    /\ lock' = FALSE /\ UNCHANGED undo

(* The archive is dropped, and with it a freeze the export set: FreezeUndo  *)
(* spawns the task that lifts it, which keeps the lock.                     *)
Drop(x) ==
    /\ export' = [export EXCEPT ![x] = NoExport]
    /\ IF export[x].froze
       THEN undo' = [step |-> "waiting", gen |-> export[x].gen] /\ UNCHANGED lock
       ELSE lock' = FALSE /\ UNCHANGED undo

(* The request: the passphrase opens the recovery wrap.                     *)
ExportBegin(x, freeze) ==
    /\ process = "serving"
    /\ export[x].step = "idle"
    /\ export' = [export EXCEPT ![x] = [NoExport EXCEPT !.step = "locking", !.freeze = freeze]]
    /\ UNCHANGED <<dbVars, process, generation, lock, edit, undo, unfreeze>>

ExportLock(x) ==
    /\ export[x].step = "locking"
    /\ ~lock /\ lock' = TRUE
    /\ Goto(x, "gating")
    /\ UNCHANGED <<dbVars, process, generation, edit, undo, unfreeze>>

(* The hold: exclusive to freeze, shared to copy.  The export is left if    *)
(* its requester has gone or is no administrator any more.                  *)
ExportGate(x) ==
    /\ export[x].step = "gating"
    /\ IF export[x].freeze THEN GateFree ELSE ~Exclusive
    /\ \/ Return(x)
       \/ /\ ~export[x].gone
          /\ export[x].freeze
          /\ export' = [export EXCEPT ![x] =
                [@ EXCEPT !.step = IF frozen THEN "copying" ELSE "marking", !.froze = ~frozen]]
          /\ UNCHANGED lock
       \/ ~export[x].gone /\ ~export[x].freeze /\ Goto(x, "sharing") /\ UNCHANGED lock
    /\ UNCHANGED <<dbVars, process, generation, edit, undo, unfreeze>>

ExportMark(x) ==
    /\ export[x].step = "marking"
    /\ \/ pending' = TRUE /\ Goto(x, "freezing") /\ UNCHANGED lock
       \/ WriteFails /\ Return(x) /\ UNCHANGED pending
    /\ UNCHANGED <<data, frozen, archive, process, generation, edit, undo, unfreeze>>

ExportFreeze(x) ==
    /\ export[x].step = "freezing"
    /\ \/ frozen' = TRUE /\ Goto(x, "copying") /\ UNCHANGED lock
       \/ WriteFails /\ Return(x) /\ UNCHANGED frozen
    /\ UNCHANGED <<data, pending, archive, process, generation, edit, undo, unfreeze>>

(* snapshot_verified, and the hold is let go; or it fails, and a freeze set *)
(* here is taken back under the hold, an error in that ignored.             *)
ExportCopy(x) ==
    /\ export[x].step \in {"copying", "sharing"}
    /\ \/ /\ export' = [export EXCEPT ![x] =
                [@ EXCEPT !.step = "packing", !.gen = generation, !.snap = data]]
          /\ UNCHANGED lock
       \/ /\ export[x].froze
          /\ Goto(x, "clearing") /\ UNCHANGED lock
       \/ ~export[x].froze /\ Return(x)
    /\ UNCHANGED <<dbVars, process, generation, edit, undo, unfreeze>>

ExportClear(x) ==
    /\ export[x].step = "clearing"
    /\ \/ frozen' = FALSE /\ archive' = None
       \/ WriteFails /\ UNCHANGED <<frozen, archive>>
    /\ Goto(x, "clearing_mark")
    /\ UNCHANGED <<data, pending, process, generation, lock, edit, undo, unfreeze>>

ExportClearMark(x) ==
    /\ export[x].step = "clearing_mark"
    /\ pending' = FALSE \/ (WriteFails /\ UNCHANGED pending)
    /\ Return(x)
    /\ UNCHANGED <<data, frozen, archive, process, generation, edit, undo, unfreeze>>

(* migrate::package, without the gate.                                      *)
ExportPackage(x) ==
    /\ export[x].step = "packing"
    /\ \/ Goto(x, "packed") /\ UNCHANGED <<lock, undo>>
       \/ Drop(x)
    /\ UNCHANGED <<dbVars, process, generation, edit, unfreeze>>

(* Faulty: the lock ends with the task although the freeze is not settled.  *)
ExportRecordUnlocks(x) ==
    /\ export[x].step = "packed"
    /\ ~Exclusive
    /\ \/ export[x].gone /\ Drop(x)
       \/ ~export[x].gone /\ Goto(x, "ready") /\ lock' = FALSE /\ UNCHANGED undo
    /\ UNCHANGED <<dbVars, process, generation, edit, unfreeze>>

(* The task's last hold.  Without a freeze of its own it lets the lock go.  *)
ExportRecord(x) ==
    /\ export[x].step = "packed"
    /\ ~Exclusive
    /\ \/ export[x].gone /\ Drop(x)
       \/ /\ ~export[x].gone
          /\ Goto(x, "ready")
          /\ lock' = (lock /\ export[x].froze)
          /\ UNCHANGED undo
    /\ UNCHANGED <<dbVars, process, generation, edit, unfreeze>>

(* Delivery::hand_over, in the request: the freeze stops being pending, in  *)
(* the database it was set in only, and is kept.  An error drops the        *)
(* delivery.                                                                *)
HandOver(x) ==
    LET mine == export[x].froze /\ export[x].gen = generation IN
    /\ export[x].step = "ready"
    /\ export[x].froze => ~Exclusive
    /\ \/ /\ pending' = (pending /\ ~mine)
          /\ archive' = IF mine /\ frozen THEN export[x].snap ELSE archive
          /\ export' = [export EXCEPT ![x] = NoExport]
          /\ lock' = (lock /\ ~export[x].froze)
          /\ UNCHANGED undo
       \/ WriteFails /\ mine /\ Drop(x) /\ UNCHANGED <<pending, archive>>
    /\ UNCHANGED <<data, frozen, process, generation, edit, unfreeze>>

(* The request ends early: Requester's drop.  A task goes on and finds out; *)
(* a delivery the task has returned is dropped with the request.  A task    *)
(* without a freeze has let the lock go by then.                            *)
ExportGone(x) ==
    /\ export[x].step # "idle" /\ ~export[x].gone
    /\ \/ /\ export[x].step # "ready"
          /\ export' = [export EXCEPT ![x] = [@ EXCEPT !.gone = TRUE]]
          /\ UNCHANGED <<lock, undo>>
       \/ export[x].step = "ready" /\ export[x].froze /\ Drop(x)
       \/ /\ export[x].step = "ready" /\ ~export[x].froze
          /\ export' = [export EXCEPT ![x] = NoExport]
          /\ UNCHANGED <<lock, undo>>
    /\ UNCHANGED <<dbVars, process, generation, edit, unfreeze>>

------------------------------------------------------------------------------
(* unfreeze_if_current, spawned by FreezeUndo's drop.                       *)

(* Faulty: the generation is compared the wrong way round.                  *)
UndoGateOther ==
    /\ undo.step = "waiting"
    /\ GateFree
    /\ \/ undo.gen # generation /\ undo' = [undo EXCEPT !.step = "lifting"] /\ UNCHANGED lock
       \/ undo.gen = generation /\ undo' = NoUndo /\ lock' = FALSE
    /\ UNCHANGED <<dbVars, process, generation, edit, export, unfreeze>>

UndoGate ==
    /\ undo.step = "waiting"
    /\ GateFree
    /\ \/ undo.gen = generation /\ undo' = [undo EXCEPT !.step = "lifting"] /\ UNCHANGED lock
       \/ undo.gen # generation /\ undo' = NoUndo /\ lock' = FALSE
    /\ UNCHANGED <<dbVars, process, generation, edit, export, unfreeze>>

UndoLift ==
    /\ undo.step = "lifting"
    /\ \/ /\ frozen' = FALSE /\ archive' = None
          /\ undo' = [undo EXCEPT !.step = "clearing_mark"]
          /\ UNCHANGED lock
       \/ WriteFails /\ undo' = NoUndo /\ lock' = FALSE /\ UNCHANGED <<frozen, archive>>
    /\ UNCHANGED <<data, pending, process, generation, edit, export, unfreeze>>

UndoClearMark ==
    /\ undo.step = "clearing_mark"
    /\ pending' = FALSE \/ (WriteFails /\ UNCHANGED pending)
    /\ undo' = NoUndo /\ lock' = FALSE
    /\ UNCHANGED <<data, frozen, archive, process, generation, edit, export, unfreeze>>

------------------------------------------------------------------------------
(* admin::unfreeze, an ordinary request under a shared hold.                *)

UnfreezeBegin ==
    /\ process = "serving" /\ ~Exclusive
    /\ unfreeze = "idle"
    /\ unfreeze' = "lifting"
    /\ UNCHANGED <<dbVars, process, generation, lock, edit, export, undo>>

UnfreezeLift ==
    /\ unfreeze = "lifting"
    /\ \/ frozen' = FALSE /\ archive' = None /\ unfreeze' = "clearing_mark"
       \/ WriteFails /\ unfreeze' = "idle" /\ UNCHANGED <<frozen, archive>>
    /\ UNCHANGED <<data, pending, process, generation, lock, edit, export, undo>>

UnfreezeClearMark ==
    /\ unfreeze = "clearing_mark"
    /\ pending' = FALSE \/ (WriteFails /\ UNCHANGED pending)
    /\ unfreeze' = "idle"
    /\ UNCHANGED <<data, frozen, archive, process, generation, lock, edit, export, undo>>

------------------------------------------------------------------------------
(* import_exclusive: the archive's database, its freeze cleared before the  *)
(* swap, and a new generation.  Nothing else has the gate meanwhile.        *)
Import(d) ==
    /\ process = "serving" /\ GateFree
    /\ generation < MaxGeneration
    /\ data' = d
    /\ frozen' = FALSE /\ pending' = FALSE /\ archive' = None
    /\ generation' = generation + 1
    /\ UNCHANGED <<process, lock, edit, export, undo, unfreeze>>

(* The process stops: every task goes, the database stays.                  *)
Stop ==
    /\ process # "stopped" /\ process' = "stopped"
    /\ generation' = 0 /\ lock' = FALSE
    /\ edit' = [e \in Editor |-> NoEdit]
    /\ export' = [x \in Exporter |-> NoExport]
    /\ undo' = NoUndo
    /\ unfreeze' = "idle"
    /\ UNCHANGED dbVars

(* App::for_serving: lift_stranded_freeze before anything is served.        *)
Start ==
    /\ process = "stopped"
    /\ \/ ~pending /\ process' = "serving" /\ UNCHANGED <<frozen, archive>>
       \/ pending /\ process' = "lifting" /\ frozen' = FALSE /\ archive' = None
    /\ UNCHANGED <<data, pending, generation, lock, edit, export, undo, unfreeze>>

StartClearMark ==
    /\ process = "lifting"
    /\ pending' = FALSE
    /\ process' = "serving"
    /\ UNCHANGED <<data, frozen, archive, generation, lock, edit, export, undo, unfreeze>>

------------------------------------------------------------------------------
EditNext(e) ==
    EditAway(e) \/ EditCheck(e) \/ EditRefused(e) \/ EditWrite(e) \/ EditAbandon(e)

(* What the task and its request do once begun, given time.                 *)
ExportStep(x) ==
    \/ ExportLock(x) \/ ExportGate(x) \/ ExportMark(x) \/ ExportFreeze(x) \/ ExportCopy(x)
    \/ ExportClear(x) \/ ExportClearMark(x) \/ ExportPackage(x) \/ ExportRecord(x)
    \/ HandOver(x)

ExportNext(x) ==
    ExportStep(x) \/ ExportGone(x) \/ \E freeze \in BOOLEAN : ExportBegin(x, freeze)

UndoNext == UndoGate \/ UndoLift \/ UndoClearMark
UnfreezeStep == UnfreezeLift \/ UnfreezeClearMark
ProcessNext == Stop \/ Start \/ StartClearMark

Next ==
    \/ \E e \in Editor : EditNext(e)
    \/ \E x \in Exporter : ExportNext(x)
    \/ UndoNext
    \/ UnfreezeBegin \/ UnfreezeStep
    \/ \E d \in 0..MaxEdits : Import(d)
    \/ ProcessNext

Spec == Init /\ [][Next]_vars

(* Every task and handler that is begun goes on; the gate's queue is first  *)
(* come first served (tokio's RwLock and Mutex), so who waits for it or for *)
(* the export lock gets it although others take it in between; a stopped    *)
(* service is started again.                                                *)
Fairness ==
    /\ \A e \in Editor : WF_vars(EditWrite(e) \/ EditAbandon(e))
    /\ \A x \in Exporter : SF_vars(ExportStep(x))
    /\ SF_vars(UndoNext)
    /\ WF_vars(UnfreezeStep)
    /\ WF_vars(Start \/ StartClearMark)

FairSpec == Spec /\ Fairness

------------------------------------------------------------------------------
(* Properties.                                                              *)

(* An export or its undo is about to settle the freeze in place: it set it  *)
(* in this database and holds the export lock.                              *)
Settles ==
    \/ \E x \in Exporter : export[x].froze /\
          \/ export[x].step \in {"copying", "clearing"}
          \/ export[x].step \in PackedStep /\ export[x].gen = generation
    \/ undo.step \in {"waiting", "lifting"} /\ undo.gen = generation

(* The supporting invariants of the proofs.                                 *)

(* An export holds the export lock from taking it until it is settled.      *)
HoldsLock(x) ==
    \/ export[x].step \in {"gating", "sharing", "packing", "packed"} \cup FreezingStep
    \/ export[x].step = "ready" /\ export[x].froze

(* One export or one undo has the lock.                                     *)
LockAlone ==
    /\ \A x \in Exporter : HoldsLock(x) => lock /\ undo.step = "idle"
    /\ \A x, y \in Exporter : HoldsLock(x) /\ HoldsLock(y) => x = y
    /\ undo.step # "idle" => lock

GateAlone == Exclusive => ~Shared

StoppedIsIdle ==
    process # "serving" =>
        /\ edit = [e \in Editor |-> NoEdit]
        /\ export = [x \in Exporter |-> NoExport]
        /\ undo = NoUndo /\ unfreeze = "idle"

CheckedIsOpen == \A e \in Editor : edit[e].step = "checked" => ~frozen

(* Of this database, and not handed over.                                   *)
Numbered ==
    /\ \A x \in Exporter : export[x].gen <= generation
    /\ undo.gen <= generation
    /\ undo.step = "lifting" => undo.gen = generation

Flags ==
    /\ ~frozen => archive = None
    /\ archive # None => ~pending

(* What an export that set the freeze knows of it.                          *)
FrozeHolds(x) ==
    /\ export[x].step \in {"marking", "freezing"} => ~frozen
    /\ export[x].step \in {"marking", "freezing", "clearing", "clearing_mark"} => export[x].froze
    /\ export[x].step \in {"idle", "locking", "gating", "sharing"} => ~export[x].froze
    /\ export[x].step \in {"copying", "clearing"} /\ export[x].froze => archive = None
    /\ export[x].step \in PackedStep /\ export[x].froze /\ export[x].gen = generation =>
          archive = None /\ (frozen => export[x].snap = data)

UndoHolds ==
    undo.step \in {"waiting", "lifting"} /\ undo.gen = generation => archive = None

FreezeInv ==
    /\ TypeOK /\ LockAlone /\ GateAlone /\ StoppedIsIdle /\ CheckedIsOpen /\ Numbered /\ Flags
    /\ \A x \in Exporter : FrozeHolds(x)
    /\ UndoHolds

(* With a store that does not fail: what is true while the two flags are    *)
(* being written.                                                           *)
Between ==
    /\ \A x \in Exporter :
          /\ export[x].step = "freezing" => pending
          /\ export[x].step = "clearing_mark" => ~frozen
    /\ undo.step = "clearing_mark" => ~frozen
    /\ unfreeze = "clearing_mark" => ~frozen
    /\ process = "lifting" => ~frozen

(* FreezeIsAccountedFor: with a store that does not fail, a freeze either   *)
(* was handed over with an archive that holds every edit there is, and will *)
(* survive a restart; or it is marked pending, so that a restart lifts it,  *)
(* and while the service runs some export or FreezeUndo will settle it.     *)
(* There is no third kind, whatever was cancelled, dropped or stopped.      *)
FreezeIsAccountedFor ==
    frozen => \/ ~pending /\ archive = data
              \/ pending /\ archive = None /\ (process = "serving" => Settles)

(* StrandedFreezeIsMarked: a freeze whose archive was not handed over is    *)
(* marked pending, so the next start lifts it (META_FREEZE_PENDING).        *)
StrandedFreezeIsMarked == frozen /\ archive = None => pending

(* ImplementsPromise: this is FreezePromise, a freeze being kept once an    *)
(* archive was handed over with it: no edit is acknowledged under a freeze, *)
(* the archive handed over misses none, and no failed, abandoned or stopped *)
(* export lifts a freeze that was kept.                                     *)
Promised == INSTANCE FreezePromise WITH
    freeze <- IF ~frozen THEN "open" ELSE IF archive = None THEN "pending" ELSE "kept",
    asked <- unfreeze # "idle"

ImplementsPromise == Promised!Promise

(* UndeliveredFreezeEnds: a freeze that is pending does not stay so: its    *)
(* archive is handed over or it is lifted, by its export, by FreezeUndo, by *)
(* an administrator, by an import, or when the service starts again.        *)
UndeliveredFreezeEnds == (frozen /\ pending) ~> ~(frozen /\ pending)

==============================================================================
