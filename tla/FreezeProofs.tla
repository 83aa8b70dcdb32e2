---------------------------- MODULE FreezeProofs -----------------------------
(****************************************************************************)
(* Proofs about Freeze, for any number of edits and exports at once, any    *)
(* bounds, and writes that fail or not: the types and the inductive         *)
(* invariant FreezeInv; that Freeze implements FreezePromise; and, where    *)
(* writes do not fail, that every freeze is accounted for.                  *)
(****************************************************************************)
EXTENDS Freeze, TLAPS

(* A step leaves every export but x alone.                                  *)
Moves(x) ==
    /\ export' \in [Exporter -> ExportState]
    /\ \A y \in Exporter : y # x => export'[y] = export[y]

(* It leaves what x knows of its freeze alone.                              *)
Keeps(x) ==
    /\ export'[x].froze = export[x].froze
    /\ export'[x].gen = export[x].gen
    /\ export'[x].snap = export[x].snap

(* GotoMoves: Goto changes one export's step and nothing else of it.        *)
LEMMA GotoMoves ==
    ASSUME TypeOK, NEW x \in Exporter, NEW s,
           s \in {"gating", "sharing"} \cup FreezingStep \cup PackedStep,
           Goto(x, s)
    PROVE  Moves(x) /\ Keeps(x) /\ export'[x].step = s
<1>1. export \in [Exporter -> ExportState] /\ export[x] \in ExportState
  BY DEF TypeOK
<1>2. [export[x] EXCEPT !.step = s] \in ExportState
  BY <1>1 DEF ExportState
<1>3. export'[x] = [export[x] EXCEPT !.step = s]
  BY <1>1 DEF Goto
<1>4. Moves(x)
  BY <1>1, <1>2 DEF Moves, Goto
<1> QED
  BY <1>1, <1>3, <1>4 DEF Keeps, ExportState

(* ResetMoves: an export that ends leaves nothing behind.                   *)
LEMMA ResetMoves ==
    ASSUME TypeOK, NEW x \in Exporter, export' = [export EXCEPT ![x] = NoExport]
    PROVE  Moves(x) /\ export'[x] = NoExport
<1>1. export \in [Exporter -> ExportState]
  BY DEF TypeOK
<1>2. NoExport \in ExportState
  BY DEF NoExport, ExportState
<1> QED
  BY <1>1, <1>2 DEF Moves

(* GateMoves: an export that takes its hold notes whether it freezes.       *)
LEMMA GateMoves ==
    ASSUME TypeOK, NEW x \in Exporter,
           export' = [export EXCEPT ![x] =
               [@ EXCEPT !.step = IF frozen THEN "copying" ELSE "marking", !.froze = ~frozen]]
    PROVE  /\ Moves(x)
           /\ export'[x].step = IF frozen THEN "copying" ELSE "marking"
           /\ export'[x].froze = ~frozen
           /\ export'[x].gen = export[x].gen
<1> DEFINE rec == [export[x] EXCEPT !.step = IF frozen THEN "copying" ELSE "marking",
                                    !.froze = ~frozen]
<1>1. export \in [Exporter -> ExportState] /\ export[x] \in ExportState /\ frozen \in BOOLEAN
  BY DEF TypeOK
<1>2. rec \in ExportState
  BY <1>1, Zenon DEF ExportState, FreezingStep
<1>3. export'[x] = rec
  BY <1>1
<1>4. Moves(x)
  BY <1>1, <1>2 DEF Moves
<1> QED
  BY <1>1, <1>3, <1>4 DEF ExportState

(* CopyMoves: an export that has its snapshot notes it and its database.    *)
LEMMA CopyMoves ==
    ASSUME TypeOK, NEW x \in Exporter,
           export' = [export EXCEPT ![x] =
               [@ EXCEPT !.step = "packing", !.gen = generation, !.snap = data]]
    PROVE  /\ Moves(x)
           /\ export'[x].step = "packing"
           /\ export'[x].froze = export[x].froze
           /\ export'[x].gen = generation
           /\ export'[x].snap = data
<1> DEFINE rec == [export[x] EXCEPT !.step = "packing", !.gen = generation, !.snap = data]
<1>1. export \in [Exporter -> ExportState] /\ export[x] \in ExportState
  BY DEF TypeOK
<1>2. rec \in ExportState
  BY <1>1, Zenon DEF ExportState, PackedStep, TypeOK
<1>3. export'[x] = rec
  BY <1>1
<1>4. Moves(x)
  BY <1>1, <1>2 DEF Moves
<1> QED
  BY <1>1, <1>3, <1>4 DEF ExportState

(* GoneMoves: an export whose request has gone only notes that.             *)
LEMMA GoneMoves ==
    ASSUME TypeOK, NEW x \in Exporter,
           export' = [export EXCEPT ![x] = [@ EXCEPT !.gone = TRUE]]
    PROVE  Moves(x) /\ Keeps(x) /\ export'[x].step = export[x].step
<1>1. export \in [Exporter -> ExportState] /\ export[x] \in ExportState
  BY DEF TypeOK
<1>2. [export[x] EXCEPT !.gone = TRUE] \in ExportState
  BY <1>1, Zenon DEF ExportState
<1>3. export'[x] = [export[x] EXCEPT !.gone = TRUE]
  BY <1>1
<1>4. Moves(x)
  BY <1>1, <1>2 DEF Moves
<1> QED
  BY <1>1, <1>3, <1>4 DEF Keeps, ExportState

(* BeginMoves: a new export has set no freeze.                              *)
LEMMA BeginMoves ==
    ASSUME TypeOK, NEW x \in Exporter, NEW f \in BOOLEAN,
           export' = [export EXCEPT ![x] =
               [NoExport EXCEPT !.step = "locking", !.freeze = f]]
    PROVE  /\ Moves(x)
           /\ export'[x].step = "locking"
           /\ export'[x].froze = FALSE
           /\ export'[x].gen = 0
<1> DEFINE rec == [NoExport EXCEPT !.step = "locking", !.freeze = f]
<1>1. export \in [Exporter -> ExportState]
  BY DEF TypeOK
<1>2. /\ rec \in ExportState
      /\ rec.step = "locking" /\ rec.froze = FALSE /\ rec.gen = 0
  BY Zenon DEF NoExport, ExportState
<1>3. export'[x] = rec
  BY <1>1
<1>4. Moves(x)
  BY <1>1, <1>2 DEF Moves
<1> QED
  BY <1>2, <1>3, <1>4, Zenon

(* ExportMoves: an export's step leaves the other exports alone.            *)
LEMMA ExportMoves ==
    ASSUME TypeOK, NEW x \in Exporter, ExportNext(x)
    PROVE  Moves(x)
<1> USE DEF FreezingStep, PackedStep, Return, Drop
<1>1. CASE ExportLock(x)
  BY <1>1, GotoMoves DEF ExportLock
<1>2. CASE ExportGate(x)
  BY <1>2, GotoMoves, GateMoves, ResetMoves, Zenon DEF ExportGate
<1>3. CASE ExportMark(x)
  BY <1>3, GotoMoves, ResetMoves DEF ExportMark
<1>4. CASE ExportFreeze(x)
  BY <1>4, GotoMoves, ResetMoves DEF ExportFreeze
<1>5. CASE ExportCopy(x)
  BY <1>5, GotoMoves, CopyMoves, ResetMoves, Zenon DEF ExportCopy
<1>6. CASE ExportClear(x)
  BY <1>6, GotoMoves DEF ExportClear
<1>7. CASE ExportClearMark(x)
  BY <1>7, ResetMoves, Zenon DEF ExportClearMark
<1>8. CASE ExportPackage(x)
  BY <1>8, GotoMoves, ResetMoves DEF ExportPackage
<1>9. CASE ExportRecord(x)
  BY <1>9, GotoMoves, ResetMoves DEF ExportRecord
<1>10. CASE HandOver(x)
  BY <1>10, ResetMoves DEF HandOver
<1>11. CASE ExportGone(x)
  BY <1>11, GoneMoves, ResetMoves DEF ExportGone
<1>12. ASSUME NEW f \in BOOLEAN, ExportBegin(x, f) PROVE Moves(x)
  BY <1>12, BeginMoves, Zenon DEF ExportBegin
<1> QED
  BY <1>1, <1>2, <1>3, <1>4, <1>5, <1>6, <1>7, <1>8, <1>9, <1>10, <1>11, <1>12
     DEF ExportNext, ExportStep

(* TypeStep: every step keeps the types.                                    *)
LEMMA TypeStep == TypeOK /\ [Next]_vars => TypeOK'
<1> SUFFICES ASSUME TypeOK, [Next]_vars PROVE TypeOK'
  OBVIOUS
<1> USE DEF dbVars, TypeOK
<1>1. ASSUME NEW e \in Editor, EditNext(e) PROVE TypeOK'
  BY <1>1 DEF EditNext, EditAway, EditCheck, EditRefused, EditWrite, EditAbandon, EditState, NoEdit
<1>2. ASSUME NEW x \in Exporter, ExportNext(x) PROVE TypeOK'
  <2>1. export' \in [Exporter -> ExportState]
    BY <1>2, ExportMoves DEF Moves
  <2>2. /\ export[x].gen \in Nat /\ export[x].snap \in Nat \cup {None}
        /\ export[x].froze \in BOOLEAN
    BY DEF ExportState
  <2>3. undo' = undo \/ undo' = [step |-> "waiting", gen |-> export[x].gen]
    BY <1>2, Zenon
       DEF ExportNext, ExportStep, ExportBegin, ExportLock, ExportGate, ExportMark, ExportFreeze,
           ExportCopy, ExportClear, ExportClearMark, ExportPackage, ExportRecord, HandOver,
           ExportGone, Drop
  <2>4. undo' \in UndoState
    BY <2>2, <2>3 DEF UndoState
  <2>5. /\ data' = data /\ process' = process /\ generation' = generation
        /\ edit' = edit /\ unfreeze' = unfreeze
    BY <1>2, Zenon
       DEF ExportNext, ExportStep, ExportBegin, ExportLock, ExportGate, ExportMark, ExportFreeze,
           ExportCopy, ExportClear, ExportClearMark, ExportPackage, ExportRecord, HandOver,
           ExportGone
  <2>6. /\ frozen' \in BOOLEAN /\ pending' \in BOOLEAN /\ lock' \in BOOLEAN
        /\ archive' \in Nat \cup {None}
    BY <1>2, <2>2, Zenon
       DEF ExportNext, ExportStep, ExportBegin, ExportLock, ExportGate, ExportMark, ExportFreeze,
           ExportCopy, ExportClear, ExportClearMark, ExportPackage, ExportRecord, HandOver,
           ExportGone, Return, Drop
  <2> QED
    BY <2>1, <2>4, <2>5, <2>6
<1>3. CASE UndoNext
  <2>1. undo' \in UndoState
    BY <1>3 DEF UndoNext, UndoGate, UndoLift, UndoClearMark, UndoState, NoUndo
  <2> QED
    BY <1>3, <2>1, Zenon DEF UndoNext, UndoGate, UndoLift, UndoClearMark
<1>4. CASE UnfreezeBegin \/ UnfreezeStep
  BY <1>4, Zenon DEF UnfreezeBegin, UnfreezeStep, UnfreezeLift, UnfreezeClearMark
<1>5. ASSUME NEW d \in 0..MaxEdits, Import(d) PROVE TypeOK'
  <2>1. d \in Nat
    BY FreezeAssumption
  <2>2. data' \in Nat /\ generation' \in Nat
    BY <1>5, <2>1 DEF Import
  <2>3. /\ frozen' \in BOOLEAN /\ pending' \in BOOLEAN /\ archive' = None
        /\ UNCHANGED <<process, lock, edit, export, undo, unfreeze>>
    BY <1>5, Zenon DEF Import
  <2> QED
    BY <2>2, <2>3
<1>6. CASE ProcessNext
  <2>1. NoExport \in ExportState /\ NoEdit \in EditState /\ NoUndo \in UndoState
    BY DEF NoExport, ExportState, NoEdit, EditState, NoUndo, UndoState
  <2>2. CASE Stop
    BY <2>1, <2>2, Zenon DEF Stop
  <2>3. CASE Start
    BY <2>3, Zenon DEF Start
  <2>4. CASE StartClearMark
    BY <2>4, Zenon DEF StartClearMark
  <2> QED
    BY <1>6, <2>2, <2>3, <2>4 DEF ProcessNext
<1>7. CASE UNCHANGED vars
  BY <1>7 DEF vars
<1> QED
  BY <1>1, <1>2, <1>3, <1>4, <1>5, <1>6, <1>7 DEF Next

(* The freeze of an archive that was dropped is its undo's; without one the *)
(* lock is let go.                                                          *)
Dropped(x) ==
    \/ /\ export[x].froze /\ lock' = lock
       /\ undo'.step = "waiting" /\ undo'.gen = export[x].gen
    \/ ~export[x].froze /\ lock' = FALSE /\ undo' = undo

(* An export's step in one view: x moves on to s, or ends.                  *)
Became(x, s) == Moves(x) /\ Keeps(x) /\ export'[x].step = s

Ended(x) ==
    /\ Moves(x)
    /\ export'[x].step = "idle" /\ export'[x].froze = FALSE /\ export'[x].gen = 0

(* EndedMoves: an export that ends has set no freeze.                       *)
LEMMA EndedMoves ==
    ASSUME TypeOK, NEW x \in Exporter, export' = [export EXCEPT ![x] = NoExport]
    PROVE  Ended(x)
<1>1. Moves(x) /\ export'[x] = NoExport
  BY ResetMoves, Zenon
<1>2. NoExport.step = "idle" /\ NoExport.froze = FALSE /\ NoExport.gen = 0
  BY DEF NoExport
<1> QED
  BY <1>1, <1>2 DEF Ended

(* BecameMoves: an export that goes on.                                     *)
LEMMA BecameMoves ==
    ASSUME TypeOK, NEW x \in Exporter, NEW s,
           s \in {"gating", "sharing"} \cup FreezingStep \cup PackedStep,
           Goto(x, s)
    PROVE  Became(x, s)
  BY GotoMoves DEF Became

(* GoneBecomes: an export whose request has gone goes on.                   *)
LEMMA GoneBecomes ==
    ASSUME TypeOK, NEW x \in Exporter,
           export' = [export EXCEPT ![x] = [@ EXCEPT !.gone = TRUE]]
    PROVE  Became(x, export[x].step)
  BY GoneMoves, Zenon DEF Became

(* DropEnds: a dropped archive ends its export, and lifts its freeze or     *)
(* lets the lock go.                                                        *)
LEMMA DropEnds ==
    ASSUME TypeOK, NEW x \in Exporter, Drop(x)
    PROVE  Ended(x) /\ Dropped(x)
<1>1. Ended(x)
  BY EndedMoves, Zenon DEF Drop
<1>2. Dropped(x)
  BY DEF Drop, Dropped
<1> QED
  BY <1>1, <1>2

(* ReturnEnds: an error before that lets the lock go.                       *)
LEMMA ReturnEnds ==
    ASSUME TypeOK, NEW x \in Exporter, Return(x)
    PROVE  Ended(x) /\ lock' = FALSE
<1>1. Ended(x)
  BY EndedMoves, Zenon DEF Return
<1> QED
  BY <1>1 DEF Return

(* Running: while an export is under way the service runs.                  *)
LEMMA Running ==
    ASSUME FreezeInv, NEW x \in Exporter, export[x].step # "idle"
    PROVE  process = "serving"
<1>1. NoExport.step = "idle"
  BY DEF NoExport
<1> QED
  BY <1>1 DEF FreezeInv, StoppedIsIdle, TypeOK

(* ExportInv: an export's step keeps the invariant.                         *)
LEMMA ExportInv ==
    ASSUME FreezeInv, TypeOK', NEW x \in Exporter, ExportNext(x)
    PROVE  FreezeInv'
<1> USE DEF FreezingStep, PackedStep
<1>0. TypeOK /\ export[x] \in ExportState
  BY DEF FreezeInv, TypeOK
<1>1. CASE ExportLock(x)
  <2>a1. Goto(x, "gating") => Became(x, "gating")
    BY <1>0, BecameMoves
  <2>1. Became(x, "gating")
    BY <1>1, <2>a1 DEF ExportLock
  <2>2. process = "serving"
    BY <1>1, Running DEF ExportLock
  <2> USE DEF Became, Ended, Moves, Keeps
  <2>3. LockAlone'
    BY <1>1, <2>1 DEF ExportLock, FreezeInv, LockAlone, HoldsLock, FrozeHolds
  <2>4. GateAlone'
    BY <1>1, <2>1 DEF ExportLock, FreezeInv, GateAlone, Exclusive, Shared, GateFree, LockAlone,
                  HoldsLock
  <2>5. StoppedIsIdle'
    BY <1>1, <2>2 DEF ExportLock, StoppedIsIdle
  <2>6. CheckedIsOpen'
    BY <1>1 DEF ExportLock, FreezeInv, CheckedIsOpen, GateAlone, Exclusive, Shared, dbVars
  <2>7. Flags'
    BY <1>1 DEF ExportLock, FreezeInv, Flags, FrozeHolds, dbVars
  <2>8. Numbered'
    BY <1>1, <1>0, <2>1 DEF ExportLock, FreezeInv, Numbered, TypeOK, ExportState, UndoState
  <2>9. UndoHolds'
    BY <1>1, <2>1 DEF ExportLock, FreezeInv, UndoHolds, LockAlone, HoldsLock, FrozeHolds, dbVars
  <2>10. \A y \in Exporter : FrozeHolds(y)'
    BY <1>1, <1>0, <2>1 DEF ExportLock, FreezeInv, FrozeHolds, LockAlone, HoldsLock, Flags, dbVars
  <2> QED
    BY <2>3, <2>4, <2>5, <2>6, <2>7, <2>8, <2>9, <2>10 DEF FreezeInv
<1>2. CASE ExportGate(x)
  <2>a1. Goto(x, "sharing") => Became(x, "sharing")
    BY <1>0, BecameMoves
  <2>a2. Return(x) => Ended(x) /\ lock' = FALSE
    BY <1>0, ReturnEnds, Zenon
  <2>1. \/ Ended(x) /\ lock' = FALSE
        \/ Became(x, "sharing") /\ lock' = lock /\ ~Exclusive /\ ~export[x].freeze
        \/ /\ Moves(x) /\ lock' = lock /\ GateFree
           /\ export'[x].step = IF frozen THEN "copying" ELSE "marking"
           /\ export'[x].froze = ~frozen /\ export'[x].gen = export[x].gen
    BY <1>2, <2>a1, <2>a2, <1>0, GateMoves, Zenon DEF ExportGate
  <2>2. process = "serving"
    BY <1>2, Running DEF ExportGate
  <2> USE DEF Became, Ended, Moves, Keeps
  <2>3. LockAlone'
    BY <1>2, <2>1 DEF ExportGate, FreezeInv, LockAlone, HoldsLock, FrozeHolds
  <2>4. GateAlone'
    BY <1>2, <2>1 DEF ExportGate, FreezeInv, GateAlone, Exclusive, Shared, GateFree, LockAlone,
                  HoldsLock
  <2>5. StoppedIsIdle'
    BY <1>2, <2>2 DEF ExportGate, StoppedIsIdle
  <2>6. CheckedIsOpen'
    BY <1>2 DEF ExportGate, FreezeInv, CheckedIsOpen, GateAlone, Exclusive, Shared, dbVars
  <2>7. Flags'
    BY <1>2 DEF ExportGate, FreezeInv, Flags, FrozeHolds, dbVars
  <2>8. Numbered'
    BY <1>2, <1>0, <2>1 DEF ExportGate, FreezeInv, Numbered, TypeOK, ExportState, UndoState
  <2>9. UndoHolds'
    BY <1>2, <2>1 DEF ExportGate, FreezeInv, UndoHolds, LockAlone, HoldsLock, FrozeHolds, dbVars
  <2>10. \A y \in Exporter : FrozeHolds(y)'
    <3>1. UNCHANGED <<frozen, pending, archive, data, generation>>
      BY <1>2 DEF ExportGate, dbVars
    <3>2. \A y \in Exporter : y # x => FrozeHolds(y)'
      BY <2>1, <3>1 DEF FreezeInv, FrozeHolds
    <3>3. FrozeHolds(x)'
      BY <1>2, <1>0, <2>1, Zenon DEF ExportGate, FreezeInv, FrozeHolds, Flags, dbVars
    <3> QED
      BY <3>2, <3>3
  <2> QED
    BY <2>3, <2>4, <2>5, <2>6, <2>7, <2>8, <2>9, <2>10 DEF FreezeInv
<1>3. CASE ExportMark(x)
  <2>a1. Goto(x, "freezing") => Became(x, "freezing")
    BY <1>0, BecameMoves
  <2>a2. Return(x) => Ended(x) /\ lock' = FALSE
    BY <1>0, ReturnEnds, Zenon
  <2>1. \/ Became(x, "freezing") /\ lock' = lock
        \/ Ended(x) /\ lock' = FALSE
    BY <1>3, <2>a1, <2>a2 DEF ExportMark
  <2>2. process = "serving"
    BY <1>3, Running DEF ExportMark
  <2> USE DEF Became, Ended, Moves, Keeps
  <2>3. LockAlone'
    BY <1>3, <2>1 DEF ExportMark, FreezeInv, LockAlone, HoldsLock, FrozeHolds
  <2>4. GateAlone'
    BY <1>3, <2>1 DEF ExportMark, FreezeInv, GateAlone, Exclusive, Shared, GateFree, LockAlone,
                  HoldsLock
  <2>5. StoppedIsIdle'
    BY <1>3, <2>2 DEF ExportMark, StoppedIsIdle
  <2>6. CheckedIsOpen'
    BY <1>3 DEF ExportMark, FreezeInv, CheckedIsOpen, GateAlone, Exclusive, Shared, dbVars
  <2>7. Flags'
    BY <1>3 DEF ExportMark, FreezeInv, Flags, FrozeHolds, dbVars
  <2>8. Numbered'
    BY <1>3, <1>0, <2>1 DEF ExportMark, FreezeInv, Numbered, TypeOK, ExportState, UndoState
  <2>9. UndoHolds'
    BY <1>3, <2>1 DEF ExportMark, FreezeInv, UndoHolds, LockAlone, HoldsLock, FrozeHolds, dbVars
  <2>10. \A y \in Exporter : FrozeHolds(y)'
    BY <1>3, <1>0, <2>1 DEF ExportMark, FreezeInv, FrozeHolds, LockAlone, HoldsLock, Flags, dbVars
  <2> QED
    BY <2>3, <2>4, <2>5, <2>6, <2>7, <2>8, <2>9, <2>10 DEF FreezeInv
<1>4. CASE ExportFreeze(x)
  <2>a1. Goto(x, "copying") => Became(x, "copying")
    BY <1>0, BecameMoves
  <2>a2. Return(x) => Ended(x) /\ lock' = FALSE
    BY <1>0, ReturnEnds, Zenon
  <2>1. \/ Became(x, "copying") /\ lock' = lock
        \/ Ended(x) /\ lock' = FALSE
    BY <1>4, <2>a1, <2>a2 DEF ExportFreeze
  <2>2. process = "serving"
    BY <1>4, Running DEF ExportFreeze
  <2> USE DEF Became, Ended, Moves, Keeps
  <2>3. LockAlone'
    BY <1>4, <2>1 DEF ExportFreeze, FreezeInv, LockAlone, HoldsLock, FrozeHolds
  <2>4. GateAlone'
    BY <1>4, <2>1 DEF ExportFreeze, FreezeInv, GateAlone, Exclusive, Shared, GateFree, LockAlone,
                  HoldsLock
  <2>5. StoppedIsIdle'
    BY <1>4, <2>2 DEF ExportFreeze, StoppedIsIdle
  <2>6. CheckedIsOpen'
    BY <1>4 DEF ExportFreeze, FreezeInv, CheckedIsOpen, GateAlone, Exclusive, Shared, dbVars
  <2>7. Flags'
    BY <1>4 DEF ExportFreeze, FreezeInv, Flags, FrozeHolds, dbVars
  <2>8. Numbered'
    BY <1>4, <1>0, <2>1 DEF ExportFreeze, FreezeInv, Numbered, TypeOK, ExportState, UndoState
  <2>9. UndoHolds'
    BY <1>4, <2>1 DEF ExportFreeze, FreezeInv, UndoHolds, LockAlone, HoldsLock, FrozeHolds, dbVars
  <2>10. \A y \in Exporter : FrozeHolds(y)'
    BY <1>4, <1>0, <2>1 DEF ExportFreeze, FreezeInv, FrozeHolds, LockAlone, HoldsLock, Flags, dbVars
  <2> QED
    BY <2>3, <2>4, <2>5, <2>6, <2>7, <2>8, <2>9, <2>10 DEF FreezeInv
<1>5. CASE ExportCopy(x)
  <2>a1. Goto(x, "clearing") => Became(x, "clearing")
    BY <1>0, BecameMoves
  <2>a2. Return(x) => Ended(x) /\ lock' = FALSE
    BY <1>0, ReturnEnds, Zenon
  <2>1. \/ /\ Moves(x) /\ lock' = lock /\ export'[x].step = "packing"
           /\ export'[x].froze = export[x].froze
           /\ export'[x].gen = generation /\ export'[x].snap = data
        \/ Became(x, "clearing") /\ lock' = lock /\ export[x].froze
        \/ Ended(x) /\ lock' = FALSE /\ ~export[x].froze
    BY <1>5, <2>a1, <2>a2, <1>0, CopyMoves, Zenon DEF ExportCopy
  <2>2. process = "serving"
    BY <1>5, Running DEF ExportCopy
  <2> USE DEF Became, Ended, Moves, Keeps
  <2>3. LockAlone'
    BY <1>5, <2>1 DEF ExportCopy, FreezeInv, LockAlone, HoldsLock, FrozeHolds
  <2>4. GateAlone'
    BY <1>5, <2>1 DEF ExportCopy, FreezeInv, GateAlone, Exclusive, Shared, GateFree, LockAlone,
                  HoldsLock, FrozeHolds
  <2>5. StoppedIsIdle'
    BY <1>5, <2>2 DEF ExportCopy, StoppedIsIdle
  <2>6. CheckedIsOpen'
    BY <1>5 DEF ExportCopy, FreezeInv, CheckedIsOpen, GateAlone, Exclusive, Shared, dbVars
  <2>7. Flags'
    BY <1>5 DEF ExportCopy, FreezeInv, Flags, FrozeHolds, dbVars
  <2>8. Numbered'
    BY <1>5, <1>0, <2>1 DEF ExportCopy, FreezeInv, Numbered, TypeOK, ExportState, UndoState
  <2>9. UndoHolds'
    BY <1>5, <2>1 DEF ExportCopy, FreezeInv, UndoHolds, LockAlone, HoldsLock, FrozeHolds, dbVars
  <2>10. \A y \in Exporter : FrozeHolds(y)'
    BY <1>5, <1>0, <2>1 DEF ExportCopy, FreezeInv, FrozeHolds, LockAlone, HoldsLock, Flags, dbVars
  <2> QED
    BY <2>3, <2>4, <2>5, <2>6, <2>7, <2>8, <2>9, <2>10 DEF FreezeInv
<1>6. CASE ExportClear(x)
  <2>a1. Goto(x, "clearing_mark") => Became(x, "clearing_mark")
    BY <1>0, BecameMoves
  <2>1. Became(x, "clearing_mark") /\ lock' = lock
    BY <1>6, <2>a1 DEF ExportClear
  <2>2. process = "serving"
    BY <1>6, Running DEF ExportClear
  <2> USE DEF Became, Ended, Moves, Keeps
  <2>3. LockAlone'
    BY <1>6, <2>1 DEF ExportClear, FreezeInv, LockAlone, HoldsLock, FrozeHolds
  <2>4. GateAlone'
    BY <1>6, <2>1 DEF ExportClear, FreezeInv, GateAlone, Exclusive, Shared, GateFree, LockAlone,
                  HoldsLock
  <2>5. StoppedIsIdle'
    BY <1>6, <2>2 DEF ExportClear, StoppedIsIdle
  <2>6. CheckedIsOpen'
    BY <1>6 DEF ExportClear, FreezeInv, CheckedIsOpen, GateAlone, Exclusive, Shared, dbVars
  <2>7. Flags'
    BY <1>6 DEF ExportClear, FreezeInv, Flags, FrozeHolds, dbVars
  <2>8. Numbered'
    BY <1>6, <1>0, <2>1 DEF ExportClear, FreezeInv, Numbered, TypeOK, ExportState, UndoState
  <2>9. UndoHolds'
    BY <1>6, <2>1 DEF ExportClear, FreezeInv, UndoHolds, LockAlone, HoldsLock, FrozeHolds, dbVars
  <2>10. \A y \in Exporter : FrozeHolds(y)'
    BY <1>6, <1>0, <2>1 DEF ExportClear, FreezeInv, FrozeHolds, LockAlone, HoldsLock, Flags, dbVars
  <2> QED
    BY <2>3, <2>4, <2>5, <2>6, <2>7, <2>8, <2>9, <2>10 DEF FreezeInv
<1>7. CASE ExportClearMark(x)
  <2>a1. Return(x) => Ended(x) /\ lock' = FALSE
    BY <1>0, ReturnEnds, Zenon
  <2>1. Ended(x) /\ lock' = FALSE
    BY <1>7, <2>a1 DEF ExportClearMark
  <2>2. process = "serving"
    BY <1>7, Running DEF ExportClearMark
  <2> USE DEF Became, Ended, Moves, Keeps
  <2>3. LockAlone'
    BY <1>7, <2>1 DEF ExportClearMark, FreezeInv, LockAlone, HoldsLock, FrozeHolds
  <2>4. GateAlone'
    BY <1>7, <2>1 DEF ExportClearMark, FreezeInv, GateAlone, Exclusive, Shared, GateFree, LockAlone,
                  HoldsLock
  <2>5. StoppedIsIdle'
    BY <1>7, <2>2 DEF ExportClearMark, StoppedIsIdle
  <2>6. CheckedIsOpen'
    BY <1>7 DEF ExportClearMark, FreezeInv, CheckedIsOpen, GateAlone, Exclusive, Shared, dbVars
  <2>7. Flags'
    BY <1>7 DEF ExportClearMark, FreezeInv, Flags, FrozeHolds, dbVars
  <2>8. Numbered'
    BY <1>7, <1>0, <2>1 DEF ExportClearMark, FreezeInv, Numbered, TypeOK, ExportState, UndoState
  <2>9. UndoHolds'
    BY <1>7, <2>1
       DEF ExportClearMark, FreezeInv, UndoHolds, LockAlone, HoldsLock, FrozeHolds, dbVars
  <2>10. \A y \in Exporter : FrozeHolds(y)'
    BY <1>7, <1>0, <2>1
       DEF ExportClearMark, FreezeInv, FrozeHolds, LockAlone, HoldsLock, Flags, dbVars
  <2> QED
    BY <2>3, <2>4, <2>5, <2>6, <2>7, <2>8, <2>9, <2>10 DEF FreezeInv
<1>8. CASE ExportPackage(x)
  <2>a1. Goto(x, "packed") => Became(x, "packed")
    BY <1>0, BecameMoves
  <2>a2. Drop(x) => Ended(x) /\ Dropped(x)
    BY <1>0, DropEnds
  <2>1. \/ Became(x, "packed") /\ lock' = lock /\ undo' = undo
        \/ Ended(x) /\ Dropped(x)
    BY <1>8, <2>a1, <2>a2 DEF ExportPackage
  <2>2. process = "serving"
    BY <1>8, Running DEF ExportPackage
  <2> USE DEF Became, Ended, Moves, Keeps
  <2>3. LockAlone'
    BY <1>8, <2>1 DEF ExportPackage, FreezeInv, LockAlone, HoldsLock, FrozeHolds, Dropped
  <2>4. GateAlone'
    BY <1>8, <2>1 DEF ExportPackage, FreezeInv, GateAlone, Exclusive, Shared, GateFree, LockAlone,
                  HoldsLock, Dropped
  <2>5. StoppedIsIdle'
    BY <1>8, <2>2 DEF ExportPackage, StoppedIsIdle
  <2>6. CheckedIsOpen'
    BY <1>8 DEF ExportPackage, FreezeInv, CheckedIsOpen, GateAlone, Exclusive, Shared, dbVars
  <2>7. Flags'
    BY <1>8 DEF ExportPackage, FreezeInv, Flags, FrozeHolds, dbVars
  <2>8. Numbered'
    BY <1>8, <1>0, <2>1
       DEF ExportPackage, FreezeInv, Numbered, TypeOK, ExportState, UndoState, Dropped
  <2>9. UndoHolds'
    BY <1>8, <2>1
       DEF ExportPackage, FreezeInv, UndoHolds, LockAlone, HoldsLock, FrozeHolds, dbVars, Dropped
  <2>10. \A y \in Exporter : FrozeHolds(y)'
    BY <1>8, <1>0, <2>1
       DEF ExportPackage, FreezeInv, FrozeHolds, LockAlone, HoldsLock, Flags, dbVars
  <2> QED
    BY <2>3, <2>4, <2>5, <2>6, <2>7, <2>8, <2>9, <2>10 DEF FreezeInv
<1>9. CASE ExportRecord(x)
  <2>a1. Goto(x, "ready") => Became(x, "ready")
    BY <1>0, BecameMoves
  <2>a2. Drop(x) => Ended(x) /\ Dropped(x)
    BY <1>0, DropEnds
  <2>1. \/ Became(x, "ready") /\ lock' = (lock /\ export[x].froze) /\ undo' = undo
        \/ Ended(x) /\ Dropped(x)
    BY <1>9, <2>a1, <2>a2 DEF ExportRecord
  <2>2. process = "serving"
    BY <1>9, Running DEF ExportRecord
  <2> USE DEF Became, Ended, Moves, Keeps
  <2>3. LockAlone'
    BY <1>9, <2>1, Zenon DEF ExportRecord, FreezeInv, LockAlone, HoldsLock, FrozeHolds, Dropped
  <2>4. GateAlone'
    BY <1>9, <2>1 DEF ExportRecord, FreezeInv, GateAlone, Exclusive, Shared, GateFree, LockAlone,
                  HoldsLock, Dropped
  <2>5. StoppedIsIdle'
    BY <1>9, <2>2 DEF ExportRecord, StoppedIsIdle
  <2>6. CheckedIsOpen'
    BY <1>9 DEF ExportRecord, FreezeInv, CheckedIsOpen, GateAlone, Exclusive, Shared, dbVars
  <2>7. Flags'
    BY <1>9 DEF ExportRecord, FreezeInv, Flags, FrozeHolds, dbVars
  <2>8. Numbered'
    BY <1>9, <1>0, <2>1
       DEF ExportRecord, FreezeInv, Numbered, TypeOK, ExportState, UndoState, Dropped
  <2>9. UndoHolds'
    BY <1>9, <2>1
       DEF ExportRecord, FreezeInv, UndoHolds, LockAlone, HoldsLock, FrozeHolds, dbVars, Dropped
  <2>10. \A y \in Exporter : FrozeHolds(y)'
    BY <1>9, <1>0, <2>1 DEF ExportRecord, FreezeInv, FrozeHolds, LockAlone, HoldsLock, Flags, dbVars
  <2> QED
    BY <2>3, <2>4, <2>5, <2>6, <2>7, <2>8, <2>9, <2>10 DEF FreezeInv
<1>10. CASE HandOver(x)
  <2>a1. Drop(x) => Ended(x) /\ Dropped(x)
    BY <1>0, DropEnds
  <2>a2. export' = [export EXCEPT ![x] = NoExport] => Ended(x)
    BY <1>0, EndedMoves, Zenon
  <2>1. \/ Ended(x) /\ lock' = (lock /\ ~export[x].froze) /\ undo' = undo
        \/ export[x].froze /\ Ended(x) /\ Dropped(x) /\ pending' = pending /\ archive' = archive
    BY <1>10, <2>a1, <2>a2 DEF HandOver
  <2>2. process = "serving"
    BY <1>10, Running DEF HandOver
  <2> USE DEF Became, Ended, Moves, Keeps
  <2>b. LockAlone /\ export[x].step = "ready" /\ FrozeHolds(x)
    BY <1>10 DEF HandOver, FreezeInv
  <2>c. ~HoldsLock(x)'
    BY <2>1 DEF HoldsLock, FreezingStep, NoExport
  <2>d. \A y \in Exporter : y # x => (HoldsLock(y)' <=> HoldsLock(y))
    BY <2>1 DEF HoldsLock
  <2>3. LockAlone'
    <3>1. CASE export[x].froze
      BY <2>1, <2>b, <2>c, <2>d, <3>1 DEF LockAlone, HoldsLock, Dropped
    <3>2. CASE ~export[x].froze
      BY <2>1, <2>b, <2>c, <2>d, <3>2, Zenon DEF LockAlone
    <3>3. QED
      BY <3>1, <3>2
  <2>4. GateAlone'
    BY <1>10, <2>1 DEF HandOver, FreezeInv, GateAlone, Exclusive, Shared, GateFree, LockAlone,
                  HoldsLock, Dropped
  <2>5. StoppedIsIdle'
    BY <1>10, <2>2 DEF HandOver, StoppedIsIdle
  <2>6. CheckedIsOpen'
    BY <1>10 DEF HandOver, FreezeInv, CheckedIsOpen, GateAlone, Exclusive, Shared, dbVars
  <2>7. Flags'
    BY <1>10, Zenon DEF HandOver, FreezeInv, Flags, FrozeHolds, dbVars
  <2>8. Numbered'
    BY <1>10, <1>0, <2>1 DEF HandOver, FreezeInv, Numbered, TypeOK, ExportState, UndoState, Dropped
  <2>9. UndoHolds'
    BY <1>10, <2>1
       DEF HandOver, FreezeInv, UndoHolds, LockAlone, HoldsLock, FrozeHolds, dbVars, Dropped
  <2>10. \A y \in Exporter : FrozeHolds(y)'
    BY <1>10, <1>0, <2>1 DEF HandOver, FreezeInv, FrozeHolds, LockAlone, HoldsLock, Flags, dbVars
  <2> QED
    BY <2>3, <2>4, <2>5, <2>6, <2>7, <2>8, <2>9, <2>10 DEF FreezeInv
<1>11. CASE ExportGone(x)
  <2>a1. Drop(x) => Ended(x) /\ Dropped(x)
    BY <1>0, DropEnds
  <2>a2. export' = [export EXCEPT ![x] = NoExport] => Ended(x)
    BY <1>0, EndedMoves, Zenon
  <2>a3. export' = [export EXCEPT ![x] = [@ EXCEPT !.gone = TRUE]] => Became(x, export[x].step)
    BY <1>0, GoneBecomes, Zenon
  <2>1. \/ Became(x, export[x].step) /\ lock' = lock /\ undo' = undo
        \/ export[x].step = "ready" /\ Ended(x) /\ lock' = lock /\ undo' = undo /\ ~export[x].froze
        \/ export[x].step = "ready" /\ Ended(x) /\ Dropped(x)
    BY <1>11, <2>a1, <2>a2, <2>a3 DEF ExportGone
  <2>2. process = "serving"
    BY <1>11, Running DEF ExportGone
  <2> USE DEF Became, Ended, Moves, Keeps
  <2>3. LockAlone'
    BY <1>11, <2>1 DEF ExportGone, FreezeInv, LockAlone, HoldsLock, FrozeHolds, Dropped
  <2>4. GateAlone'
    BY <1>11, <2>1 DEF ExportGone, FreezeInv, GateAlone, Exclusive, Shared, GateFree, LockAlone,
                  HoldsLock, Dropped
  <2>5. StoppedIsIdle'
    BY <1>11, <2>2 DEF ExportGone, StoppedIsIdle
  <2>6. CheckedIsOpen'
    BY <1>11 DEF ExportGone, FreezeInv, CheckedIsOpen, GateAlone, Exclusive, Shared, dbVars
  <2>7. Flags'
    BY <1>11 DEF ExportGone, FreezeInv, Flags, FrozeHolds, dbVars
  <2>8. Numbered'
    BY <1>11, <1>0, <2>1
       DEF ExportGone, FreezeInv, Numbered, TypeOK, ExportState, UndoState, Dropped
  <2>9. UndoHolds'
    BY <1>11, <2>1
       DEF ExportGone, FreezeInv, UndoHolds, LockAlone, HoldsLock, FrozeHolds, dbVars, Dropped
  <2>10. \A y \in Exporter : FrozeHolds(y)'
    BY <1>11, <1>0, <2>1 DEF ExportGone, FreezeInv, FrozeHolds, LockAlone, HoldsLock, Flags, dbVars
  <2> QED
    BY <2>3, <2>4, <2>5, <2>6, <2>7, <2>8, <2>9, <2>10 DEF FreezeInv
<1>12. ASSUME NEW f \in BOOLEAN, ExportBegin(x, f) PROVE FreezeInv'
  <2>1. /\ Moves(x) /\ export'[x].step = "locking"
        /\ export'[x].froze = FALSE /\ export'[x].gen = 0
    BY <1>12, <1>0, BeginMoves, Zenon DEF ExportBegin
  <2> USE DEF Moves
  <2>2. LockAlone'
    BY <1>12, <2>1 DEF ExportBegin, FreezeInv, LockAlone, HoldsLock
  <2>3. GateAlone' /\ StoppedIsIdle' /\ CheckedIsOpen' /\ Flags' /\ UndoHolds'
    BY <1>12, <2>1 DEF ExportBegin, FreezeInv, GateAlone, Exclusive, Shared, StoppedIsIdle,
                       CheckedIsOpen, Flags, UndoHolds, dbVars
  <2>4. Numbered'
    BY <1>12, <1>0, <2>1 DEF ExportBegin, FreezeInv, Numbered, TypeOK
  <2>5. \A y \in Exporter : FrozeHolds(y)'
    BY <1>12, <2>1 DEF ExportBegin, FreezeInv, FrozeHolds, dbVars
  <2> QED
    BY <2>2, <2>3, <2>4, <2>5 DEF FreezeInv
<1> QED
  BY <1>1, <1>2, <1>3, <1>4, <1>5, <1>6, <1>7, <1>8, <1>9, <1>10, <1>11, <1>12
     DEF ExportNext, ExportStep

(* EditInv: an edit's step keeps the invariant: it checks and writes while  *)
(* nothing holds the gate exclusively.                                      *)
LEMMA EditInv ==
    ASSUME FreezeInv, TypeOK', NEW e \in Editor, EditNext(e)
    PROVE  FreezeInv'
<1> USE DEF EditNext, EditAway, EditCheck, EditRefused, EditWrite, EditAbandon, dbVars
<1>1. TypeOK /\ edit[e] \in EditState /\ NoEdit.step = "idle"
  BY DEF FreezeInv, TypeOK, NoEdit
<1>2. \A f \in Editor : f # e => edit'[f] = edit[f]
  BY <1>1 DEF TypeOK
<1>3. edit'[e].step = "checked" => ~Exclusive /\ ~frozen
  BY <1>1 DEF TypeOK
<1>4. UNCHANGED <<frozen, pending, archive, process, generation, lock, export, undo, unfreeze>>
  OBVIOUS
<1>5. process = "serving"
  <2>1. CASE edit[e].step = "idle"
    BY <2>1
  <2>2. CASE edit[e].step # "idle"
    BY <1>1, <2>2 DEF FreezeInv, StoppedIsIdle
  <2> QED
    BY <2>1, <2>2
<1>6. data' # data => edit[e].step = "checked"
  OBVIOUS
<1> HIDE DEF EditNext
<1>7. LockAlone' /\ Numbered' /\ Flags' /\ UndoHolds'
  BY <1>4 DEF FreezeInv, LockAlone, HoldsLock, Numbered, Flags, UndoHolds
<1>8. GateAlone'
  BY <1>2, <1>3, <1>4 DEF FreezeInv, GateAlone, Exclusive, Shared
<1>9. CheckedIsOpen'
  BY <1>2, <1>3, <1>4 DEF FreezeInv, CheckedIsOpen
<1>10. StoppedIsIdle'
  BY <1>4, <1>5 DEF StoppedIsIdle
<1>11. \A x \in Exporter : FrozeHolds(x)'
  BY <1>4, <1>6 DEF FreezeInv, FrozeHolds, CheckedIsOpen
<1> QED
  BY <1>7, <1>8, <1>9, <1>10, <1>11 DEF FreezeInv

(* UndoInv: a step of the undo keeps the invariant.                         *)
LEMMA UndoInv ==
    ASSUME FreezeInv, TypeOK', UndoNext
    PROVE  FreezeInv'
<1> USE DEF FreezingStep, PackedStep
<1>1. TypeOK /\ undo \in UndoState /\ NoUndo.step = "idle" /\ NoUndo.gen = 0
  BY DEF FreezeInv, TypeOK, NoUndo
<1>2. \/ /\ undo.step = "waiting" /\ GateFree /\ undo.gen = generation
         /\ undo'.step = "lifting" /\ undo'.gen = undo.gen
         /\ UNCHANGED <<frozen, pending, archive, lock>>
      \/ /\ undo.step = "waiting" /\ undo' = NoUndo /\ lock' = FALSE
         /\ UNCHANGED <<frozen, pending, archive>>
      \/ /\ undo.step = "lifting" /\ frozen' = FALSE /\ archive' = None
         /\ undo'.step = "clearing_mark" /\ undo'.gen = undo.gen
         /\ UNCHANGED <<pending, lock>>
      \/ /\ undo.step = "lifting" /\ undo' = NoUndo /\ lock' = FALSE
         /\ UNCHANGED <<frozen, pending, archive>>
      \/ /\ undo.step = "clearing_mark" /\ undo' = NoUndo /\ lock' = FALSE
         /\ (pending' = FALSE \/ pending' = pending)
         /\ UNCHANGED <<frozen, archive>>
  BY <1>1 DEF UndoNext, UndoGate, UndoLift, UndoClearMark, UndoState, dbVars
<1>3. UNCHANGED <<data, process, generation, edit, export, unfreeze>>
  BY DEF UndoNext, UndoGate, UndoLift, UndoClearMark, dbVars
<1>4. undo.step # "idle"
  BY <1>2
<1>5. LockAlone'
  BY <1>1, <1>2, <1>3 DEF FreezeInv, LockAlone, HoldsLock
<1>6. GateAlone'
  BY <1>1, <1>2, <1>3 DEF FreezeInv, GateAlone, GateFree, Exclusive, Shared
<1>7. process = "serving"
  BY <1>1, <1>4 DEF FreezeInv, StoppedIsIdle
<1>8. StoppedIsIdle'
  BY <1>3, <1>7 DEF StoppedIsIdle
<1>9. CheckedIsOpen'
  BY <1>2, <1>3 DEF FreezeInv, CheckedIsOpen
<1>10. Flags'
  BY <1>2 DEF FreezeInv, Flags
<1>11. Numbered'
  BY <1>1, <1>2, <1>3 DEF FreezeInv, Numbered, TypeOK
<1>12. UndoHolds'
  BY <1>1, <1>2, <1>3 DEF FreezeInv, UndoHolds
<1>13. \A x \in Exporter : FrozeHolds(x)'
  BY <1>2, <1>3, <1>4 DEF FreezeInv, FrozeHolds, LockAlone, HoldsLock
<1> QED
  BY <1>5, <1>6, <1>8, <1>9, <1>10, <1>11, <1>12, <1>13 DEF FreezeInv

(* UnfreezeInv: a step of the administrator's unfreeze keeps the invariant. *)
LEMMA UnfreezeInv ==
    ASSUME FreezeInv, TypeOK', UnfreezeBegin \/ UnfreezeStep
    PROVE  FreezeInv'
<1> USE DEF UnfreezeStep, UnfreezeBegin, UnfreezeLift, UnfreezeClearMark, dbVars
<1>1. UNCHANGED <<data, process, generation, lock, edit, export, undo>>
  OBVIOUS
<1>2. /\ \/ frozen' = frozen /\ archive' = archive
         \/ frozen' = FALSE /\ archive' = None
      /\ pending' = FALSE \/ pending' = pending
  OBVIOUS
<1>3. LockAlone' /\ Numbered'
  BY <1>1 DEF FreezeInv, LockAlone, HoldsLock, Numbered
<1>4. GateAlone'
  BY <1>1 DEF FreezeInv, GateAlone, Exclusive, Shared
<1>5. StoppedIsIdle'
  BY <1>1 DEF FreezeInv, StoppedIsIdle
<1> HIDE DEF UnfreezeStep, UnfreezeBegin
<1>6. CheckedIsOpen' /\ Flags' /\ UndoHolds'
  <2>1. CheckedIsOpen' /\ Flags'
    BY <1>1, <1>2 DEF FreezeInv, CheckedIsOpen, Flags
  <2>2. UndoHolds'
    BY <1>1, <1>2 DEF FreezeInv, UndoHolds
  <2>3. QED
    BY <2>1, <2>2
<1>7. \A x \in Exporter : FrozeHolds(x)'
  BY <1>1, <1>2 DEF FreezeInv, FrozeHolds
<1> QED
  BY <1>3, <1>4, <1>5, <1>6, <1>7 DEF FreezeInv

(* ImportInv: an import keeps the invariant: no export or undo before it is *)
(* of the new generation.                                                   *)
LEMMA ImportInv ==
    ASSUME FreezeInv, TypeOK', NEW d \in 0..MaxEdits, Import(d)
    PROVE  FreezeInv'
<1>1. /\ generation' = generation + 1 /\ generation \in Nat
      /\ frozen' = FALSE /\ pending' = FALSE /\ archive' = None
      /\ GateFree /\ process = "serving"
      /\ UNCHANGED <<process, lock, edit, export, undo, unfreeze>>
  BY DEF Import, FreezeInv, TypeOK
<1>2. LockAlone' /\ GateAlone' /\ StoppedIsIdle' /\ CheckedIsOpen' /\ Flags' /\ UndoHolds'
  BY <1>1 DEF FreezeInv, LockAlone, HoldsLock, GateAlone, Exclusive, Shared, StoppedIsIdle,
              CheckedIsOpen, Flags, UndoHolds
<1>3. \A x \in Exporter : export[x].gen \in Nat
  BY DEF FreezeInv, TypeOK, ExportState
<1>4. undo.gen \in Nat
  BY DEF FreezeInv, TypeOK, UndoState
<1>5. Numbered'
  BY <1>1, <1>3, <1>4 DEF FreezeInv, Numbered, GateFree, Exclusive
<1>6. \A x \in Exporter : FrozeHolds(x)'
  BY <1>1 DEF FreezeInv, FrozeHolds
<1> QED
  BY <1>2, <1>5, <1>6 DEF FreezeInv

(* ProcessInv: stopping and starting keep the invariant: every task is gone *)
(* when lift_stranded_freeze runs, and what it lifts was not handed over.   *)
LEMMA ProcessInv ==
    ASSUME FreezeInv, TypeOK', ProcessNext
    PROVE  FreezeInv'
<1> USE DEF FreezingStep, PackedStep
<1>1. /\ NoExport.step = "idle" /\ NoExport.froze = FALSE /\ NoExport.gen = 0
      /\ NoEdit.step = "idle" /\ NoUndo.step = "idle" /\ NoUndo.gen = 0
  BY DEF NoExport, NoEdit, NoUndo
<1>2. /\ edit' = [e \in Editor |-> NoEdit] /\ export' = [x \in Exporter |-> NoExport]
      /\ undo' = NoUndo /\ unfreeze' = "idle"
  BY DEF ProcessNext, Stop, Start, StartClearMark, FreezeInv, StoppedIsIdle
<1>3. /\ \A e \in Editor : edit'[e].step = "idle"
      /\ \A x \in Exporter : export'[x].step = "idle" /\ ~export'[x].froze /\ export'[x].gen = 0
      /\ undo'.step = "idle" /\ undo'.gen = 0
  BY <1>1, <1>2
<1>4. generation' \in Nat
  BY DEF TypeOK
<1>5. LockAlone' /\ GateAlone' /\ CheckedIsOpen' /\ UndoHolds'
  BY <1>2, <1>3 DEF LockAlone, HoldsLock, GateAlone, Exclusive, Shared, CheckedIsOpen, UndoHolds
<1>6. StoppedIsIdle'
  BY <1>2 DEF StoppedIsIdle
<1>7. Numbered'
  BY <1>3, <1>4 DEF Numbered
<1>8. Flags'
  BY DEF ProcessNext, Stop, Start, StartClearMark, dbVars, FreezeInv, Flags
<1>9. \A x \in Exporter : FrozeHolds(x)'
  BY <1>3 DEF FrozeHolds
<1> QED
  BY <1>5, <1>6, <1>7, <1>8, <1>9 DEF FreezeInv

(* InvInit: FreezeInv holds before anything is exported.                    *)
LEMMA InvInit == Init => FreezeInv
<1> SUFFICES ASSUME Init PROVE FreezeInv
  OBVIOUS
<1> USE DEF Init, FreezingStep, PackedStep
<1>1. /\ NoExport.step = "idle" /\ NoExport.froze = FALSE /\ NoExport.gen = 0
      /\ NoEdit.step = "idle" /\ NoUndo.step = "idle" /\ NoUndo.gen = 0
  BY DEF NoExport, NoEdit, NoUndo
<1>2. NoExport \in ExportState /\ NoEdit \in EditState /\ NoUndo \in UndoState
  BY DEF NoExport, ExportState, NoEdit, EditState, NoUndo, UndoState
<1>3. TypeOK
  BY <1>2, Zenon DEF TypeOK
<1>4. LockAlone /\ GateAlone /\ CheckedIsOpen /\ UndoHolds
  BY <1>1 DEF LockAlone, HoldsLock, GateAlone, Exclusive, Shared, CheckedIsOpen, UndoHolds
<1>5. StoppedIsIdle /\ Numbered /\ Flags
  BY <1>1 DEF StoppedIsIdle, Numbered, Flags
<1>6. \A x \in Exporter : FrozeHolds(x)
  BY <1>1 DEF FrozeHolds
<1> QED
  BY <1>3, <1>4, <1>5, <1>6 DEF FreezeInv

(* InvStep: every step keeps FreezeInv.                                     *)
LEMMA InvStep == FreezeInv /\ [Next]_vars => FreezeInv'
<1> SUFFICES ASSUME FreezeInv, [Next]_vars PROVE FreezeInv'
  OBVIOUS
<1>1. TypeOK'
  BY TypeStep DEF FreezeInv
<1>2. CASE UNCHANGED vars
  BY <1>1, <1>2
     DEF vars, FreezeInv, LockAlone, HoldsLock, GateAlone, Exclusive, Shared, StoppedIsIdle,
         CheckedIsOpen, Numbered, Flags, FrozeHolds, UndoHolds
<1> QED
  BY <1>1, <1>2, EditInv, ExportInv, UndoInv, UnfreezeInv, ImportInv, ProcessInv DEF Next

(* FreezeInvariant: FreezeInv holds throughout.                             *)
LEMMA FreezeInvariant == Spec => []FreezeInv
  BY InvInit, InvStep, PTL DEF Spec

(* FreezeTypeCorrect: every variable keeps its type.                        *)
THEOREM FreezeTypeCorrect == Spec => []TypeOK
<1>1. FreezeInv => TypeOK
  BY DEF FreezeInv
<1> QED
  BY <1>1, FreezeInvariant, PTL

------------------------------------------------------------------------------
(* The refinement.                                                          *)

(* ExportPromised: an export's step is a freeze, its hand-over or its being *)
(* withdrawn, or nothing the promise sees.                                  *)
LEMMA ExportPromised ==
    ASSUME FreezeInv, FreezeInv', NEW x \in Exporter, ExportNext(x)
    PROVE  [Promised!PNext]_(Promised!promiseVars)
<1> USE DEF dbVars
<1>1. UNCHANGED <<data, generation, unfreeze>>
  BY Zenon
     DEF ExportNext, ExportStep, ExportBegin, ExportLock, ExportGate, ExportMark, ExportFreeze,
         ExportCopy, ExportClear, ExportClearMark, ExportPackage, ExportRecord, HandOver, ExportGone
<1>2. CASE UNCHANGED <<frozen, archive>>
  BY <1>1, <1>2 DEF Promised!promiseVars
<1>3. CASE ExportFreeze(x)
  <2>1. CASE frozen' = TRUE /\ archive' = archive
    <3>1. ~frozen /\ archive = None
      BY <1>3 DEF ExportFreeze, FreezeInv, FrozeHolds, Flags
    <3>2. Promised!PFreeze
      BY <1>1, <2>1, <3>1 DEF Promised!PFreeze
    <3> QED
      BY <3>2 DEF Promised!PNext
  <2> QED
    BY <1>2, <1>3, <2>1, Zenon DEF ExportFreeze
<1>4. CASE ExportClear(x)
  <2>1. CASE frozen' = FALSE /\ archive' = None
    <3>1. archive = None
      BY <1>4 DEF ExportClear, FreezeInv, FrozeHolds
    <3>2. CASE frozen
      BY <1>1, <2>1, <3>1, <3>2 DEF Promised!PNext, Promised!PWithdraw
    <3>3. CASE ~frozen
      BY <1>1, <2>1, <3>1, <3>3 DEF Promised!promiseVars
    <3> QED
      BY <3>2, <3>3
  <2> QED
    BY <1>2, <1>4, <2>1, Zenon DEF ExportClear
<1>5. CASE HandOver(x)
  <2>1. frozen' = frozen
    BY <1>5 DEF HandOver
  <2>2. CASE archive' # archive
    <3>1. /\ export[x].step = "ready" /\ export[x].froze /\ export[x].gen = generation /\ frozen
          /\ archive' = export[x].snap
      BY <1>5, <2>2 DEF HandOver
    <3>2. archive = None /\ archive' = data
      BY <3>1 DEF FreezeInv, FrozeHolds, PackedStep
    <3>3. archive' # None
      BY <3>2, FreezeAssumption DEF FreezeInv, TypeOK
    <3>4. Promised!PHandOver
      BY <1>1, <2>1, <3>1, <3>2, <3>3 DEF Promised!PHandOver
    <3> QED
      BY <3>4 DEF Promised!PNext
  <2> QED
    BY <1>2, <2>1, <2>2
<1> QED
  BY <1>2, <1>3, <1>4, <1>5, Zenon
     DEF ExportNext, ExportStep, ExportBegin, ExportLock, ExportGate, ExportMark, ExportCopy,
         ExportClearMark, ExportPackage, ExportRecord, ExportGone

(* StepPromised: every step is a step of the promise or nothing to it.      *)
LEMMA StepPromised ==
    FreezeInv /\ FreezeInv' /\ [Next]_vars => [Promised!PNext]_(Promised!promiseVars)
<1> SUFFICES ASSUME FreezeInv, FreezeInv', [Next]_vars
             PROVE  [Promised!PNext]_(Promised!promiseVars)
  OBVIOUS
<1> USE DEF dbVars
<1>1. ASSUME NEW e \in Editor, EditNext(e) PROVE [Promised!PNext]_(Promised!promiseVars)
  <2>1. UNCHANGED <<frozen, archive, generation, unfreeze>>
    BY <1>1 DEF EditNext, EditAway, EditCheck, EditRefused, EditWrite, EditAbandon
  <2>2. CASE data' = data
    BY <2>1, <2>2 DEF Promised!promiseVars
  <2>3. CASE data' # data
    <3>1. ~frozen /\ data' = data + 1
      BY <1>1, <2>3 DEF EditNext, EditAway, EditCheck, EditRefused, EditWrite, EditAbandon,
                        FreezeInv, CheckedIsOpen
    <3> QED
      BY <2>1, <3>1 DEF Promised!PNext, Promised!PEdit
  <2> QED
    BY <2>2, <2>3
<1>2. CASE UndoNext
  <2>1. UNCHANGED <<data, generation, unfreeze>>
    BY <1>2 DEF UndoNext, UndoGate, UndoLift, UndoClearMark
  <2>2. CASE UNCHANGED <<frozen, archive>>
    BY <2>1, <2>2 DEF Promised!promiseVars
  <2>3. CASE undo.step = "lifting" /\ frozen' = FALSE /\ archive' = None
    <3>1. archive = None
      BY <2>3, Zenon DEF FreezeInv, UndoHolds, Numbered
    <3>2. CASE frozen
      BY <2>1, <2>3, <3>1, <3>2 DEF Promised!PNext, Promised!PWithdraw
    <3>3. CASE ~frozen
      BY <2>1, <2>3, <3>1, <3>3 DEF Promised!promiseVars
    <3> QED
      BY <3>2, <3>3
  <2> QED
    BY <1>2, <2>2, <2>3, Zenon DEF UndoNext, UndoGate, UndoLift, UndoClearMark
<1>3. CASE UnfreezeBegin \/ UnfreezeStep
  <2>1. UNCHANGED <<data, generation>>
    BY <1>3 DEF UnfreezeBegin, UnfreezeStep, UnfreezeLift, UnfreezeClearMark
  <2>2. CASE UNCHANGED <<frozen, archive>>
    BY <2>1, <2>2 DEF Promised!PNext, Promised!PAsk
  <2>3. CASE /\ unfreeze = "lifting" /\ unfreeze' = "clearing_mark"
             /\ frozen' = FALSE /\ archive' = None
    BY <2>1, <2>3 DEF Promised!PNext, Promised!PUnfreeze
  <2> QED
    BY <1>3, <2>2, <2>3, Zenon DEF UnfreezeBegin, UnfreezeStep, UnfreezeLift, UnfreezeClearMark
<1>4. ASSUME NEW d \in 0..MaxEdits, Import(d) PROVE [Promised!PNext]_(Promised!promiseVars)
  <2>1. data' \in Nat
    BY DEF FreezeInv, TypeOK
  <2> QED
    BY <1>4, <2>1 DEF Import, Promised!PNext, Promised!PImport
<1>5. CASE ProcessNext
  <2>1. CASE Stop
    BY <2>1 DEF Stop, Promised!PNext, Promised!PStop
  <2>2. CASE Start /\ ~UNCHANGED <<frozen, archive>>
    <3>1. /\ pending /\ frozen' = FALSE /\ archive' = None
          /\ UNCHANGED <<data, generation, unfreeze>>
      BY <2>2 DEF Start
    <3>2. archive = None
      BY <3>1 DEF FreezeInv, Flags
    <3>3. CASE frozen
      BY <3>1, <3>2, <3>3 DEF Promised!PNext, Promised!PWithdraw
    <3>4. CASE ~frozen
      BY <3>1, <3>2, <3>4 DEF Promised!promiseVars
    <3> QED
      BY <3>3, <3>4
  <2>3. CASE (Start \/ StartClearMark) /\ UNCHANGED <<frozen, archive>>
    BY <2>3 DEF Start, StartClearMark, Promised!promiseVars
  <2> QED
    BY <1>5, <2>1, <2>2, <2>3, Zenon DEF ProcessNext, StartClearMark
<1>6. CASE UNCHANGED vars
  BY <1>6 DEF vars, Promised!promiseVars
<1> QED
  BY <1>1, <1>2, <1>3, <1>4, <1>5, <1>6, ExportPromised DEF Next

(* PromiseKept: for any number of edits and exports, and whether the store  *)
(* fails or not, the exports, undos, unfreezes, imports and restarts of     *)
(* Freeze keep the promise of FreezePromise.                                *)
THEOREM PromiseKept == Spec => ImplementsPromise
<1>1. Init => Promised!PInit
  BY DEF Init, Promised!PInit
<1> QED
  BY <1>1, FreezeInvariant, StepPromised, PTL DEF Spec, ImplementsPromise, Promised!Promise

------------------------------------------------------------------------------
(* A store that does not fail.                                              *)

AccountInv == FreezeInv /\ Between /\ FreezeIsAccountedFor

(* AccountExport: where set_flag does not fail, an export's step leaves     *)
(* each freeze accounted for.                                               *)
LEMMA AccountExport ==
    ASSUME ~WriteFails, AccountInv, NEW x \in Exporter, ExportNext(x)
    PROVE  Between' /\ FreezeIsAccountedFor'
<1> USE DEF FreezingStep, PackedStep, dbVars
<1>0. TypeOK /\ FreezeInv
  BY DEF AccountInv, FreezeInv
<1>1. UNCHANGED <<data, process, generation, unfreeze>>
  BY Zenon
     DEF ExportNext, ExportStep, ExportBegin, ExportLock, ExportGate, ExportMark, ExportFreeze,
         ExportCopy, ExportClear, ExportClearMark, ExportPackage, ExportRecord, HandOver, ExportGone
<1>2. /\ \A s \in {"gating", "sharing"} \cup FreezingStep \cup PackedStep :
            Goto(x, s) => Became(x, s)
      /\ Drop(x) => Ended(x) /\ Dropped(x)
      /\ Return(x) => Ended(x)
      /\ export' = [export EXCEPT ![x] = NoExport] => Ended(x)
  BY <1>0, BecameMoves, DropEnds, ReturnEnds, EndedMoves, Zenon
<1>3. ASSUME NEW f \in BOOLEAN, ExportBegin(x, f) PROVE Between' /\ FreezeIsAccountedFor'
  <2>1. Moves(x) /\ export'[x].step = "locking"
    BY <1>0, <1>3, BeginMoves, Zenon DEF ExportBegin
  <2> QED
    BY <1>1, <1>3, <2>1 DEF ExportBegin, AccountInv, Between, FreezeIsAccountedFor, Settles, Moves
<1>4. CASE ExportLock(x)
  <2>1. Became(x, "gating")
    BY <1>2, <1>4 DEF ExportLock
  <2> QED
    BY <1>1, <1>4, <2>1
       DEF ExportLock, AccountInv, Between, FreezeIsAccountedFor, Settles, Became, Moves
<1>5. CASE ExportGate(x)
  <2>1. Moves(x) /\ export'[x].step \in {"idle", "sharing", "copying", "marking"}
    BY <1>0, <1>2, <1>5, GateMoves, Zenon DEF ExportGate, Return, Became, Ended
  <2> QED
    BY <1>1, <1>5, <2>1 DEF ExportGate, AccountInv, Between, FreezeIsAccountedFor, Settles, Moves
<1>6. CASE ExportMark(x)
  <2>1. Became(x, "freezing") /\ pending' = TRUE /\ UNCHANGED <<frozen, archive, undo>>
    BY <1>2, <1>6 DEF ExportMark
  <2>2. ~frozen
    BY <1>0, <1>6 DEF ExportMark, FreezeInv, FrozeHolds
  <2> QED
    BY <1>1, <2>1, <2>2 DEF AccountInv, Between, FreezeIsAccountedFor, Became, Moves
<1>7. CASE ExportFreeze(x)
  <2>1. Became(x, "copying") /\ frozen' = TRUE /\ UNCHANGED <<pending, archive, undo>>
    BY <1>2, <1>7 DEF ExportFreeze
  <2>2. archive = None /\ pending /\ export[x].froze
    BY <1>0, <1>7 DEF ExportFreeze, FreezeInv, FrozeHolds, Flags, AccountInv, Between
  <2>3. \A y \in Exporter : y # x => export[y].step # "clearing_mark"
    BY <1>0, <1>7 DEF ExportFreeze, FreezeInv, LockAlone, HoldsLock
  <2>4. undo.step = "idle" /\ unfreeze = "idle" /\ process = "serving"
    BY <1>0, <1>7, Running, Zenon
       DEF ExportFreeze, FreezeInv, LockAlone, HoldsLock, GateAlone, Exclusive, Shared
  <2>5. Between'
    BY <1>1, <2>1, <2>3, <2>4 DEF AccountInv, Between, Became, Moves
  <2>6. Settles'
    BY <2>1, <2>2, Zenon DEF Settles, Became, Keeps
  <2> QED
    BY <2>1, <2>2, <2>5, <2>6 DEF FreezeIsAccountedFor
<1>8. CASE ExportCopy(x)
  <2>1. /\ Moves(x) /\ UNCHANGED <<frozen, pending, archive, undo>>
        /\ \/ /\ export'[x].step = "packing" /\ export'[x].froze = export[x].froze
              /\ export'[x].gen = generation
           \/ export'[x].step = "clearing" /\ export'[x].froze = export[x].froze
           \/ export'[x].step = "idle" /\ ~export[x].froze
    BY <1>0, <1>2, <1>8, CopyMoves, Zenon DEF ExportCopy, Return, Became, Keeps, Ended
  <2>2. Between'
    BY <1>1, <2>1 DEF AccountInv, Between, Moves
  <2>3. Settles => Settles'
    BY <1>1, <2>1 DEF Settles, Moves
  <2> QED
    BY <1>1, <2>1, <2>2, <2>3 DEF AccountInv, FreezeIsAccountedFor
<1>9. CASE ExportClear(x)
  <2>1. Became(x, "clearing_mark") /\ frozen' = FALSE /\ UNCHANGED <<pending, undo>>
    BY <1>2, <1>9 DEF ExportClear
  <2> QED
    BY <1>1, <2>1 DEF AccountInv, Between, FreezeIsAccountedFor, Became, Moves
<1>10. CASE ExportClearMark(x)
  <2>1. Ended(x) /\ UNCHANGED <<frozen, undo>>
    BY <1>2, <1>10 DEF ExportClearMark
  <2>2. ~frozen
    BY <1>10 DEF ExportClearMark, AccountInv, Between
  <2>3. \A y \in Exporter : y # x => export[y].step # "freezing"
    BY <1>0, <1>10 DEF ExportClearMark, FreezeInv, LockAlone, HoldsLock
  <2> QED
    BY <1>1, <2>1, <2>2, <2>3 DEF AccountInv, Between, FreezeIsAccountedFor, Ended, Moves
<1>11. CASE ExportPackage(x) \/ ExportRecord(x) \/ ExportGone(x)
  <2>1. /\ UNCHANGED <<frozen, pending, archive>>
        /\ \/ Became(x, "packed") /\ export[x].step = "packing" /\ undo' = undo
           \/ Became(x, "ready") /\ export[x].step = "packed" /\ undo' = undo
           \/ Became(x, export[x].step) /\ undo' = undo
           \/ Ended(x) /\ Dropped(x) /\ export[x].step \in PackedStep
           \/ Ended(x) /\ undo' = undo /\ ~export[x].froze /\ export[x].step \in PackedStep
    BY <1>0, <1>2, <1>11, GoneBecomes DEF ExportPackage, ExportRecord, ExportGone
  <2>2. Between'
    BY <1>1, <2>1 DEF AccountInv, Between, Became, Ended, Dropped, Moves
  <2>3. export[x].froze /\ export[x].step \in PackedStep => undo.step = "idle"
    BY <1>0 DEF FreezeInv, LockAlone, HoldsLock
  <2>4. Settles => Settles'
    BY <1>1, <2>1, <2>3, Zenon DEF Settles, Became, Ended, Dropped, Moves, Keeps
  <2> QED
    BY <1>1, <2>1, <2>2, <2>4 DEF AccountInv, FreezeIsAccountedFor
<1>12. CASE HandOver(x)
  <2>1. Ended(x) /\ undo' = undo /\ frozen' = frozen /\ export[x].step = "ready"
    BY <1>2, <1>12 DEF HandOver
  <2>2. CASE export[x].froze /\ export[x].gen = generation
    <3>1. pending' = FALSE /\ (frozen => archive' = export[x].snap)
      BY <1>12, <2>2, Zenon DEF HandOver
    <3>2. frozen => export[x].snap = data
      BY <1>0, <2>1, <2>2 DEF FreezeInv, FrozeHolds
    <3>3. \A y \in Exporter : y # x => export[y].step # "freezing"
      BY <1>0, <2>1, <2>2 DEF FreezeInv, LockAlone, HoldsLock
    <3>4. Between'
      BY <1>1, <2>1, <3>1, <3>3 DEF AccountInv, Between, Ended, Moves
    <3> QED
      BY <1>1, <2>1, <3>1, <3>2, <3>4 DEF FreezeIsAccountedFor
  <2>3. CASE ~(export[x].froze /\ export[x].gen = generation)
    <3>1. UNCHANGED <<pending, archive>>
      BY <1>0, <1>12, <2>3 DEF HandOver, TypeOK
    <3>2. Between'
      BY <1>1, <2>1, <3>1 DEF AccountInv, Between, Ended, Moves
    <3>3. Settles => Settles'
      BY <1>1, <2>1, <2>3 DEF Settles, Ended, Moves
    <3> QED
      BY <1>1, <2>1, <3>1, <3>2, <3>3 DEF AccountInv, FreezeIsAccountedFor
  <2> QED
    BY <2>2, <2>3
<1> QED
  BY <1>3, <1>4, <1>5, <1>6, <1>7, <1>8, <1>9, <1>10, <1>11, <1>12 DEF ExportNext, ExportStep

(* AccountStep: so does every other step.                                   *)
LEMMA AccountStep ==
    ASSUME ~WriteFails, AccountInv, FreezeInv', [Next]_vars
    PROVE  Between' /\ FreezeIsAccountedFor'
<1> USE DEF FreezingStep, PackedStep, dbVars
<1>0. TypeOK /\ FreezeInv
  BY DEF AccountInv, FreezeInv
<1>1. ASSUME NEW e \in Editor, EditNext(e) PROVE Between' /\ FreezeIsAccountedFor'
  <2>1. /\ UNCHANGED <<frozen, pending, archive, process, generation, export, undo, unfreeze>>
        /\ frozen => data' = data
    BY <1>0, <1>1 DEF EditNext, EditAway, EditCheck, EditRefused, EditWrite, EditAbandon,
                      FreezeInv, CheckedIsOpen
  <2> QED
    BY <2>1 DEF AccountInv, Between, FreezeIsAccountedFor, Settles
<1>2. ASSUME NEW x \in Exporter, ExportNext(x) PROVE Between' /\ FreezeIsAccountedFor'
  BY <1>2, AccountExport
<1>3. CASE UndoNext
  <2>1. UNCHANGED <<data, process, generation, unfreeze, export>>
    BY <1>3 DEF UndoNext, UndoGate, UndoLift, UndoClearMark
  <2>2. undo \in UndoState /\ NoUndo.step = "idle"
    BY <1>0 DEF TypeOK, NoUndo
  <2>3. CASE UndoGate
    <3>1. CASE undo.gen = generation
      <4>1. /\ undo'.step = "lifting" /\ undo'.gen = generation
            /\ UNCHANGED <<frozen, pending, archive>>
        BY <2>2, <2>3, <3>1 DEF UndoGate, UndoState
      <4> QED
        BY <2>1, <2>3, <4>1 DEF UndoGate, AccountInv, Between, FreezeIsAccountedFor, Settles
    <3>2. CASE undo.gen # generation
      BY <2>1, <2>2, <2>3, <3>2 DEF UndoGate, AccountInv, Between, FreezeIsAccountedFor, Settles
    <3> QED
      BY <3>1, <3>2
  <2>4. CASE UndoLift
    BY <2>1, <2>4 DEF UndoLift, AccountInv, Between, FreezeIsAccountedFor
  <2>5. CASE UndoClearMark
    <3>1. \A x \in Exporter : export[x].step # "freezing"
      BY <1>0, <2>5, Zenon DEF UndoClearMark, FreezeInv, LockAlone, HoldsLock
    <3> QED
      BY <2>1, <2>2, <2>5, <3>1 DEF UndoClearMark, AccountInv, Between, FreezeIsAccountedFor
  <2> QED
    BY <1>3, <2>3, <2>4, <2>5 DEF UndoNext
<1>4. CASE UnfreezeBegin \/ UnfreezeStep
  <2>1. UNCHANGED <<data, process, generation, export, undo>>
    BY <1>4 DEF UnfreezeBegin, UnfreezeStep, UnfreezeLift, UnfreezeClearMark
  <2>2. CASE UnfreezeBegin
    BY <2>1, <2>2 DEF UnfreezeBegin, AccountInv, Between, FreezeIsAccountedFor, Settles
  <2>3. CASE UnfreezeLift
    BY <2>1, <2>3 DEF UnfreezeLift, AccountInv, Between, FreezeIsAccountedFor
  <2>4. CASE UnfreezeClearMark
    <3>1. \A x \in Exporter : export[x].step # "freezing"
      BY <1>0, <2>4 DEF UnfreezeClearMark, FreezeInv, GateAlone, Exclusive, Shared
    <3> QED
      BY <2>1, <2>4, <3>1 DEF UnfreezeClearMark, AccountInv, Between, FreezeIsAccountedFor
  <2> QED
    BY <1>4, <2>2, <2>3, <2>4 DEF UnfreezeStep
<1>5. ASSUME NEW d \in 0..MaxEdits, Import(d) PROVE Between' /\ FreezeIsAccountedFor'
  <2>1. \A x \in Exporter : export[x].step # "freezing"
    BY <1>5 DEF Import, GateFree, Exclusive
  <2> QED
    BY <1>5, <2>1 DEF Import, AccountInv, Between, FreezeIsAccountedFor
<1>6. CASE ProcessNext
  <2>1. /\ NoExport.step = "idle" /\ NoUndo.step = "idle"
    BY DEF NoExport, NoUndo
  <2>2. /\ export' = [x \in Exporter |-> NoExport] /\ undo' = NoUndo /\ unfreeze' = "idle"
    BY <1>0, <1>6 DEF ProcessNext, Stop, Start, StartClearMark, FreezeInv, StoppedIsIdle
  <2>3. Between'
    BY <1>6, <2>1, <2>2 DEF ProcessNext, Stop, Start, StartClearMark, AccountInv, Between
  <2>4. FreezeIsAccountedFor'
    BY <1>6, Zenon
       DEF ProcessNext, Stop, Start, StartClearMark, AccountInv, Between, FreezeIsAccountedFor
  <2> QED
    BY <2>3, <2>4
<1>7. CASE UNCHANGED vars
  BY <1>7 DEF vars, AccountInv, Between, FreezeIsAccountedFor, Settles
<1> QED
  BY <1>1, <1>2, <1>3, <1>4, <1>5, <1>6, <1>7 DEF Next

(* AccountCorrect: for any number of edits and exports, where set_flag does *)
(* not fail, a freeze is always either kept with a complete archive or      *)
(* marked pending and about to be settled.                                  *)
THEOREM AccountCorrect == ~WriteFails => (Spec => []FreezeIsAccountedFor)
<1> SUFFICES ASSUME ~WriteFails PROVE Spec => []FreezeIsAccountedFor
  OBVIOUS
<1>1. Init => AccountInv
  <2>1. NoExport.step = "idle" /\ NoUndo.step = "idle"
    BY DEF NoExport, NoUndo
  <2> QED
    BY <2>1, InvInit DEF Init, AccountInv, Between, FreezeIsAccountedFor
<1>2. AccountInv /\ [Next]_vars => AccountInv'
  <2> SUFFICES ASSUME AccountInv, [Next]_vars PROVE AccountInv'
    OBVIOUS
  <2>1. FreezeInv'
    BY InvStep DEF AccountInv
  <2> QED
    BY <2>1, AccountStep DEF AccountInv
<1>3. AccountInv => FreezeIsAccountedFor
  BY DEF AccountInv
<1> QED
  BY <1>1, <1>2, <1>3, PTL DEF Spec
==============================================================================
