---------------------------- MODULE FreezePromise ----------------------------
(****************************************************************************)
(* What a freeze promises an administrator who migrates a proxy: from the   *)
(* moment it is in place no edit is acknowledged; when its archive is       *)
(* handed over, the archive holds every edit there is; from then on only    *)
(* an administrator's unfreeze or an import lifts it, whatever the service  *)
(* or another export does.  Freeze implements this.                         *)
(****************************************************************************)
EXTENDS Naturals

CONSTANT None

VARIABLES
    data,        \* the edits acknowledged
    freeze,      \* "open", "pending" its archive, or "kept"
    archive,     \* the edits the archive of a kept freeze holds
    generation,  \* the database in place, as the running service numbers it
    asked        \* an administrator's unfreeze is at work

promiseVars == <<data, freeze, archive, generation, asked>>

PInit ==
    /\ data = 0
    /\ freeze = "open" /\ archive = None
    /\ generation = 0
    /\ asked = FALSE

PEdit ==
    /\ freeze = "open"
    /\ data' = data + 1
    /\ UNCHANGED <<freeze, archive, generation, asked>>

PFreeze ==
    /\ freeze = "open" /\ freeze' = "pending"
    /\ UNCHANGED <<data, archive, generation, asked>>

PHandOver ==
    /\ freeze = "pending" /\ freeze' = "kept"
    /\ archive' = data
    /\ UNCHANGED <<data, generation, asked>>

(* A freeze that was not handed over is lifted, at any time.                *)
PWithdraw ==
    /\ freeze = "pending" /\ freeze' = "open"
    /\ UNCHANGED <<data, archive, generation, asked>>

PAsk ==
    /\ asked' \in BOOLEAN
    /\ UNCHANGED <<data, freeze, archive, generation>>

PUnfreeze ==
    /\ asked
    /\ freeze' = "open" /\ archive' = None
    /\ UNCHANGED <<data, generation, asked>>

PImport ==
    /\ generation' = generation + 1
    /\ data' \in Nat
    /\ freeze' = "open" /\ archive' = None
    /\ UNCHANGED asked

PStop ==
    /\ generation' = 0
    /\ asked' = FALSE
    /\ UNCHANGED <<data, freeze, archive>>

PNext ==
    PEdit \/ PFreeze \/ PHandOver \/ PWithdraw \/ PAsk \/ PUnfreeze \/ PImport \/ PStop

Promise == PInit /\ [][PNext]_promiseVars

==============================================================================
