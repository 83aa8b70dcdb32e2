------------------------------- MODULE Standing -------------------------------
(****************************************************************************)
(* The two standing checks of a running proxy and what they write to the    *)
(* activity log: the account checks against the directory (server.rs        *)
(* directory_checks, record_revocation) and the file scanner's own check    *)
(* (server.rs scan_checks, scan/mod.rs check, transition).                  *)
(*                                                                          *)
(* Each is one task, so a pass and its record do not overlap another of the *)
(* same kind.  The entries kept here are those of one run of the process:   *)
(* both standings start afresh with it, and retention or an import may take *)
(* entries from the database later.                                         *)
(****************************************************************************)
EXTENDS Integers, Sequences

CONSTANT
    MaxEntries     \* bound on the entries written in one run

VARIABLES
    error,     \* whether RevocationHealth.error is set
    health,    \* the scanner's Health: checked at all, and ok
    entries    \* what was written to the activity log since the start, by check

vars == <<error, health, entries>>

Checks == {"revocation", "scan"}
Unchecked == [checked |-> FALSE, ok |-> FALSE]

TypeOK ==
    /\ error \in BOOLEAN /\ health \in [checked : BOOLEAN, ok : BOOLEAN]
    /\ \A c \in Checks : \A i \in DOMAIN entries[c] : entries[c][i] \in {"failing", "restored"}

Init ==
    /\ error = FALSE /\ health = Unchecked
    /\ entries = [c \in Checks |-> <<>>]

Audit(c, written) ==
    /\ Len(entries[c] \o written) <= MaxEntries
    /\ entries' = [entries EXCEPT ![c] = @ \o written]

------------------------------------------------------------------------------
(* How a pass of the account checks ends: none was due, or its results were *)
(* discarded; it could not run; every lookup failed; some account was read, *)
(* or there was none to read.                                               *)
Outcome == {"none", "error", "blind", "checked"}

RecordRevocation(outcome) ==
    IF outcome = "none" THEN [error |-> error, written |-> <<>>]
    ELSE IF outcome \in {"error", "blind"}
    THEN [error |-> TRUE, written |-> IF error THEN <<>> ELSE <<"failing">>]
    ELSE [error |-> FALSE, written |-> IF error THEN <<"restored">> ELSE <<>>]

DirectoryCheck(outcome) ==
    LET r == RecordRevocation(outcome)
    IN /\ error' = r.error
       /\ Audit("revocation", r.written)
       /\ UNCHANGED health

(* Faulty: a check never made counts as a failed one.                       *)
TransitionSinceStart(was, now) ==
    IF was.ok /\ ~now.ok THEN <<"failing">> ELSE IF ~was.ok /\ now.ok THEN <<"restored">> ELSE <<>>

(* transition: the log's line when a check changes the scanner's standing.  *)
Transition(was, now) ==
    LET wasFailing == was.checked /\ ~was.ok
    IN IF ~wasFailing /\ ~now.ok THEN <<"failing">>
       ELSE IF wasFailing /\ now.ok THEN <<"restored">> ELSE <<>>

(* check: the EICAR file and the harmless one told apart or not, in time or *)
(* not.                                                                     *)
Check(ok) == [checked |-> TRUE, ok |-> ok]

ScanCheck(ok) ==
    /\ health' = Check(ok)
    /\ Audit("scan", Transition(health, Check(ok)))
    /\ UNCHANGED error

Restart ==
    /\ error' = FALSE /\ health' = Unchecked
    /\ entries' = [c \in Checks |-> <<>>]

Next ==
    \/ \E outcome \in Outcome : DirectoryCheck(outcome)
    \/ \E ok \in BOOLEAN : ScanCheck(ok)
    \/ Restart

Spec == Init /\ [][Next]_vars

------------------------------------------------------------------------------
(* In the log of one run, failing and restored take turns, failing first,   *)
(* and the last of them is how the check stands now: a check that keeps     *)
(* failing is written once, one that recovers once, and the first pass      *)
(* after a start is never a recovery (record_revocation, transition).       *)
ChangesLoggedOnce ==
    \A c \in Checks :
        LET failing == IF c = "scan" THEN health.checked /\ ~health.ok ELSE error
        IN /\ \A i \in DOMAIN entries[c] :
                 entries[c][i] = (IF i % 2 = 1 THEN "failing" ELSE "restored")
           /\ failing = (Len(entries[c]) % 2 = 1)
==============================================================================
