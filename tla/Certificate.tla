------------------------------ MODULE Certificate ------------------------------
(****************************************************************************)
(* The listener's certificate (https.rs): read at start, and again whenever *)
(* its two files change, while somebody is replacing them.                  *)
(*                                                                          *)
(* The files are read one after the other and written by another process in *)
(* between, one at a time, in either order and perhaps in pieces.  What     *)
(* stamp_of compares, the time and length of a file, is its number of       *)
(* writes: two writes are assumed to differ in one of them.                 *)
(****************************************************************************)
EXTENDS Integers

CONSTANTS
    Version,      \* certificates, each with its own key; numbers from 1
    MaxWrites     \* bound on the writes of a file

VARIABLES
    file,      \* what "cert" and "key" hold, and how often each was written
    current,   \* Certificate.current: the certificate served, NoPair before open
    stamp,     \* Certificate.stamp: what the files were at the last look
    look,      \* reload_if_changed or open in progress: its step and what it read
    quiet      \* whether nothing was written since the last look began

vars == <<file, current, stamp, look, quiet>>

NoPair == 0      \* no certificate; a file that is missing, half-written or not PEM
Idle == [step |-> "idle", cert |-> 0, key |-> 0]
Unseen == <<-1, -1>>

TypeOK ==
    /\ file \in [{"cert", "key"} -> [holds : Version \cup {NoPair}, writes : 0..MaxWrites]]
    /\ current \in Version \cup {NoPair}
    /\ stamp \in (-1..MaxWrites) \X (-1..MaxWrites)
    /\ look.step \in {"idle", "stamp", "read", "load"}
    /\ quiet \in BOOLEAN

Init ==
    /\ file = [f \in {"cert", "key"} |-> [holds |-> 1, writes |-> 0]]
    /\ current = NoPair /\ stamp = Unseen /\ look = Idle /\ quiet = FALSE

(* Somebody renews the certificate, or gets it wrong.                       *)
Write(f, v) ==
    /\ file[f].writes < MaxWrites
    /\ file' = [file EXCEPT ![f] = [holds |-> v, writes |-> @.writes + 1]]
    /\ quiet' = FALSE
    /\ UNCHANGED <<current, stamp, look>>

------------------------------------------------------------------------------
(* stamp_of, for the certificate; then for the key, and the comparison.     *)
StampCert ==
    /\ look.step = "idle"
    /\ look' = [Idle EXCEPT !.step = "stamp", !.cert = file["cert"].writes]
    /\ quiet' = TRUE
    /\ UNCHANGED <<file, current, stamp>>

Changed(now) == stamp # now
ChangedCert(now) == stamp[1] # now[1]

CompareWith(Differs(_)) ==
    LET now == <<look.cert, file["key"].writes>>
    IN /\ look.step = "stamp"
       /\ IF Differs(now) THEN look' = [Idle EXCEPT !.step = "read"] /\ stamp' = now
          ELSE look' = Idle /\ UNCHANGED stamp
       /\ UNCHANGED <<file, current, quiet>>

(* Faulty: only the certificate's file is compared.                         *)
CompareCert == CompareWith(ChangedCert)

Compare == CompareWith(Changed)

(* load: the certificate is read, then the key, and the two must belong     *)
(* together.  At start a refused pair stops the process.                    *)
LoadCert ==
    /\ look.step = "read"
    /\ look' = [look EXCEPT !.step = "load", !.cert = file["cert"].holds]
    /\ UNCHANGED <<file, current, stamp, quiet>>

Belong(c, k) == c # NoPair /\ c = k

LoadKey ==
    /\ look.step = "load" /\ look' = Idle
    /\ IF Belong(look.cert, file["key"].holds)
       THEN current' = look.cert /\ UNCHANGED stamp
       ELSE /\ UNCHANGED current
            /\ stamp' = IF current = NoPair THEN Unseen ELSE stamp
    /\ UNCHANGED <<file, quiet>>

(* The process ends, and is started again.                                  *)
Restart ==
    /\ current' = NoPair /\ stamp' = Unseen /\ look' = Idle /\ quiet' = FALSE
    /\ UNCHANGED file

Next ==
    \/ \E f \in {"cert", "key"}, v \in Version \cup {NoPair} : Write(f, v)
    \/ StampCert \/ Compare \/ LoadCert \/ LoadKey
    \/ Restart

Spec == Init /\ [][Next]_vars

------------------------------------------------------------------------------
(* After a look at files that were left alone since it began, a pair that   *)
(* belongs together is the one served: a renewal written in two steps, in   *)
(* pieces, or while the files were being read is not missed, and a look     *)
(* that found them halfway does not keep a later one from trying again      *)
(* (reload_if_changed).                                                     *)
CertificateKeepsUp ==
    look.step = "idle" /\ quiet /\ Belong(file["cert"].holds, file["key"].holds)
        => current = file["cert"].holds
==============================================================================
