------------------------------- MODULE Throttle -------------------------------
(****************************************************************************)
(* The limits on failed sign-ins (auth.rs Throttle, as web.rs check_local   *)
(* and check_directory use it), for one username and one client address.    *)
(*                                                                          *)
(* A local attempt asks whether the name is blocked, waits for one of the   *)
(* hash permits, asks again, and hashes in a task that outlives a request   *)
(* given up; the task counts the failure.  A directory attempt takes its    *)
(* place before the bind and gives it back unless the password was wrong.   *)
(****************************************************************************)
EXTENDS Integers, Sequences, FiniteSets, Lists

CONSTANTS
    Local,       \* attempts on the local account that may be in flight
    Address,     \* directory attempts from the address that may be in flight
    Limit,       \* failures allowed within the window, at least one (0 is no limit)
    WINDOW,      \* THROTTLE_WINDOW
    BindTime,    \* bound on how long the directory takes to answer
    Permits,     \* hash_permits
    MaxTime      \* bound on time

VARIABLES
    time,        \* now
    failures,    \* Throttle.failures of the username
    taken,       \* address_throttle.failures of the address
    attempt,     \* each attempt in flight, and when a directory one was taken
    hashing,     \* hashes running
    wrong,       \* when each wrong local password since the last right one was tried
    guesses      \* when each wrong directory password was taken

vars == <<time, failures, taken, attempt, hashing, wrong, guesses>>

Time == 0..MaxTime
Away == [step |-> "away", at |-> 0]

TypeOK ==
    /\ time \in Time
    /\ Members(failures) \subseteq Time /\ Members(taken) \subseteq Time
    /\ Len(taken) <= Limit
    /\ attempt \in [Local \cup Address -> [step : {"away", "waiting", "binding"}, at : Time]]
    /\ hashing \in 0..Permits
    /\ Members(wrong) \subseteq Time /\ Members(guesses) \subseteq Time

Init ==
    /\ time = 0
    /\ failures = <<>> /\ taken = <<>>
    /\ attempt = [a \in Local \cup Address |-> Away]
    /\ hashing = 0
    /\ wrong = <<>> /\ guesses = <<>>

------------------------------------------------------------------------------
Recent(times) == Only(times, {t \in Nat : time - t < WINDOW})

(* A key whose newest failure is past the window goes from the map.         *)
Swept(times) == IF times # <<>> /\ time - times[Len(times)] < WINDOW THEN times ELSE <<>>

Blocked == Limit # 0 /\ Len(Recent(failures)) >= Limit

(* check_local: blocked before it waits.                                    *)
AskLocal(a) ==
    /\ attempt[a] = Away
    /\ failures' = Recent(failures)
    /\ IF Blocked THEN UNCHANGED attempt
       ELSE attempt' = [attempt EXCEPT ![a] = [step |-> "waiting", at |-> 0]]
    /\ UNCHANGED <<time, taken, hashing, wrong, guesses>>

(* Faulty: not asked again under the permit.                                *)
GetPermitUnasked(a) ==
    /\ attempt[a].step = "waiting" /\ hashing < Permits
    /\ hashing' = hashing + 1
    /\ attempt' = [attempt EXCEPT ![a] = Away]
    /\ UNCHANGED <<time, failures, taken, wrong, guesses>>

(* A permit is free: asked again, and hashed under the permit.              *)
GetPermit(a) ==
    /\ attempt[a].step = "waiting" /\ hashing < Permits
    /\ failures' = Recent(failures)
    /\ hashing' = IF Blocked THEN hashing ELSE hashing + 1
    /\ attempt' = [attempt EXCEPT ![a] = Away]
    /\ UNCHANGED <<time, taken, wrong, guesses>>

(* The request is given up while it waits: nothing was counted.             *)
GiveUp(a) ==
    /\ attempt[a].step = "waiting"
    /\ attempt' = [attempt EXCEPT ![a] = Away]
    /\ UNCHANGED <<time, failures, taken, hashing, wrong, guesses>>

(* The hashing task ends, whether its request is still there or not.        *)
HashWrong ==
    /\ hashing > 0
    /\ hashing' = hashing - 1
    /\ failures' = Append(Swept(failures), time)
    /\ wrong' = Append(wrong, time)
    /\ UNCHANGED <<time, taken, attempt, guesses>>

HashRight ==
    /\ hashing > 0
    /\ hashing' = hashing - 1
    /\ failures' = <<>>
    /\ wrong' = <<>>
    /\ UNCHANGED <<time, taken, attempt, guesses>>

------------------------------------------------------------------------------
(* Throttle.take and the start of the bind.                                 *)
Take(a) ==
    /\ attempt[a] = Away
    /\ IF Len(Recent(taken)) >= Limit
       THEN taken' = Recent(taken) /\ UNCHANGED attempt
       ELSE /\ taken' = Append(Recent(taken), time)
            /\ attempt' = [attempt EXCEPT ![a] = [step |-> "binding", at |-> time]]
    /\ UNCHANGED <<time, failures, hashing, wrong, guesses>>

(* refund takes the newest entry out, whichever attempt it was taken for.   *)
Refund == IF taken = <<>> THEN taken ELSE SubSeq(taken, 1, Len(taken) - 1)

(* The directory answers: a wrong password keeps its place.  A request      *)
(* given up during its bind keeps its place too.                            *)
BindWrong(a) ==
    /\ attempt[a].step = "binding"
    /\ guesses' = Append(guesses, attempt[a].at)
    /\ attempt' = [attempt EXCEPT ![a] = Away]
    /\ UNCHANGED <<time, failures, taken, hashing, wrong>>

BindOther(a) ==
    /\ attempt[a].step = "binding"
    /\ taken' = Refund
    /\ attempt' = [attempt EXCEPT ![a] = Away]
    /\ UNCHANGED <<time, failures, hashing, wrong, guesses>>

Pass ==
    /\ time < MaxTime
    /\ \A a \in Address : attempt[a].step = "binding" => time < attempt[a].at + BindTime
    /\ time' = time + 1
    /\ UNCHANGED <<failures, taken, attempt, hashing, wrong, guesses>>

Next ==
    \/ \E a \in Local : AskLocal(a) \/ GetPermit(a) \/ GiveUp(a)
    \/ HashWrong \/ HashRight \/ Pass
    \/ \E a \in Address : Take(a) \/ BindWrong(a) \/ BindOther(a)

Spec == Init /\ [][Next]_vars

------------------------------------------------------------------------------
InWindow(times) == Len(Only(times, {t \in Nat : time - t < WINDOW}))

(* However many attempts pass the first check before any of them failed, no *)
(* more wrong passwords are tried on a local account in a window than the   *)
(* limit and the hashes that may run at once (the second check, under the   *)
(* permit), requests given up during their hash included.                   *)
LocalGuessesBounded == InWindow(wrong) + hashing <= Limit + Permits - 1

(* An address has no more wrong passwords tried in a window, and attempts   *)
(* in flight, than the limit: attempts are counted before they are made and *)
(* given back unless the password was wrong (take and refund).              *)
AddressGuessesBounded ==
    InWindow(guesses) + Cardinality({a \in Address : attempt[a].step = "binding"}) <= Limit
==============================================================================
