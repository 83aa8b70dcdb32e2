-------------------------------- MODULE Process --------------------------------
(****************************************************************************)
(* The life of a serving process (server.rs serve_blocking, run,            *)
(* serving_lock; app.rs for_serving; service.rs run), beside other          *)
(* processes started on the same or an edited configuration, and the copies *)
(* its scanner program works on (scan/scanner.rs Command), which stand for  *)
(* the blocking work that goes on after a stop was asked for.               *)
(*                                                                          *)
(* A process may crash at any step: the operating system then releases its  *)
(* lock and its port and nothing else.                                      *)
(****************************************************************************)
EXTENDS Integers

CONSTANTS
    Process,
    Dir,       \* data directories
    Copy,      \* names of copies in a scan-staging folder; random, so no two are alike
    NoOne

VARIABLES
    config,    \* the data directory the configuration file names
    proc,      \* where each process is, and the directory it read
    lock,      \* who holds serving.lock, by directory
    port,      \* who is bound to the listening address
    scans,     \* the scans on each process's blocking threads
    copies,    \* what each scan-staging folder holds
    status     \* what the Service Control Manager was last told of each process

vars == <<config, proc, lock, port, scans, copies, status>>

Step == {"off", "loaded", "locked", "open", "serving", "closing", "drained"}
Status == {"none", "start_pending", "running", "stop_pending", "stopped"}

TypeOK ==
    /\ config \in Dir
    /\ proc \in [Process -> [step : Step, dir : Dir]]
    /\ lock \in [Dir -> Process \cup {NoOne}] /\ port \in Process \cup {NoOne}
    /\ scans \in [Process -> SUBSET Copy] /\ copies \in [Dir -> SUBSET Copy]
    /\ status \in [Process -> Status]

Init ==
    /\ config \in Dir
    /\ proc = [p \in Process |-> [step |-> "off", dir |-> config]]
    /\ lock = [d \in Dir |-> NoOne] /\ port = NoOne
    /\ scans = [p \in Process |-> {}] /\ copies = [d \in Dir |-> {}]
    /\ status = [p \in Process |-> "none"]

At(p, step) == proc[p].step = step
Goto(p, step) == proc' = [proc EXCEPT ![p] = [@ EXCEPT !.step = step]]
Tell(p, s) == status' = [status EXCEPT ![p] = s]
Unheld(p) == [d \in Dir |-> IF lock[d] = p THEN NoOne ELSE lock[d]]

------------------------------------------------------------------------------
(* serve_blocking: the configuration is read once.                          *)
Load(p) ==
    /\ At(p, "off")
    /\ proc' = [proc EXCEPT ![p] = [step |-> "loaded", dir |-> config]]
    /\ Tell(p, "start_pending")
    /\ UNCHANGED <<config, lock, port, scans, copies>>

(* serving_lock: try_lock, which does not wait.                             *)
Acquire(p) ==
    /\ At(p, "loaded")
    /\ IF lock[proc[p].dir] = NoOne
       THEN Goto(p, "locked") /\ lock' = [lock EXCEPT ![proc[p].dir] = p] /\ UNCHANGED status
       ELSE Goto(p, "off") /\ Tell(p, "stopped") /\ UNCHANGED lock
    /\ UNCHANGED <<config, port, scans, copies>>

(* run: the certificate is read and the database opened, or is not.         *)
(* for_serving clears the copies an earlier run left.                       *)
Open(p) ==
    /\ At(p, "locked")
    /\ Goto(p, "open")
    /\ copies' = [copies EXCEPT ![proc[p].dir] = {}]
    /\ UNCHANGED <<config, lock, port, scans, status>>

OpenFails(p) ==
    /\ At(p, "locked")
    /\ Goto(p, "drained")
    /\ UNCHANGED <<config, lock, port, scans, copies, status>>

(* Faulty: running is told before the port is bound.                        *)
BindEarly(p) ==
    /\ At(p, "open")
    /\ Tell(p, "running")
    /\ IF port = NoOne THEN Goto(p, "serving") /\ port' = p
       ELSE Goto(p, "closing") /\ UNCHANGED port
    /\ UNCHANGED <<config, lock, scans, copies>>

(* The scanner's first check starts with the background tasks, before the   *)
(* listener is bound; ready tells the Service Control Manager after.        *)
Bind(p) ==
    /\ At(p, "open")
    /\ IF port = NoOne THEN Goto(p, "serving") /\ port' = p /\ Tell(p, "running")
       ELSE Goto(p, "closing") /\ UNCHANGED <<port, status>>
    /\ UNCHANGED <<config, lock, scans, copies>>

(* Command.scan, on a blocking thread.  Whatever the program said or did,   *)
(* its copy is removed at the end.  A task may still start one after the    *)
(* accept loop returned, until the runtime is dropped.                      *)
ScanBegins(p, c) ==
    /\ proc[p].step \in {"open", "serving", "closing"}
    /\ \A q \in Process, d \in Dir : c \notin scans[q] \cup copies[d]
    /\ scans' = [scans EXCEPT ![p] = @ \cup {c}]
    /\ copies' = [copies EXCEPT ![proc[p].dir] = @ \cup {c}]
    /\ UNCHANGED <<config, proc, lock, port, status>>

ScanEnds(p, c) ==
    /\ c \in scans[p]
    /\ scans' = [scans EXCEPT ![p] = @ \ {c}]
    /\ copies' = [copies EXCEPT ![proc[p].dir] = @ \ {c}]
    /\ UNCHANGED <<config, proc, lock, port, status>>

(* The stop event ends accept_loop, which drops the listener; stop pending  *)
(* is told from the same future.                                            *)
Shutdown(p) ==
    /\ At(p, "serving")
    /\ Goto(p, "closing") /\ port' = NoOne /\ Tell(p, "stop_pending")
    /\ UNCHANGED <<config, lock, scans, copies>>

(* Faulty: the lock goes with the runtime's tasks, not after them.          *)
DrainUnlocking(p) ==
    /\ At(p, "closing")
    /\ Goto(p, "drained") /\ lock' = Unheld(p)
    /\ UNCHANGED <<config, port, scans, copies, status>>

(* drop(runtime): blocking work still running is waited for.                *)
Drain(p) ==
    /\ At(p, "closing") /\ scans[p] = {}
    /\ Goto(p, "drained")
    /\ UNCHANGED <<config, lock, port, scans, copies, status>>

(* drop(lock); stopped is told whatever happened.                           *)
Stopped(p) ==
    /\ At(p, "drained")
    /\ Goto(p, "off") /\ lock' = Unheld(p) /\ Tell(p, "stopped")
    /\ UNCHANGED <<config, port, scans, copies>>

Crash(p) ==
    /\ ~At(p, "off")
    /\ Goto(p, "off") /\ lock' = Unheld(p) /\ port' = IF port = p THEN NoOne ELSE port
    /\ scans' = [scans EXCEPT ![p] = {}] /\ Tell(p, "none")
    /\ UNCHANGED <<config, copies>>

(* The administrator edits the configuration file.                          *)
Edit(d) ==
    /\ config # d /\ config' = d
    /\ UNCHANGED <<proc, lock, port, scans, copies, status>>

Next ==
    \/ \E p \in Process :
          \/ Load(p) \/ Acquire(p) \/ Open(p) \/ OpenFails(p) \/ Bind(p)
          \/ Shutdown(p) \/ Drain(p) \/ Stopped(p) \/ Crash(p)
          \/ \E c \in Copy : ScanBegins(p, c) \/ ScanEnds(p, c)
    \/ \E d \in Dir : Edit(d)

Spec == Init /\ [][Next]_vars

------------------------------------------------------------------------------
Works(p) == proc[p].step \in {"open", "serving"} \/ scans[p] # {}

(* A process that serves a data directory, or still has work of its own to  *)
(* finish there after a stop, is alone in it, whatever was edited or        *)
(* crashed; what its folder of copies holds is exactly what its scans work  *)
(* on, so none is left over and none is taken from under a scan             *)
(* (serve_blocking, for_serving).                                           *)
ServesAlone ==
    \A p \in Process : Works(p) =>
        /\ \A q \in Process \ {p} : Works(q) => proc[q].dir # proc[p].dir
        /\ copies[proc[p].dir] = scans[p]

(* The Service Control Manager is told running only of a process that has   *)
(* the port, and stopped only of one that keeps nothing: no lock, no port,  *)
(* no work (service.rs run).                                                *)
StatusIsTrue ==
    \A p \in Process :
        /\ status[p] = "running" => At(p, "serving") /\ port = p
        /\ status[p] = "stopped" =>
              port # p /\ scans[p] = {} /\ \A d \in Dir : lock[d] # p
==============================================================================
