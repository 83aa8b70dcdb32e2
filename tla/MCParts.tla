-------------------------------- MODULE MCParts --------------------------------
(****************************************************************************)
(* The parts of the gateway that share no state with each other, for TLC in *)
(* one run: those of AccessParts, SsoParts, HostParts and ListParts, and    *)
(* the two that are here.  Init picks the part that runs and the others     *)
(* stay in their initial state, so that the state spaces add up instead of  *)
(* multiplying.                                                             *)
(****************************************************************************)
EXTENDS AccessParts, SsoParts, HostParts, ListParts

CONSTANTS
    n1, n2, a, b, LocalSid, b1,      \* SignIn: names, SIDs, a browser
    g1, g2,                          \* Catalogue: groups
    h1,                              \* a host
    k1, k2, k3,                      \* Signatures: certificates
    d1, d2, d3,                      \* accounts
    q1,                              \* a request
    v1                               \* a directory

VARIABLES
    focus,
    users, rows, passwords, sessions, account, changes, generation, at, pass,
    sent, arrived, buf, mcs, euarSeen, cut, broken

siVars == <<users, rows, passwords, sessions, account, changes, generation, at, pass>>
vaVars == <<serving, host, moves, keys, master, local, recovery, directory, sid, assigned, saved,
            request, console>>
saVars == <<clock, flowKey, flows, answers, posts, spent, accepted>>
sgVars == <<document, verdict>>
itVars == <<day, date>>
thVars == <<time, failures, taken, attempt, hashing, wrong, guesses>>
imVars == <<seconds, readers, writer, waiting, job, staged, uploads, inst, replaced, backups, temps,
            crashes, misapplied>>
frVars == <<sent, arrived, buf, mcs, euarSeen, cut, broken>>
chVars == <<names, cliprdr, units, length, read, passed, wholes, refused>>
caVars == <<groups, servers, groupIds, serverIds>>
ceVars == <<file, current, stamp, look, quiet>>
liVars == <<free, http, ws, cell, setup>>
scVars == <<db, copies, build, step, second, served>>
stVars == <<error, health, entries>>
noVars == <<newest, queue, page, shown, pushed, dropped>>
diVars == <<netbios, entry, preferred, bind>>
prVars == <<config, proc, lock, port, scans, staging, status>>

------------------------------------------------------------------------------
SI == INSTANCE SignIn WITH Name <- {n1, n2}, Sid <- {a, b}, Browser <- {b1},
                           ServiceAccount <- TRUE, MaxRows <- 1, MaxPasswords <- 0,
                           MaxResets <- 1, MaxChanges <- 2, MaxGeneration <- 0

FR == INSTANCE Framing WITH FromServer <- TRUE, HybridEx <- TRUE, MAX_UNIT <- 6,
                            MaxUnits <- 4, MaxBytes <- 14

(* The forms and rows: every kind of cell, of servers that are there and    *)
(* that are not, with ids of groups that may be gone.                       *)
ServerRow(n, p, g, d) == [name |-> n, host |-> h1, port |-> p, group |-> g, domain |-> d]
MCForms == {ServerRow(n1, 22, 0, TRUE), ServerRow(n1, Absent, 1, Absent),
            ServerRow(n2, 22, 1, TRUE), ServerRow(n2, 22, 2, TRUE)}
MCRows == {ServerRow(n1, Absent, Absent, Absent), ServerRow(n1, 22, g1, FALSE),
           ServerRow(n2, Absent, 0, TRUE), ServerRow(n2, 22, g2, Absent)}

MCPinned == <<k1, k2>>

------------------------------------------------------------------------------
Parts == {"signin", "vault", "saml", "signatures", "instant", "throttle", "imports", "framing",
          "chunks", "catalogue", "certificate", "listener", "schema", "standing", "notices",
          "directory", "process"}

Init ==
    /\ focus \in Parts
    /\ SI!Init /\ VA!Init /\ SA!Init /\ SG!Init /\ IT!Init /\ TH!Init /\ IM!Init /\ FR!Init
    /\ CH!Init /\ CA!Init /\ CE!Init /\ LI!Init /\ SC!Init /\ ST!Init /\ NO!Init
    /\ DI!Init /\ PR!Init
    /\ focus # "signin" => account[a].username = n1
    /\ focus # "vault" => host = h1
    /\ focus # "instant" => date.y = 1968
    /\ focus # "directory" =>
          /\ ~netbios /\ \A d \in {d1, d3} : entry[d].short = n1
          /\ \A d \in {d1, d2, d3} : entry[d].signInName = None
    /\ focus # "process" => config = v1

Next ==
    /\ UNCHANGED focus
    /\ IF focus = "signin" THEN SI!Next ELSE UNCHANGED siVars
    /\ IF focus = "vault" THEN VA!Next ELSE UNCHANGED vaVars
    /\ IF focus = "saml" THEN SA!Next ELSE UNCHANGED saVars
    /\ IF focus = "signatures" THEN SG!Next ELSE UNCHANGED sgVars
    /\ IF focus = "instant" THEN IT!Next ELSE UNCHANGED itVars
    /\ IF focus = "throttle" THEN TH!Next ELSE UNCHANGED thVars
    /\ IF focus = "imports" THEN IM!Next ELSE UNCHANGED imVars
    /\ IF focus = "framing" THEN FR!Next ELSE UNCHANGED frVars
    /\ IF focus = "chunks" THEN CH!Next ELSE UNCHANGED chVars
    /\ IF focus = "catalogue" THEN CA!Next ELSE UNCHANGED caVars
    /\ IF focus = "certificate" THEN CE!Next ELSE UNCHANGED ceVars
    /\ IF focus = "listener" THEN LI!Next ELSE UNCHANGED liVars
    /\ IF focus = "schema" THEN SC!Next ELSE UNCHANGED scVars
    /\ IF focus = "standing" THEN ST!Next ELSE UNCHANGED stVars
    /\ IF focus = "notices" THEN NO!Next ELSE UNCHANGED noVars
    /\ IF focus = "directory" THEN DI!Next ELSE UNCHANGED diVars
    /\ IF focus = "process" THEN PR!Next ELSE UNCHANGED prVars

vars == <<focus, siVars, vaVars, saVars, sgVars, itVars, thVars, imVars, frVars, chVars,
          caVars, ceVars, liVars, scVars, stVars, noVars, diVars, prVars>>

(* Fairness is each part's own, and stands in the properties that need it.  *)
Spec == Init /\ [][Next]_vars

------------------------------------------------------------------------------
(* server.rs revocation_pass: an account the directory disabled or deleted  *)
(* loses every session, one whose sign-in was under way included.  SIDs are *)
(* interchangeable: one stands for all.                                     *)
UnusableLosesSessions == focus = "signin" /\ SI!Fairness => SI!LosesSessions(a)

(* web.rs gate_requests: whoever waits at the gate gets in or goes away.    *)
(* Requests are interchangeable: one stands for all.                        *)
WaitingEnds == focus = "imports" /\ IM!Fairness => IM!Gets(q1)

(* scan/framing.rs push: the units are the peer's, however they arrive.     *)
UnitsAsSent == FR!UnitsAsSent
==============================================================================
