-------------------------------- MODULE Notices --------------------------------
(****************************************************************************)
(* What the file scan decided, on its way to the user's page (scan/mod.rs   *)
(* Notices, web.rs my_notices): one numbering for all users, a short queue  *)
(* for each, and a page that asks for what came after the newest number it  *)
(* was told.  A poll's answer may be lost, and is applied after more was    *)
(* pushed; a page has one poll on its way at a time.                        *)
(****************************************************************************)
EXTENDS Integers, Sequences, Lists

CONSTANTS
    User,
    NOTICES_KEPT,
    MaxNotices     \* bound on the notices pushed

VARIABLES
    newest,    \* the last number given out
    queue,     \* each user's notices, by number, oldest first
    page,      \* each user's page: the number its session began at, the one
               \* it will ask after, and the answer on its way
    shown,     \* the notices each page showed, in order
    pushed,    \* every notice pushed for a user
    dropped    \* those that made room

vars == <<newest, queue, page, shown, pushed, dropped>>

NoAnswer == [there |-> FALSE, notices |-> <<>>, last |-> 0]

TypeOK ==
    /\ newest \in 0..MaxNotices
    /\ \A u \in User : Len(queue[u]) <= NOTICES_KEPT /\ page[u].after \in 0..newest

Init ==
    /\ newest = 0
    /\ queue = [u \in User |-> <<>>]
    /\ page = [u \in User |-> [from |-> 0, after |-> 0, answer |-> NoAnswer]]
    /\ shown = [u \in User |-> <<>>]
    /\ pushed = [u \in User |-> {}] /\ dropped = [u \in User |-> {}]

(* push.                                                                    *)
Push(u) ==
    LET longer == Append(queue[u], newest + 1)
        full == Len(longer) > NOTICES_KEPT
    IN /\ newest < MaxNotices
       /\ newest' = newest + 1
       /\ queue' = [queue EXCEPT ![u] = IF full THEN Tail(longer) ELSE longer]
       /\ dropped' = [dropped EXCEPT ![u] = IF full THEN @ \cup {Head(longer)} ELSE @]
       /\ pushed' = [pushed EXCEPT ![u] = @ \cup {newest + 1}]
       /\ UNCHANGED <<page, shown>>

(* Faulty: the number asked after is sent again.                            *)
SinceInclusive(u, after) ==
    [there |-> TRUE, notices |-> Only(queue[u], {n \in Nat : n >= after}), last |-> newest]

(* since.                                                                   *)
Since(u, after) ==
    [there |-> TRUE, notices |-> Only(queue[u], {n \in Nat : n > after}), last |-> newest]

(* my_notices answers the page's poll; the answer arrives, or is lost.      *)
Poll(u) ==
    /\ ~page[u].answer.there
    /\ page' = [page EXCEPT ![u].answer = Since(u, page[u].after)]
    /\ UNCHANGED <<newest, queue, shown, pushed, dropped>>

Show(u) ==
    LET got == page[u].answer
    IN /\ got.there
       /\ shown' = [shown EXCEPT ![u] = @ \o got.notices]
       /\ page' = [page EXCEPT ![u].after = got.last, ![u].answer = NoAnswer]
       /\ UNCHANGED <<newest, queue, pushed, dropped>>

Lost(u) ==
    /\ page[u].answer.there
    /\ page' = [page EXCEPT ![u].answer = NoAnswer]
    /\ UNCHANGED <<newest, queue, shown, pushed, dropped>>

(* Another session on the page: it begins at the newest number.             *)
Open(u) ==
    /\ ~page[u].answer.there
    /\ page' = [page EXCEPT ![u] = [from |-> newest, after |-> newest, answer |-> NoAnswer]]
    /\ shown' = [shown EXCEPT ![u] = <<>>]
    /\ UNCHANGED <<newest, queue, pushed, dropped>>

Next == \E u \in User : Push(u) \/ Poll(u) \/ Show(u) \/ Lost(u) \/ Open(u)

Spec == Init /\ [][Next]_vars

------------------------------------------------------------------------------
(* A page shows each notice of its user once, in order and only those of    *)
(* its session, and has shown every one up to the number it asks after that *)
(* was not dropped for room, whatever other users' notices take numbers in  *)
(* between and whichever answers are lost (Notices.since).                  *)
NoticesShownOnce ==
    \A u \in User :
        /\ \A i, j \in DOMAIN shown[u] : i < j => shown[u][i] < shown[u][j]
        /\ Members(shown[u]) \subseteq {n \in pushed[u] : n > page[u].from}
        /\ {n \in pushed[u] : page[u].from < n /\ n <= page[u].after}
              \subseteq Members(shown[u]) \cup dropped[u]
==============================================================================
